---------------------------- MODULE Counting_proofs ----------------------------
(***************************************************************************)
(* What an indexing run does to the rows: every vote in one row, rows that *)
(* describe the vote whose weight they have, and a freeze that forgets no  *)
(* vote it has seen, for any number of voters, balances and workers.       *)
(***************************************************************************)
EXTENDS Indexing_proofs

-----------------------------------------------------------------------------
(* The balances a vote melts through.                                      *)

(* A balance stems from no later one. *)
LEMMA OriginEarlier ==
  ASSUME TypeInv
  PROVE  \A b \in DOMAIN balances : Origin(b) \in Nat /\ Origin(b) <= b
<1> DEFINE Late == {b \in DOMAIN balances : ~(Origin(b) <= b)}
<1>1. /\ DOMAIN balances = 1..Len(balances) /\ Len(balances) \in Nat /\ Traceable(Past)
      /\ DOMAIN Past = DOMAIN balances
  BY LedgerFacts DEF TypeInv
<1>2. \A b \in DOMAIN balances : Origin(b) \in DOMAIN balances
  BY OriginType
<1>3. Late \subseteq Nat
  BY <1>1
<1>4. ASSUME NEW b \in Late, \A c \in Late : b <= c
      PROVE  FALSE
  <2>1. CASE Past[b] = NULL
    <3>1. Origin(b) = b
      BY <1>1, <2>1, OriginFollows DEF FollowsBack
    <3>2. QED
      BY <1>1, <3>1
  <2>2. CASE Past[b] # NULL
    <3>1. PICK c \in DOMAIN balances : c = Past[b] /\ c < b
      BY <1>1, <2>2 DEF Traceable
    <3>2. Origin(b) = Origin(c)
      BY <1>1, <2>2, <3>1, OriginFollows DEF FollowsBack
    <3>3. c \notin Late
      BY <1>1, <1>4, <3>1
    <3>4. Origin(c) <= c
      BY <3>3
    <3>5. QED
      BY <1>1, <1>2, <3>1, <3>2, <3>4
  <2>3. QED
    BY <2>1, <2>2
<1>5. Late = {}
  <2> HIDE DEF Late
  <2>1. QED
    BY <1>3, <1>4, LeastNumber
<1>6. QED
  BY <1>1, <1>2, <1>5

Live == {b \in DOMAIN balances : balances[b].live}

(* What a vote melts through has one key, and only the last of it is left. *)
Lines ==
  /\ \A b, c \in DOMAIN balances : Origin(b) = Origin(c) => balances[b].key = balances[c].key
  /\ \A b \in Live, c \in DOMAIN balances : Origin(b) = Origin(c) => c <= b

(* Of a vote at most one balance is left. *)
LEMMA OneLeft ==
  ASSUME TypeInv, Lines, NEW b \in Live, NEW c \in Live, Origin(b) = Origin(c)
  PROVE  b = c
<1>1. b \in Nat /\ c \in Nat /\ b \in DOMAIN balances /\ c \in DOMAIN balances
  BY LedgerFacts DEF Live
<1>2. b <= c /\ c <= b
  BY <1>1 DEF Lines
<1>3. QED
  BY <1>1, <1>2

(* What a step of the ledger does: it changes no past, brings no balance   *)
(* back, and creates at most one, a vote or what is left of one.           *)
Creates(e) ==
  /\ e \in Nat /\ e \notin DOMAIN balances
  /\ DOMAIN balances' = DOMAIN balances \cup {e}
  /\ \A c \in DOMAIN balances : c < e

Leaves(b, e) ==
  /\ ~balances'[b].live
  /\ balances'[e].previous = b
  /\ balances'[e].key = balances[b].key

LEMMA LedgerKinds ==
  ASSUME TypeInv, [Next]_vars
  PROVE  /\ \A c \in DOMAIN balances :
              /\ balances'[c].key = balances[c].key
              /\ balances'[c].live => balances[c].live
         /\ \/ DOMAIN balances' = DOMAIN balances
            \/ \E e : Creates(e) /\ (balances'[e].previous = NULL \/ \E b \in Live : Leaves(b, e))
<1> DEFINE n == Len(balances)
<1>1. balances \in Seq(Balance) /\ n \in Nat /\ DOMAIN balances = 1..n
  <2>1. balances \in Seq(Balance)
    BY DEF TypeInv, TypeOK
  <2>2. QED
    BY <2>1
<1>2. CASE UNCHANGED balances
  BY <1>2
<1>3. ASSUME NEW k \in Keys, NEW a \in Stakes, Cast(k, a)
      PROVE  /\ \A c \in DOMAIN balances : balances'[c] = balances[c]
             /\ Creates(n + 1)
             /\ balances'[n + 1].previous = NULL
  <2> DEFINE new == Created(k, a, NULL)
  <2>1. balances' = Append(balances, new)
    BY <1>3 DEF Cast, Change
  <2>2. new.previous = NULL
    BY DEF Created
  <2> HIDE DEF new
  <2>3. DOMAIN balances' = 1..(n + 1) /\ balances'[n + 1] = new /\ \A c \in 1..n : balances'[c] = balances[c]
    BY <1>1, <2>1
  <2>4. Creates(n + 1)
    BY <1>1, <2>3 DEF Creates
  <2>5. QED
    BY <1>1, <2>2, <2>3, <2>4
<1>4. ASSUME NEW b \in Ids, NEW a \in Amounts, Melt(b, a)
      PROVE  /\ \A c \in DOMAIN balances :
                  /\ balances'[c].key = balances[c].key
                  /\ balances'[c].live => balances[c].live
             /\ Creates(n + 1)
             /\ b \in Live /\ Leaves(b, n + 1)
  <2> DEFINE old == [balances EXCEPT ![b].live = FALSE]
             new == Created(balances[b].key, a, b)
  <2>1. b \in Live /\ b \in 1..n /\ balances' = Append(old, new)
    BY <1>1, <1>4 DEF Melt, Change, Live
  <2>2. new.previous = b /\ new.key = balances[b].key
    BY DEF Created
  <2>3. balances[b] \in Balance
    BY <1>1, <2>1
  <2>4. /\ [balances[b] EXCEPT !.live = FALSE] \in Balance
        /\ [balances[b] EXCEPT !.live = FALSE].key = balances[b].key
        /\ ~[balances[b] EXCEPT !.live = FALSE].live
    BY <2>3 DEF Balance
  <2>5. /\ old \in Seq(Balance) /\ Len(old) = n
        /\ old[b] = [balances[b] EXCEPT !.live = FALSE]
        /\ \A c \in (1..n) \ {b} : old[c] = balances[c]
    BY <1>1, <2>1, <2>4
  <2> HIDE DEF old, new
  <2>6. DOMAIN balances' = 1..(n + 1) /\ balances'[n + 1] = new /\ \A c \in 1..n : balances'[c] = old[c]
    BY <1>1, <2>1, <2>5
  <2>7. Creates(n + 1)
    BY <1>1, <2>6 DEF Creates
  <2>8. \A c \in DOMAIN balances : balances'[c] = IF c = b THEN old[b] ELSE balances[c]
    BY <1>1, <2>5, <2>6
  <2>9. Leaves(b, n + 1)
    BY <1>1, <2>1, <2>2, <2>4, <2>5, <2>6 DEF Leaves
  <2>10. QED
    BY <2>1, <2>4, <2>5, <2>7, <2>8, <2>9
<1>5. ASSUME NEW b \in Ids, Claim(b)
      PROVE  /\ DOMAIN balances' = DOMAIN balances
             /\ \A c \in DOMAIN balances :
                  /\ balances'[c].key = balances[c].key
                  /\ balances'[c].live => balances[c].live
  <2>1. b \in 1..n /\ balances' = [balances EXCEPT ![b].live = FALSE]
    BY <1>1, <1>5 DEF Claim, Change
  <2>2. balances[b] \in Balance
    BY <1>1, <2>1
  <2>3. [balances[b] EXCEPT !.live = FALSE].key = balances[b].key /\ ~[balances[b] EXCEPT !.live = FALSE].live
    BY <2>2 DEF Balance
  <2>4. QED
    BY <1>1, <2>1, <2>3
<1>6. UNCHANGED balances \/ World
  BY RunsReadOnly DEF Next, EndVote, vars, world
<1>7. World => \/ UNCHANGED balances
               \/ \E k \in Keys, a \in Stakes : Cast(k, a)
               \/ \E b \in Ids, a \in Amounts : Melt(b, a)
               \/ \E b \in Ids : Claim(b)
  BY DEF World, Tick
<1> HIDE DEF n
<1>8. QED
  BY <1>2, <1>3, <1>4, <1>5, <1>6, <1>7

(* Every step keeps the balances of a vote in line.                        *)
LEMMA LinesStep == TypeInv /\ Lines /\ [Next]_vars => Lines'
<1> SUFFICES ASSUME TypeInv, Lines, [Next]_vars PROVE Lines'
  OBVIOUS
<1>1. TypeInv' /\ Traceable(Past) /\ Traceable(Past)'
  BY TypeStep DEF TypeInv
<1>2. DOMAIN balances \subseteq Nat
  BY LedgerFacts
<1>3. /\ DOMAIN balances \subseteq DOMAIN balances'
      /\ \A b \in DOMAIN balances : balances'[b].previous = balances[b].previous
  BY LedgerStep
<1>4. \A b \in DOMAIN balances : Origin(b)' = Origin(b) /\ Origin(b) \in DOMAIN balances
  BY <1>1, <1>3, OriginStays, OriginType
<1>5. \A c \in DOMAIN balances :
        /\ balances'[c].key = balances[c].key
        /\ balances'[c].live => balances[c].live
  BY LedgerKinds
<1> DEFINE Kept == /\ \A b, c \in DOMAIN balances :
                        Origin(b)' = Origin(c)' => balances'[b].key = balances'[c].key
                   /\ \A b, c \in DOMAIN balances : balances'[b].live /\ Origin(b)' = Origin(c)' => c <= b
<1>6. Kept
  BY <1>4, <1>5 DEF Lines, Live
<1>7. CASE DOMAIN balances' = DOMAIN balances
  BY <1>6, <1>7 DEF Lines, Live
<1>8. ASSUME NEW e, Creates(e),
             \A c \in DOMAIN balances : Origin(c)' = Origin(e)' =>
               balances'[c].key = balances'[e].key /\ ~balances'[c].live
      PROVE  Lines'
  <2>1. e \in Nat /\ DOMAIN balances' = DOMAIN balances \cup {e} /\ \A c \in DOMAIN balances : c < e
    BY <1>8 DEF Creates
  <2>2. ASSUME NEW b \in DOMAIN balances', NEW c \in DOMAIN balances', Origin(b)' = Origin(c)'
        PROVE  balances'[b].key = balances'[c].key
    BY <1>6, <1>8, <2>1, <2>2
  <2>3. ASSUME NEW b \in DOMAIN balances', NEW c \in DOMAIN balances', Origin(b)' = Origin(c)', balances'[b].live
        PROVE  c <= b
    <3>1. CASE b = e
      BY <1>2, <2>1, <3>1
    <3>2. CASE b # e
      BY <1>6, <1>8, <2>1, <2>3, <3>2
    <3>3. QED
      BY <3>1, <3>2
  <2>4. QED
    BY <2>2, <2>3 DEF Lines, Live
<1>9. ASSUME NEW e, Creates(e), balances'[e].previous = NULL
      PROVE  Lines'
  <2>1. e \in DOMAIN balances' /\ Past'[e] = NULL
    BY <1>9 DEF Past, Creates
  <2>2. Origin(e)' = e
    BY <1>1, <2>1, OriginFollowsNext DEF FollowsBack
  <2>3. \A c \in DOMAIN balances : Origin(c)' # Origin(e)'
    BY <1>4, <1>9, <2>2 DEF Creates
  <2>4. QED
    BY <1>8, <1>9, <2>3
<1>10. ASSUME NEW e, Creates(e), NEW b \in Live, Leaves(b, e)
       PROVE  Lines'
  <2>1. b \in DOMAIN balances /\ b \in Nat /\ NULL \notin Nat
    BY <1>2, IndexingAssumption DEF Live
  <2>2. e \in DOMAIN balances' /\ Past'[e] = b /\ b # NULL
    BY <1>10, <2>1 DEF Past, Creates, Leaves
  <2>3. Origin(e)' = Origin(b)
    <3>1. Origin(e)' = Origin(b)'
      BY <1>1, <1>3, <2>1, <2>2, OriginFollowsNext DEF FollowsBack
    <3>2. QED
      BY <1>4, <2>1, <3>1
  <2>4. ASSUME NEW c \in DOMAIN balances, Origin(c)' = Origin(e)'
        PROVE  balances'[c].key = balances'[e].key /\ ~balances'[c].live
    <3>1. Origin(c) = Origin(b)
      BY <1>4, <2>3, <2>4
    <3>2. c \in Live => c = b
      BY <2>1, <3>1, OneLeft
    <3>3. QED
      BY <1>5, <1>10, <2>1, <2>4, <3>1, <3>2 DEF Lines, Live, Leaves
  <2>5. QED
    BY <1>8, <1>10, <2>4
<1>11. QED
  BY <1>7, <1>9, <1>10, LedgerKinds

(* As long as nobody claims, something is left of every vote. *)
LEMMA VoteLives ==
  ASSUME TypeInv, Spent = {}, NEW d \in DOMAIN balances
  PROVE  \E b \in Live : Origin(b) = Origin(d)
<1> DEFINE n     == Len(balances)
           below == {n - c : c \in {c \in DOMAIN balances : Origin(c) = Origin(d)}}
<1>1. n \in Nat /\ DOMAIN balances = 1..n /\ Traceable(Past) /\ DOMAIN Past = DOMAIN balances
  BY LedgerFacts DEF TypeInv
<1>2. below \subseteq Nat /\ below # {}
  BY <1>1
<1>3. PICK m \in below : \A k \in below : m <= k
  <2> HIDE DEF below
  <2>1. QED
    BY <1>2, LeastNumber
<1>4. PICK b \in DOMAIN balances : Origin(b) = Origin(d) /\ m = n - b
  OBVIOUS
<1>5. ASSUME NEW c \in DOMAIN balances, Origin(c) = Origin(d)
      PROVE  ~(b < c)
  <2>1. n - c \in below
    BY <1>5
  <2>2. n - b <= n - c
    BY <1>3, <1>4, <2>1
  <2> HIDE DEF n
  <2>3. n \in Nat /\ b \in Nat /\ c \in Nat
    BY <1>1
  <2>4. QED
    BY <2>2, <2>3
<1>6. CASE b \notin Live
  <2>1. PICK e \in DOMAIN balances : balances[e].previous = b
    BY <1>4, <1>6 DEF Spent, Live
  <2>2. b # NULL /\ Past[e] = b
    BY <1>1, <2>1, IndexingAssumption DEF Past
  <2>3. Origin(e) = Origin(b)
    BY <1>1, <2>2, OriginFollows DEF FollowsBack
  <2>4. b < e
    BY <1>1, <2>2 DEF Traceable
  <2>5. QED
    BY <1>4, <1>5, <2>3, <2>4
<1>7. QED
  BY <1>4, <1>6

(* A claimed vote stays claimed. *)
LEMMA SpentStays ==
  ASSUME TypeInv, [Next]_vars
  PROVE  Spent \subseteq Spent'
<1>1. DOMAIN balances \subseteq Nat /\ NULL \notin Nat
  BY LedgerFacts, IndexingAssumption
<1>2. /\ DOMAIN balances \subseteq DOMAIN balances'
      /\ \A b \in DOMAIN balances : balances'[b].previous = balances[b].previous
  BY LedgerStep
<1> SUFFICES ASSUME NEW b \in Spent, NEW c \in DOMAIN balances'
             PROVE  b \in DOMAIN balances /\ ~balances'[b].live /\ balances'[c].previous # b
  BY <1>2 DEF Spent
<1>3. b \in DOMAIN balances /\ b \notin Live /\ ~balances'[b].live
  BY LedgerKinds DEF Spent, Live
<1>4. CASE c \in DOMAIN balances
  BY <1>2, <1>3, <1>4 DEF Spent
<1>5. CASE c \notin DOMAIN balances
  <2>1. balances'[c].previous = NULL \/ \E d \in Live : balances'[c].previous = d
    BY <1>5, LedgerKinds DEF Creates, Leaves
  <2>2. QED
    BY <1>1, <1>3, <2>1
<1>6. QED
  BY <1>3, <1>4, <1>5

-----------------------------------------------------------------------------
(* Matching.                                                               *)

(* No two balances of a key have the same position.                        *)
LEMMA IndexInjective ==
  ASSUME TypeInv, NEW seen, seen \subseteq DOMAIN balances, NEW b \in seen, NEW c \in seen,
         balances[b].key = balances[c].key, b # c
  PROVE  /\ Index(seen, b) \in Nat /\ Index(seen, c) \in Nat
         /\ Index(seen, b) < Index(seen, c) \/ Index(seen, c) < Index(seen, b)
<1> DEFINE ahead(x) == {y \in seen : /\ balances[y].key = balances[x].key
                                     /\ \/ balances[y].amount > balances[x].amount
                                        \/ balances[y].amount = balances[x].amount /\ y < x}
<1>1. /\ IsFiniteSet(seen) /\ seen \subseteq Nat
      /\ \A x \in seen : balances[x].amount \in Nat
  <2>1. DOMAIN balances = 1..Len(balances) /\ Len(balances) \in Int /\ 1 \in Int
    BY LedgerFacts
  <2>2. IsFiniteSet(DOMAIN balances)
    BY <2>1, FS_Interval
  <2>3. IsFiniteSet(seen)
    BY <2>2, FS_Subset
  <2>4. seen \subseteq Nat /\ \A x \in seen : balances[x].amount \in Nat
    BY LedgerFacts DEF Balance
  <2>5. QED
    BY <2>3, <2>4
<1>2. \A x \in seen : Index(seen, x) = Cardinality(ahead(x)) /\ IsFiniteSet(ahead(x))
  <2>1. \A x \in seen : ahead(x) \subseteq seen
    OBVIOUS
  <2>2. \A x \in seen : IsFiniteSet(ahead(x))
    BY <1>1, <2>1, FS_Subset
  <2>3. QED
    BY <2>2 DEF Index
<1>3. ASSUME NEW x \in seen, NEW y \in seen, balances[x].key = balances[y].key,
             \/ balances[x].amount > balances[y].amount
             \/ balances[x].amount = balances[y].amount /\ x < y
      PROVE  Index(seen, x) < Index(seen, y)
  <2>1. ahead(x) \subseteq ahead(y) /\ x \in ahead(y) /\ x \notin ahead(x)
    BY <1>1, <1>3
  <2> HIDE DEF ahead
  <2>2. Cardinality(ahead(x)) <= Cardinality(ahead(y)) /\ Cardinality(ahead(x)) # Cardinality(ahead(y))
    BY <1>2, <2>1, FS_Subset
  <2>3. Cardinality(ahead(x)) \in Nat /\ Cardinality(ahead(y)) \in Nat
    BY <1>2, FS_CardinalityType
  <2>4. QED
    BY <1>2, <2>2, <2>3
<1>4. Index(seen, b) \in Nat /\ Index(seen, c) \in Nat
  <2> HIDE DEF ahead
  <2>1. QED
    BY <1>2, FS_CardinalityType
<1>5. \/ balances[b].amount > balances[c].amount
      \/ balances[b].amount = balances[c].amount /\ b < c
      \/ balances[c].amount > balances[b].amount
      \/ balances[c].amount = balances[b].amount /\ c < b
  BY <1>1
<1>6. QED
  BY <1>3, <1>4, <1>5

(* What is left is paired one to one. *)
LEMMA PairsOneToOne ==
  ASSUME TypeInv, NEW seen, seen \subseteq DOMAIN balances, NEW rows, NEW R,
         NEW S, S \subseteq seen, \A b, c \in S : balances[b].key = balances[c].key,
         NEW pairs \in Paired(rows, seen, R, S)
  PROVE  /\ \A m \in pairs : m = <<m[1], m[2]>> /\ m[1] \in R /\ m[2] \in S
         /\ \A m, n \in pairs : m[1] = n[1] <=> m[2] = n[2]
<1> DEFINE upto(b)  == {c \in S : Index(seen, c) <= Index(seen, b)}
           place(b) == Cardinality(upto(b))
<1>1. PICK s \in InOrder(rows, R) : pairs = {<<s[place(b)], b>> : b \in {b \in S : place(b) \in DOMAIN s}}
  BY DEF Paired
<1>2. /\ \A i \in DOMAIN s : s[i] \in R
      /\ \A i, j \in DOMAIN s : s[i] = s[j] => i = j
  BY DEF InOrder, SetToSeqs
<1>3. \A b \in S : IsFiniteSet(upto(b))
  <2>1. DOMAIN balances = 1..Len(balances) /\ Len(balances) \in Int /\ 1 \in Int
    BY LedgerFacts
  <2>2. IsFiniteSet(DOMAIN balances)
    BY <2>1, FS_Interval
  <2>3. \A b \in S : upto(b) \subseteq DOMAIN balances
    OBVIOUS
  <2> HIDE DEF upto
  <2>4. QED
    BY <2>2, <2>3, FS_Subset
<1>4. ASSUME NEW b \in S, NEW c \in S, Index(seen, b) < Index(seen, c),
             Index(seen, b) \in Nat, Index(seen, c) \in Nat
      PROVE  place(b) # place(c)
  <2>1. \A d \in S : Index(seen, d) \in Nat
    BY LedgerFacts, IndexType, IndexingAssumption
  <2>2. upto(b) \subseteq upto(c) /\ c \in upto(c) /\ c \notin upto(b)
    BY <1>4, <2>1
  <2> HIDE DEF upto
  <2>3. QED
    BY <1>3, <2>2, FS_Subset
<1>5. \A b, c \in S : place(b) = place(c) => b = c
  BY <1>4, IndexInjective
<1> HIDE DEF place
<1>6. ASSUME NEW m \in pairs
      PROVE  m = <<m[1], m[2]>> /\ m[1] = s[place(m[2])] /\ m[2] \in S /\ place(m[2]) \in DOMAIN s
  BY <1>1
<1>7. QED
  BY <1>2, <1>5, <1>6

(* What the matching rests on: runs list balances and rows of the ledger,  *)
(* and no two rows that are listed hold one balance.                       *)
Listing(rows, seen) == seen \subseteq DOMAIN balances /\ Unique(rows)

(* Rows of a key are matched with votes of the key, one to one; a row that *)
(* holds a vote that was seen keeps it, and a row and a replacement that   *)
(* alone have an origin are matched.                                       *)
LEMMA MatchedOneToOne ==
  ASSUME TypeInv, NEW rows, NEW seen, Listing(rows, seen), NEW silent, NEW k,
         NEW matches \in Matches(rows, seen, silent, k)
  PROVE  LET service == {b \in Eligible(seen) : balances[b].key = k /\ ~SelfSponsored(b)}
             byId    == ById(rows, seen, k)
         IN  /\ \A m \in matches : /\ m = <<m[1], m[2]>>
                                   /\ m[1] \in RowsOf(rows, k)
                                   /\ m[2] \in Eligible(seen) /\ balances[m[2]].key = k
             /\ \A m, n \in matches : m[1] = n[1] <=> m[2] = n[2]
             /\ byId \subseteq matches
             /\ ByOrigin(rows, Without(RowsOf(rows, k), byId), Unmatched(service, byId), silent) \subseteq matches
<1> DEFINE byId     == ById(rows, seen, k)
           service  == {b \in Eligible(seen) : balances[b].key = k /\ ~SelfSponsored(b)}
           P        == Without(RowsOf(rows, k), byId)
           S        == Unmatched(service, byId)
           byOrigin == ByOrigin(rows, P, S, silent)
           R        == Without(RowsOf(rows, k), byId \cup byOrigin)
           T        == Unmatched(service, byId \cup byOrigin)
           Typed(m) == /\ m = <<m[1], m[2]>> /\ m[1] \in RowsOf(rows, k)
                       /\ m[2] \in Eligible(seen) /\ balances[m[2]].key = k
<1>1. PICK pairs \in Paired(rows, seen, R, T) : matches = (byId \cup byOrigin) \cup pairs
  BY DEF Matches
<1>2. /\ \A m \in byId : Typed(m) /\ rows[m[1]].balance = m[2]
      /\ \A m, n \in byId : m[1] = n[1] <=> m[2] = n[2]
  BY DEF ById, RowsOf, Listing, Unique
<1>3. /\ \A m \in byOrigin : Typed(m) /\ m[1] \in P /\ m[2] \in S
      /\ \A m, n \in byOrigin : m[1] = n[1] <=> m[2] = n[2]
  <2>1. \A m \in byOrigin : m = <<m[1], m[2]>> /\ m[1] \in P /\ m[2] \in S
    BY DEF ByOrigin
  <2>2. \A m \in byOrigin : m[1] \in RowsOf(rows, k) /\ m[2] \in service
    BY <2>1 DEF Without, Unmatched
  <2>3. ASSUME NEW m \in byOrigin, NEW n \in byOrigin, m[1] = n[1]
        PROVE  m[2] = n[2]
    <3>1. Origin(rows[m[1]].balance) = Origin(m[2]) /\ Origin(rows[n[1]].balance) = Origin(n[2])
      BY DEF ByOrigin
    <3>2. {b \in S : Origin(b) = Origin(m[2])} = {m[2]} /\ n[2] \in S
      BY <2>1 DEF ByOrigin
    <3>3. QED
      BY <2>3, <3>1, <3>2
  <2>4. ASSUME NEW m \in byOrigin, NEW n \in byOrigin, m[2] = n[2]
        PROVE  m[1] = n[1]
    <3>1. /\ {i \in P : rows[i].balance \notin silent /\ Origin(rows[i].balance) = Origin(m[2])} = {m[1]}
          /\ {i \in P : rows[i].balance \notin silent /\ Origin(rows[i].balance) = Origin(n[2])} = {n[1]}
      BY DEF ByOrigin
    <3>2. QED
      BY <2>4, <3>1
  <2>5. QED
    BY <2>1, <2>2, <2>3, <2>4
<1>4. /\ \A m \in pairs : Typed(m) /\ m[1] \in R /\ m[2] \in T
      /\ \A m, n \in pairs : m[1] = n[1] <=> m[2] = n[2]
  <2>1. T \subseteq seen /\ \A b, c \in T : balances[b].key = balances[c].key
    BY DEF Unmatched, Eligible
  <2>2. T \subseteq service /\ R \subseteq RowsOf(rows, k) /\ seen \subseteq DOMAIN balances
    BY DEF Unmatched, Without, Listing
  <2>3. /\ \A m \in pairs : m = <<m[1], m[2]>> /\ m[1] \in R /\ m[2] \in T
        /\ \A m, n \in pairs : m[1] = n[1] <=> m[2] = n[2]
    <3> HIDE DEF R, T
    <3>1. pairs \in Paired(rows, seen, R, T) /\ seen \subseteq DOMAIN balances
      BY <1>1, <2>2
    <3>2. QED
      BY <2>1, <3>1, PairsOneToOne
  <2>4. QED
    BY <2>2, <2>3
<1>5. ASSUME NEW m \in byId, NEW n \in byOrigin
      PROVE  m[1] # n[1] /\ m[2] # n[2]
  <2>1. n[1] \in P /\ n[2] \in S
    BY <1>3
  <2> HIDE DEF byId, byOrigin, service
  <2>2. QED
    BY <2>1 DEF Without, Unmatched
<1>6. ASSUME NEW m \in byId \cup byOrigin, NEW n \in pairs
      PROVE  m[1] # n[1] /\ m[2] # n[2]
  <2>1. n[1] \in R /\ n[2] \in T
    BY <1>4
  <2> HIDE DEF byId, byOrigin, service
  <2>2. QED
    BY <2>1 DEF Without, Unmatched
<1>7. \A m \in matches : Typed(m)
  BY <1>1, <1>2, <1>3, <1>4
<1>8. \A m, n \in byId \cup byOrigin : m[1] = n[1] <=> m[2] = n[2]
  BY <1>2, <1>3, <1>5
<1>9. \A m, n \in matches : m[1] = n[1] <=> m[2] = n[2]
  <2>1. \A m \in matches : m \in pairs \/ m \in byId \cup byOrigin
    BY <1>1
  <2> QED
    BY <1>4, <1>6, <1>8, <2>1
<1>10. QED
  BY <1>1, <1>7, <1>9 DEF byId, byOrigin

(* The matches of a run are those of the keys. *)
LEMMA MatchesOfKeys ==
  ASSUME NEW w \in Workers, NEW silent, NEW matches \in AllMatches(w, silent)
  PROVE  \E f : /\ \A k \in Keys : f[k] \in Matches(jobs[w].rows, jobs[w].seen, silent, k)
                /\ \A k \in Keys : f[k] \subseteq matches
                /\ \A m \in matches : \E k \in Keys : m \in f[k]
<1> DEFINE of == [k \in Keys |-> Matches(jobs[w].rows, jobs[w].seen, silent, k)]
<1>1. PICK f \in [Keys -> UNION {of[k] : k \in Keys}] :
        (\A k \in Keys : f[k] \in of[k]) /\ matches = UNION {f[k] : k \in Keys}
  BY DEF AllMatches
<1>2. QED
  BY <1>1

(* So they are one to one as well. *)
LEMMA RunMatches ==
  ASSUME TypeInv, NEW w \in Workers, Unique(jobs[w].rows),
         NEW silent, NEW matches \in AllMatches(w, silent)
  PROVE  LET rows == jobs[w].rows
             E    == Eligible(jobs[w].seen)
         IN  /\ \A m \in matches : m = <<m[1], m[2]>> /\ m[1] \in DOMAIN rows /\ m[2] \in E
             /\ \A m, n \in matches : m[1] = n[1] <=> m[2] = n[2]
             /\ \A i \in DOMAIN rows, b \in E : rows[i].balance = b => <<i, b>> \in matches
<1> DEFINE rows == jobs[w].rows
           seen == jobs[w].seen
<1>1. Listing(rows, seen)
  BY DEF TypeInv, Listing
<1>2. PICK f : /\ \A k \in Keys : f[k] \in Matches(rows, seen, silent, k)
               /\ \A k \in Keys : f[k] \subseteq matches
               /\ \A m \in matches : \E k \in Keys : m \in f[k]
  BY MatchesOfKeys
<1>3. \A b \in Eligible(seen) : balances[b].key \in Keys
  BY LedgerFacts DEF TypeInv, Eligible, Balance
<1> HIDE DEF rows, seen
<1>4. ASSUME NEW k \in Keys
      PROVE  /\ \A m \in f[k] : /\ m = <<m[1], m[2]>>
                                /\ m[1] \in RowsOf(rows, k)
                                /\ m[2] \in Eligible(seen) /\ balances[m[2]].key = k
             /\ \A m, n \in f[k] : m[1] = n[1] <=> m[2] = n[2]
             /\ ById(rows, seen, k) \subseteq f[k]
  BY <1>1, <1>2, MatchedOneToOne
<1>5. ASSUME NEW m \in matches
      PROVE  /\ m = <<m[1], m[2]>> /\ m[1] \in DOMAIN rows /\ m[2] \in Eligible(seen)
             /\ balances[rows[m[1]].balance].key = balances[m[2]].key
             /\ m \in f[balances[m[2]].key]
             /\ balances[m[2]].key \in Keys
  BY <1>2, <1>4 DEF RowsOf
<1>6. ASSUME NEW m \in matches, NEW n \in matches
      PROVE  m[1] = n[1] <=> m[2] = n[2]
  <2>1. m[1] = n[1] \/ m[2] = n[2] => balances[m[2]].key = balances[n[2]].key
    BY <1>5
  <2>2. QED
    BY <1>4, <1>5, <2>1
<1>7. ASSUME NEW i \in DOMAIN rows, NEW b \in Eligible(seen), rows[i].balance = b
      PROVE  <<i, b>> \in matches
  <2>1. <<i, b>> \in ById(rows, seen, balances[b].key)
    BY <1>7 DEF ById, RowsOf
  <2>2. QED
    BY <1>2, <1>3, <1>4, <2>1
<1>8. QED
  BY <1>5, <1>6, <1>7 DEF rows, seen

(* Of a vote there is one row. *)
OncePerOrigin ==
  \A i, j \in Rows, b, c \in DOMAIN balances :
    b = log[i].balance /\ c = log[j].balance /\ Origin(b) = Origin(c) => i = j

(* A run that has read the ledger and the table as they are matches a row  *)
(* with what is left of its vote.                                          *)
LEMMA OriginMatched ==
  ASSUME TypeInv, Lines, OncePerOrigin, NEW w \in Workers, jobs[w].rows = log, jobs[w].seen = Live,
         NEW matches \in AllMatches(w, {}), NEW i \in DOMAIN log, NEW b \in Eligible(Live),
         NEW d, d = log[i].balance, Origin(d) = Origin(b)
  PROVE  <<i, b>> \in matches
<1> DEFINE k       == balances[b].key
           byId    == ById(log, Live, k)
           service == {c \in Eligible(Live) : balances[c].key = k /\ ~SelfSponsored(c)}
           P       == Without(RowsOf(log, k), byId)
           S       == Unmatched(service, byId)
<1>1. /\ b \in Live /\ b \in DOMAIN balances /\ d \in DOMAIN balances
      /\ \A j \in DOMAIN log : log[j].balance \in DOMAIN balances
      /\ Eligible(Live) \subseteq Live /\ Live \subseteq DOMAIN balances /\ DOMAIN balances \subseteq Nat
  BY LedgerFacts DEF TypeInv, Eligible, Live
<1>2. \A j \in DOMAIN log : \A c \in DOMAIN balances : c = log[j].balance /\ Origin(c) = Origin(b) => j = i
  BY <1>1 DEF OncePerOrigin, Rows
<1>3. Unique(log)
  BY <1>1 DEF OncePerOrigin, Rows, Unique
<1>4. Listing(log, Live)
  BY <1>1, <1>3 DEF Listing
<1>5. k \in Keys
  BY <1>1, LedgerFacts DEF Balance
<1>6. i \in RowsOf(log, k)
  BY <1>1 DEF RowsOf, Lines
<1>7. PICK f : f \in Matches(log, Live, {}, k) /\ f \subseteq matches
  BY <1>5, MatchesOfKeys
<1> HIDE DEF k
<1>8. byId \subseteq f /\ ByOrigin(log, P, S, {}) \subseteq f
  BY <1>4, <1>7, MatchedOneToOne
<1>9. CASE d = b
  <2>1. <<i, b>> \in byId
    BY <1>6, <1>9 DEF ById
  <2>2. QED
    BY <1>7, <1>8, <2>1
<1>10. CASE d # b
  <2>1. d < b /\ d \notin Live
    BY <1>1, <1>10, OneLeft DEF Lines
  <2>2. b \in service
    <3>1. Origin(d) <= d /\ Origin(d) \in Nat
      BY <1>1, OriginEarlier
    <3>2. Origin(b) # b
      BY <1>1, <2>1, <3>1
    <3>3. Traceable(Past) /\ (SelfSponsored(b) => Past[b] = NULL)
      BY <1>1 DEF TypeInv, Past, SelfSponsored
    <3>4. ~SelfSponsored(b)
      BY <1>1, <3>2, <3>3, OriginFollows DEF FollowsBack
    <3>5. QED
      BY <3>4 DEF k
  <2>3. \A m \in byId : log[m[1]].balance = m[2] /\ m[2] \in Live /\ m[1] \in DOMAIN log
    BY <1>1 DEF ById, RowsOf
  <2>4. i \in P
    BY <1>6, <2>1, <2>3 DEF Without
  <2>5. b \in S
    BY <1>1, <1>2, <1>10, <2>2, <2>3 DEF Unmatched
  <2>6. P \subseteq DOMAIN log /\ S \subseteq Live
    BY <1>1 DEF Without, Unmatched, RowsOf
  <2> HIDE DEF P, S
  <2>7. {j \in P : log[j].balance \notin {} /\ Origin(log[j].balance) = Origin(b)} = {i}
    BY <1>1, <1>2, <2>4, <2>6
  <2>8. {c \in S : Origin(c) = Origin(b)} = {b}
    BY <1>1, <2>5, <2>6, OneLeft
  <2>9. <<i, b>> \in ByOrigin(log, P, S, {})
    BY <2>4, <2>5, <2>7, <2>8 DEF ByOrigin
  <2>10. QED
    BY <1>7, <1>8, <2>9
<1>11. QED
  BY <1>9, <1>10

-----------------------------------------------------------------------------
(* What is written.                                                        *)

(* Every element of a finite set is listed, and once.                      *)
LEMMA ListedOnce ==
  ASSUME NEW S, IsFiniteSet(S)
  PROVE  /\ SetToSeq(S) \in Seq(S)
         /\ \A i, j \in DOMAIN SetToSeq(S) : SetToSeq(S)[i] = SetToSeq(S)[j] => i = j
         /\ \A x \in S : \E i \in DOMAIN SetToSeq(S) : SetToSeq(S)[i] = x
<1> DEFINE n == Cardinality(S)
           s == SetToSeq(S)
<1>1. n \in Nat /\ ExistsBijection(1..n, S)
  BY FS_CardinalityType
<1>2. \E f \in [1..n -> S] : IsInjective(f)
  BY <1>1 DEF ExistsBijection, Bijection, Injection, IsInjective
<1>3. s \in [1..n -> S] /\ IsInjective(s)
  BY <1>2 DEF SetToSeq
<1> HIDE DEF s
<1>4. s \in Injection(1..n, S)
  BY <1>3 DEF Injection, IsInjective
<1>5. IsFiniteSet(1..n) /\ Cardinality(1..n) = n
  <2>1. 1 \in Int /\ n \in Int /\ (1 > n => n = 0) /\ n - 1 + 1 = n
    BY <1>1
  <2> HIDE DEF n
  <2>2. IsFiniteSet(1..n) /\ Cardinality(1..n) = IF 1 > n THEN 0 ELSE n - 1 + 1
    BY <2>1, FS_Interval
  <2>3. QED
    BY <2>1, <2>2
<1>6. s \in Surjection(1..n, S)
  <2>1. Cardinality(1..n) = Cardinality(S)
    BY <1>5
  <2> HIDE DEF n
  <2>2. QED
    BY <1>4, <2>1, FS_Injection
<1> HIDE DEF n
<1>7. s \in Seq(S) /\ DOMAIN s = 1..n
  BY <1>1, <1>3
<1>8. QED
  BY <1>3, <1>6, <1>7 DEF s, Surjection, IsInjective

(* The updates of rows, those of a row another run has committed last, the *)
(* balance that the first update of a row gives it, and the balances for   *)
(* which there is no row.                                                  *)
Updates(w, matches) ==
  matches \cup {m \in Adopted(w, matches) : \A n \in matches : n[1] # m[1]}

FirstUpdate(w, matches, i) == (CHOOSE m \in Updates(w, matches) : m[1] = i)[2]

LeftOver(w, matches) == Unmatched(Fresh(w, matches), Adopted(w, matches))

(* A save writes the first update of each row, marks the other rows        *)
(* claimed, and adds one row for every balance that is left.               *)
LEMMA SavedShape ==
  ASSUME TypeInv, NEW w \in Workers, NEW silent, NEW matches \in AllMatches(w, silent)
  PROVE  LET seen  == jobs[w].seen
             saved == Saved(w, matches)
         IN  /\ DOMAIN log \subseteq DOMAIN saved
             /\ \A i \in DOMAIN log :
                  saved[i] = IF \E m \in Updates(w, matches) : m[1] = i
                             THEN Written(w, i, FirstUpdate(w, matches, i))
                             ELSE [log[i] EXCEPT !.claimed = TRUE]
             /\ \A i \in (DOMAIN saved) \ DOMAIN log :
                  \E b \in LeftOver(w, matches) : saved[i] = NewRow(seen, b, jobs[w].freezing)
             /\ \A b \in LeftOver(w, matches) :
                  \E i \in (DOMAIN saved) \ DOMAIN log : saved[i] = NewRow(seen, b, jobs[w].freezing)
             /\ \A i, j \in (DOMAIN saved) \ DOMAIN log : saved[i] = saved[j] => i = j
<1> DEFINE seen    == jobs[w].seen
           Kept(i) == IF \E m \in Updates(w, matches) : m[1] = i THEN Written(w, i, FirstUpdate(w, matches, i))
                      ELSE [log[i] EXCEPT !.claimed = TRUE]
           kept    == [i \in DOMAIN log |-> Kept(i)]
           left    == LeftOver(w, matches)
           new     == {NewRow(seen, b, jobs[w].freezing) : b \in left}
           tail    == SetToSeq(new)
           n       == Len(log)
<1>1. Saved(w, matches) = kept \o tail
  BY DEF Saved, Updates, FirstUpdate, LeftOver
<1>2. n \in Nat /\ DOMAIN log = 1..n
  <2>1. log \in Seq(Row)
    BY DEF TypeInv, TypeOK
  <2>2. QED
    BY <2>1
<1>3. IsFiniteSet(new)
  <2>1. DOMAIN balances = 1..Len(balances) /\ Len(balances) \in Int /\ 1 \in Int
    BY LedgerFacts
  <2>2. IsFiniteSet(DOMAIN balances)
    BY <2>1, FS_Interval
  <2>3. left \subseteq DOMAIN balances
    BY DEF TypeInv, LeftOver, Unmatched, Fresh, Eligible
  <2>4. IsFiniteSet(left)
    BY <2>2, <2>3, FS_Subset
  <2> DEFINE f == [b \in left |-> NewRow(seen, b, jobs[w].freezing)]
  <2>5. f \in Surjection(left, new)
    BY DEF Surjection
  <2> HIDE DEF left, new, f
  <2>6. QED
    BY <2>4, <2>5, FS_Surjection
<1>4. /\ tail \in Seq(new)
      /\ \A i, j \in DOMAIN tail : tail[i] = tail[j] => i = j
      /\ \A x \in new : \E i \in DOMAIN tail : tail[i] = x
  <2> HIDE DEF new
  <2>1. QED
    BY <1>3, ListedOnce
<1>5. DOMAIN kept = DOMAIN log /\ \A i \in DOMAIN log : kept[i] = Kept(i)
  OBVIOUS
<1> HIDE DEF Kept, kept
<1>6. Len(kept) = n
  BY <1>2, <1>5
<1> HIDE DEF tail, new
<1>7. Len(tail) \in Nat /\ DOMAIN tail = 1..Len(tail) /\ \A i \in DOMAIN tail : tail[i] \in new
  BY <1>4
<1>8. /\ DOMAIN (kept \o tail) = 1..(n + Len(tail))
      /\ \A i \in 1..(n + Len(tail)) : (kept \o tail)[i] = IF i <= n THEN kept[i] ELSE tail[i - n]
  <2> DEFINE K == {kept[i] : i \in 1..n} \cup new
  <2>1. kept \in [1..n -> K]
    BY <1>2, <1>5 DEF kept
  <2>2. tail \in Seq(K)
    BY <1>4
  <2> HIDE DEF K, n
  <2>3. kept \in Seq(K)
    BY <1>2, <2>1
  <2>4. QED
    BY <1>6, <2>2, <2>3
<1> HIDE DEF n
<1> DEFINE saved == Saved(w, matches)
<1>9. /\ DOMAIN log \subseteq DOMAIN saved
      /\ \A i \in DOMAIN log : saved[i] = Kept(i)
  BY <1>1, <1>2, <1>5, <1>7, <1>8
<1>10. \A i \in (DOMAIN saved) \ DOMAIN log : i - n \in DOMAIN tail /\ saved[i] = tail[i - n] /\ i = (i - n) + n
  BY <1>1, <1>2, <1>7, <1>8
<1>11. \A i \in DOMAIN tail : i + n \in (DOMAIN saved) \ DOMAIN log /\ saved[i + n] = tail[i]
  BY <1>1, <1>2, <1>7, <1>8
<1>12. /\ \A i \in (DOMAIN saved) \ DOMAIN log : saved[i] \in new
       /\ \A x \in new : \E i \in (DOMAIN saved) \ DOMAIN log : saved[i] = x
       /\ \A i, j \in (DOMAIN saved) \ DOMAIN log : saved[i] = saved[j] => i = j
  BY <1>4, <1>7, <1>10, <1>11
<1> HIDE DEF saved, left
<1>13. /\ \A i \in (DOMAIN saved) \ DOMAIN log : \E b \in left : saved[i] = NewRow(seen, b, jobs[w].freezing)
       /\ \A b \in left : \E i \in (DOMAIN saved) \ DOMAIN log : saved[i] = NewRow(seen, b, jobs[w].freezing)
  BY <1>12 DEF new
<1>14. QED
  BY <1>9, <1>12, <1>13 DEF saved, left, Kept

-----------------------------------------------------------------------------
(* What runs read.                                                         *)

(* A page takes what is left of the ledger into what a run has seen, and   *)
(* the rows are listed once there is nothing more to read.                 *)
LEMMA PageRead ==
  ASSUME TypeInv, NEW w \in Workers, NEW job \in Job, ReadPage(w, job)
  PROVE  LET page == {b \in DOMAIN balances : balances[b].live /\ b > job.cursor}
         IN  \/ /\ page = {} /\ jobs'[w].pc = "matching"
                /\ jobs'[w].seen = job.seen /\ jobs'[w].rows = log
             \/ /\ page # {} /\ jobs'[w].pc = "reading"
                /\ jobs'[w].seen = job.seen \cup page /\ jobs'[w].rows = job.rows
<1> DEFINE page == {b \in DOMAIN balances : balances[b].live /\ b > job.cursor}
<1>1. jobs \in [Workers -> Job]
  BY DEF TypeInv, TypeOK
<1>2. CASE page = {}
  <2> DEFINE next == [job EXCEPT !.pc = "matching", !.cursor = 0, !.rows = log]
  <2>1. jobs' = [jobs EXCEPT ![w] = next]
    BY <1>2 DEF ReadPage, Goes
  <2>2. next.pc = "matching" /\ next.seen = job.seen /\ next.rows = log
    BY DEF Job
  <2> HIDE DEF next
  <2>3. jobs'[w] = next
    BY <1>1, <2>1
  <2>4. QED
    BY <1>2, <2>2, <2>3
<1>3. CASE page # {}
  <2> DEFINE next == [job EXCEPT !.pc = "reading", !.seen = @ \cup page, !.cursor = Max(page)]
  <2>1. jobs' = [jobs EXCEPT ![w] = next]
    BY <1>3 DEF ReadPage, Goes
  <2> HIDE DEF page
  <2>2. next.pc = "reading" /\ next.seen = job.seen \cup page /\ next.rows = job.rows
    BY DEF Job
  <2> HIDE DEF next
  <2>3. jobs'[w] = next
    BY <1>1, <2>1
  <2>4. QED
    BY <1>3, <2>2, <2>3 DEF page
<1>4. QED
  BY <1>2, <1>3

(* What a run starts with. *)
LEMMA FirstJob ==
  ASSUME NEW freezing \in BOOLEAN
  PROVE  LET job == [IdleJob EXCEPT !.freezing = freezing]
         IN  job \in Job /\ job.seen = {} /\ job.rows = <<>> /\ job.cursor = 0
<1>1. IdleJob \in Job /\ IdleJob.seen = {} /\ IdleJob.rows = <<>> /\ IdleJob.cursor = 0
  BY IndexingAssumption DEF IdleJob, Job
<1>2. QED
  BY <1>1 DEF Job

(* No balance has two rows, neither in the table nor in what a run has     *)
(* listed of it, and rows stay in the table.                               *)
RowsListed ==
  /\ Unique(log)
  /\ \A w \in Workers : Unique(jobs[w].rows) /\ DOMAIN jobs[w].rows \subseteq DOMAIN log

(* The table grows, and holds no balance twice. *)
LEMMA TableGrows ==
  ASSUME TypeInv, Unique(log), [Next]_vars
  PROVE  DOMAIN log \subseteq DOMAIN log' /\ Unique(log')
<1>1. ASSUME NEW w \in Workers, NEW silent, SaveWith(w, silent)
      PROVE  DOMAIN log \subseteq DOMAIN log' /\ Unique(log')
  <2>1. PICK matches \in AllMatches(w, silent) : log' = Saved(w, matches) /\ Unique(Saved(w, matches))
    BY <1>1 DEF SaveWith
  <2>2. DOMAIN log \subseteq DOMAIN Saved(w, matches)
    BY SavedShape
  <2>3. QED
    BY <2>1, <2>2
<1>2. QED
  BY <1>1, OnlySavesWrite

(* A run lists the rows there are, or none, or keeps its list. *)
LEMMA RunLists ==
  ASSUME TypeInv, NEW w \in Workers, Run(w)
  PROVE  jobs'[w].rows = jobs[w].rows \/ jobs'[w].rows = <<>> \/ (jobs'[w].rows = log /\ UNCHANGED log)
<1>1. jobs \in [Workers -> Job]
  BY DEF TypeInv, TypeOK
<1>2. ASSUME NEW freezing \in BOOLEAN, Start(w, freezing)
      PROVE  jobs'[w].rows = <<>> \/ (jobs'[w].rows = log /\ UNCHANGED log)
  <2> DEFINE job == [IdleJob EXCEPT !.freezing = freezing]
  <2>1. ReadPage(w, job) /\ UNCHANGED log
    BY <1>2 DEF Start
  <2>2. job \in Job /\ job.rows = <<>>
    BY FirstJob
  <2> HIDE DEF job
  <2>3. QED
    BY <2>1, <2>2, PageRead
<1>3. CASE ReadOn(w)
  <2>1. ReadPage(w, jobs[w]) /\ jobs[w] \in Job /\ UNCHANGED log
    BY <1>1, <1>3 DEF ReadOn
  <2>2. QED
    BY <2>1, PageRead
<1>4. ASSUME Goes(w, IdleJob)
      PROVE  jobs'[w].rows = <<>>
  BY <1>1, <1>4 DEF Goes, IdleJob
<1>5. QED
  BY <1>2, <1>3, <1>4 DEF Run, StartUpdate, StartFreeze, Save, SaveHalfBlind, SaveWith, Clash, Fail, Roll

(* Every step keeps the lists in order. *)
LEMMA RowsListedStep == TypeInv /\ RowsListed /\ [Next]_vars => RowsListed'
<1> SUFFICES ASSUME TypeInv, RowsListed, [Next]_vars PROVE RowsListed'
  OBVIOUS
<1>1. DOMAIN log \subseteq DOMAIN log' /\ Unique(log')
  BY TableGrows DEF RowsListed
<1>2. \A v \in Workers : Unique(jobs[v].rows) /\ DOMAIN jobs[v].rows \subseteq DOMAIN log /\ Unique(log)
  BY DEF RowsListed
<1>3. DOMAIN <<>> = {}
  OBVIOUS
<1>4. Unique(<<>>)
  BY <1>3 DEF Unique
<1>5. CASE UNCHANGED jobs
  BY <1>1, <1>2, <1>5 DEF RowsListed, Unique
<1>6. ASSUME NEW w \in Workers, Run(w)
      PROVE  RowsListed'
  <2>1. jobs' = [jobs EXCEPT ![w] = jobs'[w]] /\ jobs \in [Workers -> Job]
    BY <1>6, RunType DEF TypeInv, TypeOK
  <2>2. jobs'[w].rows = jobs[w].rows \/ jobs'[w].rows = <<>> \/ jobs'[w].rows = log
    BY <1>6, RunLists
  <2>3. Unique(jobs'[w].rows) /\ DOMAIN jobs'[w].rows \subseteq DOMAIN log
    BY <1>2, <1>3, <1>4, <2>2
  <2>4. \A v \in Workers : Unique(jobs'[v].rows) /\ DOMAIN jobs'[v].rows \subseteq DOMAIN log
    BY <1>2, <2>1, <2>3
  <2>5. QED
    BY <1>1, <2>4 DEF RowsListed, Unique
<1>7. QED
  BY <1>5, <1>6 DEF Next, World, Tick, Cast, Claim, Melt, Change, EndVote, vars

-----------------------------------------------------------------------------
(* The freeze.                                                             *)

(* A save gives a vote to the row it is matched with, or to the row that   *)
(* holds it and is matched with nothing, or to a row of its own.           *)
LEMMA VoteSaved ==
  ASSUME TypeInv, RowsListed, NEW w \in Workers, NEW silent, NEW matches \in AllMatches(w, silent),
         NEW b \in Eligible(jobs[w].seen)
  PROVE  LET saved == Saved(w, matches)
             seen  == jobs[w].seen
         IN  /\ \A i \in DOMAIN log : <<i, b>> \in matches => saved[i] = Written(w, i, b)
             /\ \/ \E i \in DOMAIN log : <<i, b>> \in matches
                \/ \E i \in DOMAIN log : /\ log[i].balance = b
                                         /\ (\A m \in matches : m[1] # i) => saved[i] = Written(w, i, b)
                \/ \E i \in (DOMAIN saved) \ DOMAIN log : saved[i] = NewRow(seen, b, jobs[w].freezing)
<1> DEFINE seen    == jobs[w].seen
           saved   == Saved(w, matches)
           adopted == Adopted(w, matches)
           all     == Updates(w, matches)
           left    == LeftOver(w, matches)
<1>1. /\ \A m \in matches : m = <<m[1], m[2]>> /\ m[1] \in DOMAIN log /\ m[2] \in Eligible(seen)
      /\ \A m, n \in matches : m[1] = n[1] <=> m[2] = n[2]
  <2>1. Unique(jobs[w].rows) /\ DOMAIN jobs[w].rows \subseteq DOMAIN log
    BY DEF RowsListed
  <2>2. QED
    BY <2>1, RunMatches
<1>2. \A m \in adopted : m = <<m[1], m[2]>> /\ m[1] \in DOMAIN log /\ log[m[1]].balance = m[2]
  BY DEF Adopted
<1>3. \A m, n \in all : m[1] = n[1] => m[2] = n[2]
  BY <1>1, <1>2 DEF Updates
<1>4. \A m \in all : FirstUpdate(w, matches, m[1]) = m[2]
  <2> TAKE m \in all
  <2> DEFINE first == CHOOSE n \in all : n[1] = m[1]
  <2>1. FirstUpdate(w, matches, m[1]) = first[2]
    BY DEF FirstUpdate
  <2> HIDE DEF all
  <2>2. first \in all /\ first[1] = m[1]
    OBVIOUS
  <2> HIDE DEF first
  <2>3. QED
    BY <1>3, <2>1, <2>2
<1>5. /\ \A i \in DOMAIN log :
           saved[i] = IF \E m \in all : m[1] = i THEN Written(w, i, FirstUpdate(w, matches, i))
                      ELSE [log[i] EXCEPT !.claimed = TRUE]
      /\ \A c \in left : \E i \in (DOMAIN saved) \ DOMAIN log : saved[i] = NewRow(seen, c, jobs[w].freezing)
  BY SavedShape
<1> HIDE DEF saved
<1>6. \A m \in all : m[1] \in DOMAIN log => saved[m[1]] = Written(w, m[1], m[2])
  BY <1>4, <1>5
<1>7. \A i \in DOMAIN log : <<i, b>> \in matches => saved[i] = Written(w, i, b)
  BY <1>6 DEF Updates
<1>8. CASE \E m \in matches : m[2] = b
  BY <1>1, <1>7, <1>8 DEF saved
<1>9. ASSUME ~\E m \in matches : m[2] = b,
             NEW i \in DOMAIN log, log[i].balance = b
      PROVE  (\A m \in matches : m[1] # i) => saved[i] = Written(w, i, b)
  <2>1. <<i, b>> \in adopted
    BY <1>9 DEF Adopted, Fresh, Unmatched
  <2>2. (\A m \in matches : m[1] # i) => <<i, b>> \in all
    BY <2>1 DEF Updates
  <2>3. QED
    BY <1>6, <2>2
<1>10. CASE ~(\E m \in matches : m[2] = b) /\ ~\E i \in DOMAIN log : log[i].balance = b
  <2>1. b \in left
    BY <1>2, <1>10 DEF LeftOver, Unmatched, Fresh
  <2>2. QED
    BY <1>5, <1>7, <2>1 DEF saved
<1>11. QED
  BY <1>7, <1>8, <1>9, <1>10 DEF saved

(* What a freeze writes about a vote. *)
LEMMA Weighed ==
  ASSUME TypeInv, NEW w \in Workers, jobs[w].freezing, NEW b \in Eligible(jobs[w].seen)
  PROVE  /\ \A i \in DOMAIN log :
              Written(w, i, b).balance = b /\ Written(w, i, b).voted = balances[b].amount
         /\ LET row == NewRow(jobs[w].seen, b, jobs[w].freezing)
            IN  row.balance = b /\ row.voted = balances[b].amount
<1>1. log \in Seq(Row)
  BY DEF TypeInv, TypeOK
<1>2. \A i \in DOMAIN log : log[i] \in Row
  BY <1>1
<1>3. QED
  BY <1>2 DEF Written, Updated, NewRow, Row

(* Only the run that freezes ends the freeze. *)
LEMMA FreezeEnds ==
  ASSUME OneFreeze, [Next]_vars, NEW w \in Workers, jobs[w].freezing, freeze' = "done"
  PROVE  \E silent : SaveWith(w, silent)
<1>1. freeze = "running" /\ \A v \in Workers : jobs[v].freezing => v = w
  BY DEF OneFreeze
<1>2. PICK v \in Workers : Run(v)
  BY <1>1 DEF Next, World, Tick, Cast, Claim, Melt, Change, EndVote, vars
<1>3. (\E silent : SaveWith(v, silent)) \/ freeze' # "done"
  BY <1>1, <1>2 DEF Run, StartUpdate, StartFreeze, Start, ReadOn, Save, SaveHalfBlind, Clash, Fail, Roll
<1>4. PICK silent : SaveWith(v, silent)
  BY <1>3
<1>5. jobs[v].freezing
  BY <1>1, <1>4 DEF SaveWith
<1>6. QED
  BY <1>1, <1>4, <1>5

(* FreezeCovers: no vote in time that the freeze has seen is left without  *)
(* a row and its weight, however many votes there are and whatever other   *)
(* runs have added, if they have left the rows it listed with their        *)
(* balances.                                                               *)
THEOREM FrozenCompletely == Spec => FreezeCovers
<1>1. Init => RowsListed /\ OneFreeze
  <2>1. DOMAIN <<>> = {}
    OBVIOUS
  <2>2. Unique(<<>>)
    BY <2>1 DEF Unique
  <2>3. QED
    BY <2>1, <2>2, IdleType DEF Init, RowsListed, OneFreeze, IdleJob
<1>2. ASSUME TypeInv, RowsListed, OneFreeze, [Next]_vars, NEW w \in Workers,
             jobs[w].freezing, freeze' = "done", ~Displaced(w)
      PROVE  Covered(w)
  <2> DEFINE seen == jobs[w].seen
  <2>1. PICK silent : SaveWith(w, silent)
    BY <1>2, FreezeEnds
  <2>2. PICK matches \in AllMatches(w, silent) : log' = Saved(w, matches)
    BY <2>1 DEF SaveWith
  <2>3. /\ DOMAIN jobs[w].rows \subseteq DOMAIN log /\ Unique(jobs[w].rows)
        /\ \A i \in DOMAIN jobs[w].rows : log[i].balance = jobs[w].rows[i].balance
    BY <1>2 DEF RowsListed, Displaced
  <2>4. /\ \A m \in matches : m[1] \in DOMAIN jobs[w].rows
        /\ \A m, n \in matches : m[1] = n[1] <=> m[2] = n[2]
        /\ \A m \in matches : m = <<m[1], m[2]>>
        /\ \A i \in DOMAIN jobs[w].rows, c \in Eligible(seen) :
             jobs[w].rows[i].balance = c => <<i, c>> \in matches
    BY <1>2, <2>3, RunMatches
  <2>5. DOMAIN log \subseteq DOMAIN log'
    BY <1>2, TableGrows DEF RowsListed
  <2>6. ASSUME NEW b \in Eligible(seen)
        PROVE  \E i \in DOMAIN log' : log'[i].balance = b /\ log'[i].voted = balances[b].amount
    <3>1. /\ \A i \in DOMAIN log : <<i, b>> \in matches => log'[i] = Written(w, i, b)
          /\ \/ \E i \in DOMAIN log : <<i, b>> \in matches
             \/ \E i \in DOMAIN log : /\ log[i].balance = b
                                      /\ (\A m \in matches : m[1] # i) => log'[i] = Written(w, i, b)
             \/ \E i \in (DOMAIN log') \ DOMAIN log : log'[i] = NewRow(seen, b, jobs[w].freezing)
      <4> DEFINE saved == Saved(w, matches)
      <4>1. /\ \A i \in DOMAIN log : <<i, b>> \in matches => saved[i] = Written(w, i, b)
            /\ \/ \E i \in DOMAIN log : <<i, b>> \in matches
               \/ \E i \in DOMAIN log : /\ log[i].balance = b
                                        /\ (\A m \in matches : m[1] # i) => saved[i] = Written(w, i, b)
               \/ \E i \in (DOMAIN saved) \ DOMAIN log : saved[i] = NewRow(seen, b, jobs[w].freezing)
        <5>1. TypeInv /\ RowsListed /\ matches \in AllMatches(w, silent) /\ b \in Eligible(jobs[w].seen)
          BY <1>2, <2>2, <2>6
        <5>2. QED
          BY <5>1, VoteSaved, Zenon
      <4> HIDE DEF saved
      <4>2. log' = saved
        BY <2>2 DEF saved
      <4>3. QED
        BY <4>1, <4>2
    <3>2. ASSUME NEW i \in DOMAIN log, log[i].balance = b, ~\E j \in DOMAIN log : <<j, b>> \in matches
          PROVE  \A m \in matches : m[1] # i
      BY <2>3, <2>4, <3>2
    <3>3. \/ \E i \in DOMAIN log : log'[i] = Written(w, i, b)
          \/ \E i \in DOMAIN log' : log'[i] = NewRow(seen, b, jobs[w].freezing)
      BY <3>1, <3>2
    <3>4. /\ \A i \in DOMAIN log :
                Written(w, i, b).balance = b /\ Written(w, i, b).voted = balances[b].amount
          /\ NewRow(seen, b, jobs[w].freezing).balance = b
          /\ NewRow(seen, b, jobs[w].freezing).voted = balances[b].amount
      BY <1>2, Weighed
    <3>5. QED
      BY <2>5, <3>3, <3>4
  <2>7. QED
    BY <2>6 DEF Covered
<1>3. TypeInv /\ RowsListed /\ OneFreeze /\ [Next]_vars =>
        [\A w \in Workers : jobs[w].freezing /\ freeze' = "done" /\ ~Displaced(w) => Covered(w)]_vars
  BY <1>2
<1>4. QED
  BY <1>1, <1>3, TypeInit, TypeStep, RowsListedStep, OneFreezeStep, PTL DEF Spec, FreezeCovers

-----------------------------------------------------------------------------
(* Runs that meet nothing.                                                 *)

(* While all is calm there is at most one run, it has seen what is left of *)
(* the ledger, and it matches the rows there are.                          *)
CalmRuns ==
  calm => \A w \in Workers : jobs[w].pc # "idle" =>
            /\ \A v \in Workers : v = w \/ jobs[v].pc = "idle"
            /\ jobs[w].seen = Live
            /\ jobs[w].pc = "matching" => jobs[w].rows = log

(* What is calm has been calm. *)
LEMMA CalmBefore ==
  ASSUME [Next]_vars, calm'
  PROVE  calm
BY DEF Next, World, Tick, Cast, Claim, Melt, Change, EndVote, Run, StartUpdate, StartFreeze, Start, ReadOn,
       Save, SaveHalfBlind, Clash, Fail, vars

(* Every step keeps calm runs apart. *)
LEMMA CalmRunsStep == TypeInv /\ CalmRuns /\ [Next]_vars => CalmRuns'
<1> SUFFICES ASSUME TypeInv, CalmRuns, [Next]_vars, calm' PROVE CalmRuns'
  BY DEF CalmRuns
<1>1. /\ jobs \in [Workers -> Job] /\ calm
      /\ \A w \in Workers : jobs[w].pc # "idle" =>
            /\ \A v \in Workers : v = w \/ jobs[v].pc = "idle"
            /\ jobs[w].seen = Live
            /\ jobs[w].pc = "matching" => jobs[w].rows = log
  BY CalmBefore DEF CalmRuns, TypeInv, TypeOK
<1>2. CASE UNCHANGED <<balances, log, jobs>>
  <2>1. Live' = Live
    BY <1>2 DEF Live
  <2>2. QED
    BY <1>1, <1>2, <2>1 DEF CalmRuns
<1>3. ASSUME NEW new, Change(new)
      PROVE  CalmRuns'
  BY <1>3 DEF Change, Undisturbed, CalmRuns
<1>4. ASSUME NEW w \in Workers, Run(w)
      PROVE  CalmRuns'
  <2>1. UNCHANGED balances /\ Live' = Live /\ jobs' = [jobs EXCEPT ![w] = jobs'[w]]
    BY <1>4, RunsReadOnly, RunType DEF world, Live
  <2>2. ASSUME \A v \in Workers : v = w \/ jobs[v].pc = "idle",
               jobs'[w].seen = Live,
               jobs'[w].pc = "matching" => jobs'[w].rows = log',
               jobs'[w].pc # "idle"
        PROVE  CalmRuns'
    BY <1>1, <2>1, <2>2 DEF CalmRuns
  <2>3. ASSUME NEW freezing \in BOOLEAN, Start(w, freezing)
        PROVE  CalmRuns'
    <3> DEFINE job  == [IdleJob EXCEPT !.freezing = freezing]
               page == {b \in DOMAIN balances : balances[b].live /\ b > job.cursor}
    <3>1. ReadPage(w, job) /\ UNCHANGED log /\ Undisturbed
      BY <2>3 DEF Start
    <3>2. job \in Job /\ job.seen = {} /\ job.cursor = 0
      BY FirstJob
    <3>3. page = Live
      <4>1. DOMAIN balances = 1..Len(balances)
        BY LedgerFacts
      <4> HIDE DEF job
      <4>2. \A b \in DOMAIN balances : b > job.cursor
        BY <3>2, <4>1
      <4>3. QED
        BY <4>2 DEF Live
    <3> HIDE DEF job
    <3>4. \/ /\ page = {} /\ jobs'[w].pc = "matching"
             /\ jobs'[w].seen = job.seen /\ jobs'[w].rows = log
          \/ /\ page # {} /\ jobs'[w].pc = "reading"
             /\ jobs'[w].seen = job.seen \cup page
      BY <3>1, <3>2, PageRead
    <3> HIDE DEF page
    <3>5. QED
      BY <2>2, <3>1, <3>2, <3>3, <3>4 DEF Undisturbed
  <2>4. CASE ReadOn(w)
    <3> DEFINE page == {b \in DOMAIN balances : balances[b].live /\ b > jobs[w].cursor}
    <3>1. ReadPage(w, jobs[w]) /\ UNCHANGED log /\ jobs[w].pc = "reading" /\ jobs[w] \in Job
      BY <1>1, <2>4 DEF ReadOn
    <3>2. page \subseteq Live
      BY DEF Live
    <3>3. \/ /\ page = {} /\ jobs'[w].pc = "matching"
             /\ jobs'[w].seen = jobs[w].seen /\ jobs'[w].rows = log
          \/ /\ page # {} /\ jobs'[w].pc = "reading"
             /\ jobs'[w].seen = jobs[w].seen \cup page
      BY <3>1, PageRead
    <3> HIDE DEF page
    <3>4. QED
      BY <1>1, <2>2, <3>1, <3>2, <3>3
  <2>5. ASSUME Goes(w, IdleJob), jobs[w].pc # "idle"
        PROVE  CalmRuns'
    BY <1>1, <2>5, IdleType DEF Goes, CalmRuns
  <2>6. QED
    BY <1>4, <2>3, <2>4, <2>5 DEF Run, StartUpdate, StartFreeze, Save, SaveHalfBlind, SaveWith, Clash, Fail, Roll
<1>5. ASSUME World
      PROVE  UNCHANGED <<balances, log, jobs>> \/ \E new : Change(new)
  <2>1. ASSUME NEW k \in Keys, NEW a \in Stakes, Cast(k, a)
        PROVE  \E new : Change(new)
    BY <2>1 DEF Cast
  <2>2. ASSUME NEW b \in Ids, Claim(b)
        PROVE  \E new : Change(new)
    BY <2>2 DEF Claim
  <2>3. ASSUME NEW b \in Ids, NEW a \in Amounts, Melt(b, a)
        PROVE  \E new : Change(new)
    BY <2>3 DEF Melt
  <2>4. QED
    BY <1>5, <2>1, <2>2, <2>3 DEF World, Tick
<1>6. EndVote \/ UNCHANGED vars => UNCHANGED <<balances, log, jobs>>
  BY DEF EndVote, vars, world
<1>7. QED
  BY <1>2, <1>3, <1>4, <1>5, <1>6 DEF Next

(* A run that met nothing writes to the table in a save without gaps. *)
LEMMA CalmWrites ==
  ASSUME TypeInv, CalmRuns, [Next]_vars, calm'
  PROVE  \/ UNCHANGED log
         \/ \E w \in Workers : /\ SaveWith(w, {}) /\ UNCHANGED balances
                               /\ jobs[w].rows = log /\ jobs[w].seen = Live
<1>1. calm
  BY CalmBefore
<1>2. ASSUME NEW w \in Workers, Run(w)
      PROVE  UNCHANGED log \/ (SaveWith(w, {}) /\ jobs[w].rows = log /\ jobs[w].seen = Live)
  <2>1. CASE Save(w)
    BY <1>1, <2>1 DEF Save, SaveWith, CalmRuns
  <2>2. QED
    BY <1>2, <2>1 DEF Run, StartUpdate, StartFreeze, Start, ReadOn, SaveHalfBlind, Clash, Fail, Roll
<1>3. QED
  BY <1>2, RunsReadOnly DEF Next, World, Tick, Cast, Claim, Melt, Change, EndVote, vars, world

(* What such a save writes: rows go to what they are matched with, the     *)
(* others are claimed, and what is matched with no row gets one.           *)
LEMMA CalmSave ==
  ASSUME TypeInv, Unique(log), NEW w \in Workers, jobs[w].rows = log, jobs[w].seen = Live,
         NEW matches \in AllMatches(w, {})
  PROVE  LET saved == Saved(w, matches)
         IN  /\ \A i \in DOMAIN log :
                  \/ \E b \in Eligible(Live) : <<i, b>> \in matches /\ saved[i] = Written(w, i, b)
                  \/ (\A m \in matches : m[1] # i) /\ saved[i] = [log[i] EXCEPT !.claimed = TRUE]
             /\ \A i \in (DOMAIN saved) \ DOMAIN log :
                  \E b \in Eligible(Live) : /\ \A m \in matches : m[2] # b
                                            /\ saved[i] = NewRow(Live, b, jobs[w].freezing)
             /\ \A i, j \in (DOMAIN saved) \ DOMAIN log : saved[i] = saved[j] => i = j
<1> DEFINE saved == Saved(w, matches)
<1>1. /\ \A m \in matches : m = <<m[1], m[2]>> /\ m[1] \in DOMAIN log /\ m[2] \in Eligible(Live)
      /\ \A m, n \in matches : m[1] = n[1] <=> m[2] = n[2]
      /\ \A i \in DOMAIN log, b \in Eligible(Live) : log[i].balance = b => <<i, b>> \in matches
  <2>1. Unique(jobs[w].rows)
    OBVIOUS
  <2>2. QED
    BY <2>1, RunMatches
<1>2. Adopted(w, matches) = {}
  BY <1>1 DEF Adopted, Fresh, Unmatched
<1>3. Updates(w, matches) = matches
  BY <1>2 DEF Updates
<1>4. \A m \in matches : FirstUpdate(w, matches, m[1]) = m[2]
  <2> TAKE m \in matches
  <2> DEFINE first == CHOOSE n \in matches : n[1] = m[1]
  <2>1. FirstUpdate(w, matches, m[1]) = first[2]
    BY <1>3 DEF FirstUpdate
  <2>2. first \in matches /\ first[1] = m[1]
    OBVIOUS
  <2> HIDE DEF first
  <2>3. QED
    BY <1>1, <2>1, <2>2
<1>5. LeftOver(w, matches) = {b \in Eligible(Live) : \A m \in matches : m[2] # b}
  BY <1>2 DEF LeftOver, Fresh, Unmatched
<1>6. /\ \A i \in DOMAIN log :
           saved[i] = IF \E m \in Updates(w, matches) : m[1] = i THEN Written(w, i, FirstUpdate(w, matches, i))
                      ELSE [log[i] EXCEPT !.claimed = TRUE]
      /\ \A i \in (DOMAIN saved) \ DOMAIN log :
           \E b \in LeftOver(w, matches) : saved[i] = NewRow(jobs[w].seen, b, jobs[w].freezing)
      /\ \A i, j \in (DOMAIN saved) \ DOMAIN log : saved[i] = saved[j] => i = j
  BY SavedShape
<1> HIDE DEF saved
<1>7. \A i \in DOMAIN log :
        \/ \E b \in Eligible(Live) : <<i, b>> \in matches /\ saved[i] = Written(w, i, b)
        \/ (\A m \in matches : m[1] # i) /\ saved[i] = [log[i] EXCEPT !.claimed = TRUE]
  <2> TAKE i \in DOMAIN log
  <2>1. CASE \E m \in matches : m[1] = i
    <3>1. PICK m \in matches : m[1] = i
      BY <2>1
    <3>2. saved[i] = Written(w, i, m[2])
      BY <1>3, <1>4, <1>6, <3>1
    <3>3. QED
      BY <1>1, <3>1, <3>2
  <2>2. CASE ~\E m \in matches : m[1] = i
    BY <1>3, <1>6, <2>2
  <2>3. QED
    BY <2>1, <2>2
<1>8. \A i \in (DOMAIN saved) \ DOMAIN log :
        \E b \in Eligible(Live) : /\ \A m \in matches : m[2] # b
                                  /\ saved[i] = NewRow(Live, b, jobs[w].freezing)
  BY <1>5, <1>6
<1>9. QED
  BY <1>6, <1>7, <1>8 DEF saved

-----------------------------------------------------------------------------
(* One row for a vote, and the row of its vote.                            *)

(* Balances of the ledger have the origins they had. *)
LEMMA SameOrigins ==
  ASSUME TypeInv, [Next]_vars
  PROVE  /\ DOMAIN balances \subseteq DOMAIN balances'
         /\ \A b \in DOMAIN balances : Origin(b)' = Origin(b)
         /\ \A i \in DOMAIN log' : log'[i].balance \in DOMAIN balances
         /\ \A i \in DOMAIN log : log[i].balance \in DOMAIN balances
<1>1. Traceable(Past) /\ Traceable(Past)'
  BY TypeStep DEF TypeInv
<1>2. QED
  BY <1>1, LedgerStep, LogStep, OriginStays DEF TypeInv

(* The balance of a row after a calm save. *)
LEMMA SavedBalances ==
  ASSUME TypeInv, NEW w \in Workers, jobs[w].seen = Live
  PROVE  /\ \A i \in DOMAIN log, b \in Eligible(Live) :
              Written(w, i, b).balance = b /\ Written(w, i, b).origin = log[i].origin
         /\ \A i \in DOMAIN log : /\ [log[i] EXCEPT !.claimed = TRUE].balance = log[i].balance
                                  /\ [log[i] EXCEPT !.claimed = TRUE].origin = log[i].origin
         /\ \A b \in Eligible(Live) : /\ NewRow(Live, b, jobs[w].freezing).balance = b
                                      /\ NewRow(Live, b, jobs[w].freezing).origin = Origin(b)
<1>1. log \in Seq(Row)
  BY DEF TypeInv, TypeOK
<1>2. \A i \in DOMAIN log : log[i] \in Row
  BY <1>1
<1>3. QED
  BY <1>2 DEF Written, Updated, NewRow, Row

(* A run that meets nothing brings no vote into a second row. *)
LEMMA OnceSaved ==
  ASSUME TypeInv, Lines, OncePerOrigin, NEW w \in Workers, jobs[w].rows = log, jobs[w].seen = Live,
         NEW matches \in AllMatches(w, {}),
         NEW saved, saved = Saved(w, matches), NEW i \in DOMAIN saved, NEW j \in DOMAIN saved,
         NEW b \in DOMAIN balances, b = saved[i].balance,
         NEW c \in DOMAIN balances, c = saved[j].balance, Origin(b) = Origin(c)
  PROVE  i = j
<1> DEFINE Matched(k, d) == d \in Eligible(Live) /\ k \in DOMAIN log /\ <<k, d>> \in matches
           Kept(k, d)    == k \in DOMAIN log /\ d = log[k].balance /\ \A m \in matches : m[1] # k
           Added(k, d)   == /\ k \in (DOMAIN saved) \ DOMAIN log /\ d \in Eligible(Live)
                            /\ \A m \in matches : m[2] # d
                            /\ saved[k] = NewRow(Live, d, jobs[w].freezing)
<1>1. Unique(log) /\ \A k \in DOMAIN log : log[k].balance \in DOMAIN balances
  BY DEF OncePerOrigin, Rows, Unique, TypeInv
<1>2. /\ \A k \in DOMAIN log :
           \/ \E d \in Eligible(Live) : <<k, d>> \in matches /\ saved[k] = Written(w, k, d)
           \/ (\A m \in matches : m[1] # k) /\ saved[k] = [log[k] EXCEPT !.claimed = TRUE]
      /\ \A k \in (DOMAIN saved) \ DOMAIN log :
           \E d \in Eligible(Live) : /\ \A m \in matches : m[2] # d
                                     /\ saved[k] = NewRow(Live, d, jobs[w].freezing)
      /\ \A k, l \in (DOMAIN saved) \ DOMAIN log : saved[k] = saved[l] => k = l
  <2> DEFINE S == Saved(w, matches)
  <2>1. /\ \A k \in DOMAIN log :
             \/ \E d \in Eligible(Live) : <<k, d>> \in matches /\ S[k] = Written(w, k, d)
             \/ (\A m \in matches : m[1] # k) /\ S[k] = [log[k] EXCEPT !.claimed = TRUE]
        /\ \A k \in (DOMAIN S) \ DOMAIN log :
             \E d \in Eligible(Live) : /\ \A m \in matches : m[2] # d
                                       /\ S[k] = NewRow(Live, d, jobs[w].freezing)
        /\ \A k, l \in (DOMAIN S) \ DOMAIN log : S[k] = S[l] => k = l
    BY <1>1, CalmSave, Zenon
  <2>2. saved = S
    OBVIOUS
  <2> HIDE DEF S
  <2>3. QED
    BY <2>1, <2>2
<1>3. ASSUME NEW k \in DOMAIN saved, NEW e, e = saved[k].balance
      PROVE  Matched(k, e) \/ Kept(k, e) \/ Added(k, e)
  <2>1. CASE k \in DOMAIN log
    <3>1. CASE \E d \in Eligible(Live) : <<k, d>> \in matches /\ saved[k] = Written(w, k, d)
      <4>1. PICK d \in Eligible(Live) : <<k, d>> \in matches /\ saved[k] = Written(w, k, d)
        BY <3>1
      <4>2. e = d
        BY <1>3, <2>1, <4>1, SavedBalances
      <4>3. QED
        BY <2>1, <4>1, <4>2
    <3>2. CASE (\A m \in matches : m[1] # k) /\ saved[k] = [log[k] EXCEPT !.claimed = TRUE]
      <4>1. e = log[k].balance
        BY <1>3, <2>1, <3>2, SavedBalances
      <4>2. QED
        BY <2>1, <3>2, <4>1
    <3>3. QED
      BY <1>2, <2>1, <3>1, <3>2
  <2>2. CASE k \notin DOMAIN log
    <3>1. PICK d \in Eligible(Live) : /\ \A m \in matches : m[2] # d
                                      /\ saved[k] = NewRow(Live, d, jobs[w].freezing)
      BY <1>2, <2>2
    <3>2. e = d
      BY <1>3, <3>1, SavedBalances
    <3>3. QED
      BY <1>3, <2>2, <3>1, <3>2
  <2>3. QED
    BY <2>1, <2>2
<1>4. \A m, n \in matches : m[1] = n[1] <=> m[2] = n[2]
  <2>1. Unique(jobs[w].rows)
    BY <1>1
  <2>2. QED
    BY <2>1, RunMatches
<1>5. Eligible(Live) \subseteq Live
  BY DEF Eligible
<1>6. ASSUME NEW k, NEW d, Kept(k, d), NEW e \in Eligible(Live), Origin(d) = Origin(e)
      PROVE  FALSE
  <2>1. <<k, e>> \in matches
    BY <1>6, OriginMatched
  <2>2. QED
    BY <1>6, <2>1
<1>7. CASE Kept(i, b) /\ Kept(j, c)
  BY <1>7 DEF OncePerOrigin, Rows
<1>8. CASE ~Kept(i, b) /\ ~Kept(j, c)
  <2>1. b \in Eligible(Live) /\ c \in Eligible(Live) /\ b = c
    BY <1>3, <1>5, <1>8, OneLeft
  <2>2. CASE Matched(i, b) /\ Matched(j, c)
    BY <1>4, <2>1, <2>2
  <2>3. CASE Added(i, b) /\ Added(j, c)
    <3>1. saved[i] = saved[j]
      BY <2>1, <2>3
    <3>2. QED
      BY <1>2, <2>3, <3>1
  <2>4. Matched(i, b) => ~Added(j, c)
    BY <2>1
  <2>5. Matched(j, c) => ~Added(i, b)
    BY <2>1
  <2>6. QED
    BY <1>3, <1>8, <2>2, <2>3, <2>4, <2>5
<1>9. CASE Kept(i, b) /\ ~Kept(j, c)
  <2>1. c \in Eligible(Live)
    BY <1>3, <1>9
  <2>2. QED
    BY <1>6, <1>9, <2>1
<1>10. CASE ~Kept(i, b) /\ Kept(j, c)
  <2>1. b \in Eligible(Live) /\ Origin(c) = Origin(b)
    BY <1>3, <1>10
  <2>2. QED
    BY <1>6, <1>10, <2>1
<1>11. QED
  BY <1>7, <1>8, <1>9, <1>10

(* Every calm step keeps one row for a vote. *)
LEMMA OnceStep ==
  ASSUME TypeInv, Lines, CalmRuns, OncePerOrigin, [Next]_vars, calm'
  PROVE  OncePerOrigin'
<1>1. /\ DOMAIN balances \subseteq DOMAIN balances'
      /\ \A b \in DOMAIN balances : Origin(b)' = Origin(b)
      /\ \A i \in DOMAIN log' : log'[i].balance \in DOMAIN balances
  BY SameOrigins
<1> SUFFICES ASSUME NEW i \in DOMAIN log', NEW j \in DOMAIN log', NEW b \in DOMAIN balances, NEW c \in DOMAIN balances,
                    b = log'[i].balance, c = log'[j].balance, Origin(b) = Origin(c)
             PROVE  i = j
  BY <1>1 DEF OncePerOrigin, Rows
<1>2. CASE UNCHANGED log
  BY <1>2 DEF OncePerOrigin, Rows
<1>3. ASSUME NEW w \in Workers, SaveWith(w, {}), jobs[w].rows = log, jobs[w].seen = Live
      PROVE  i = j
  <2>1. PICK matches \in AllMatches(w, {}) : log' = Saved(w, matches)
    BY <1>3 DEF SaveWith
  <2>2. QED
    BY <1>3, <2>1, OnceSaved
<1>4. QED
  BY <1>2, <1>3, CalmWrites

(* CountedOnce: however often a vote melts, it counts once, for any number *)
(* of votes, as long as no run meets another run or a change of the        *)
(* ledger.                                                                 *)
THEOREM CountedInOneRow == Spec => []CountedOnce
<1> DEFINE Inv == Lines /\ CalmRuns /\ (calm => OncePerOrigin)
<1>1. Init => Inv
  BY IdleType DEF Init, Lines, Live, CalmRuns, OncePerOrigin, Rows
<1>2. TypeInv /\ Inv /\ [Next]_vars => Inv'
  BY LinesStep, CalmRunsStep, CalmBefore, OnceStep
<1>3. TypeInv /\ Inv => CountedOnce
  BY DEF CountedOnce, OncePerOrigin, Rows, TypeInv
<1>4. QED
  BY <1>1, <1>2, <1>3, TypeInit, TypeStep, PTL DEF Spec

(* What a row says of its vote is what the ledger says. *)
OriginKept ==
  \A i \in Rows, b \in DOMAIN balances : b = log[i].balance => log[i].origin = Origin(b)

(* As long as nobody claims, a calm run matches a row with its own vote. *)
LEMMA OriginKeptStep ==
  ASSUME TypeInv, Lines, CalmRuns, OncePerOrigin, RowsInTime, Spent = {}, OriginKept, [Next]_vars, calm'
  PROVE  OriginKept'
<1>1. /\ DOMAIN balances \subseteq DOMAIN balances'
      /\ \A b \in DOMAIN balances : Origin(b)' = Origin(b)
      /\ \A i \in DOMAIN log' : log'[i].balance \in DOMAIN balances
      /\ \A i \in DOMAIN log : log[i].balance \in DOMAIN balances
  BY SameOrigins
<1> SUFFICES ASSUME NEW i \in DOMAIN log', NEW b \in DOMAIN balances, b = log'[i].balance
             PROVE  log'[i].origin = Origin(b)
  BY <1>1 DEF OriginKept, Rows
<1>2. CASE UNCHANGED log
  BY <1>2 DEF OriginKept, Rows
<1>3. ASSUME NEW w \in Workers, SaveWith(w, {}), jobs[w].rows = log, jobs[w].seen = Live
      PROVE  log'[i].origin = Origin(b)
  <2>1. PICK matches \in AllMatches(w, {}) : log' = Saved(w, matches)
    BY <1>3 DEF SaveWith
  <2>2. Unique(log)
    BY <1>1 DEF OncePerOrigin, Rows, Unique
  <2>3. \A m, n \in matches : m[1] = n[1] <=> m[2] = n[2]
    <3>1. Unique(jobs[w].rows)
      BY <1>3, <2>2
    <3>2. QED
      BY <3>1, RunMatches
  <2>4. /\ \A k \in DOMAIN log :
             \/ \E d \in Eligible(Live) : <<k, d>> \in matches /\ log'[k] = Written(w, k, d)
             \/ (\A m \in matches : m[1] # k) /\ log'[k] = [log[k] EXCEPT !.claimed = TRUE]
        /\ \A k \in (DOMAIN log') \ DOMAIN log :
             \E d \in Eligible(Live) : log'[k] = NewRow(Live, d, jobs[w].freezing)
    BY <1>3, <2>1, <2>2, CalmSave
  <2>5. ASSUME i \in DOMAIN log
        PROVE  log'[i].origin = Origin(b)
    <3>1. PICK d \in DOMAIN balances : d = log[i].balance
      BY <1>1, <2>5
    <3>2. PICK c \in Live : Origin(c) = Origin(d)
      BY <3>1, VoteLives
    <3>3. c \in Eligible(Live)
      BY <2>5, <3>1, <3>2 DEF RowsInTime, Rows, InTime, Eligible
    <3>4. <<i, c>> \in matches
      BY <1>3, <2>5, <3>1, <3>2, <3>3, OriginMatched
    <3>5. log'[i] = Written(w, i, c)
      <4>1. ~\A m \in matches : m[1] # i
        BY <3>4
      <4>2. PICK e \in Eligible(Live) : <<i, e>> \in matches /\ log'[i] = Written(w, i, e)
        BY <2>4, <2>5, <4>1
      <4>3. e = c
        BY <2>3, <3>4, <4>2
      <4>4. QED
        BY <4>2, <4>3
    <3>6. b = c /\ log'[i].origin = log[i].origin
      BY <1>3, <2>5, <3>3, <3>5, SavedBalances
    <3>7. QED
      BY <2>5, <3>1, <3>2, <3>6 DEF OriginKept, Rows
  <2>6. CASE i \notin DOMAIN log
    BY <1>3, <2>4, <2>6, SavedBalances
  <2>7. QED
    BY <2>5, <2>6
<1>4. QED
  BY <1>2, <1>3, CalmWrites

(* KeepsOrigin: the date and the amount of a row are those of the vote     *)
(* whose weight it has, however often it melted, before the first run saw  *)
(* it or since.                                                            *)
THEOREM RowsKeepTheirVote == Spec => []KeepsOrigin
<1> DEFINE Inv == /\ Lines /\ CalmRuns /\ (calm => OncePerOrigin) /\ RowsInTime
                  /\ calm /\ Spent = {} => OriginKept
<1>1. Init => Inv
  BY IdleType DEF Init, Lines, Live, CalmRuns, OncePerOrigin, RowsInTime, OriginKept, Rows
<1>2. TypeInv /\ Inv /\ [Next]_vars => Inv'
  <2> SUFFICES ASSUME TypeInv, Inv, [Next]_vars PROVE Inv'
    OBVIOUS
  <2>1. (Lines /\ CalmRuns /\ RowsInTime)'
    BY LinesStep, CalmRunsStep, TimeStep
  <2>2. (calm => OncePerOrigin)'
    BY CalmBefore, OnceStep
  <2>3. (calm /\ Spent = {} => OriginKept)'
    BY CalmBefore, OriginKeptStep, SpentStays
  <2>4. QED
    BY <2>1, <2>2, <2>3
<1>3. TypeInv /\ Inv => KeepsOrigin
  BY DEF KeepsOrigin, OriginKept, Rows, TypeInv
<1>4. QED
  BY <1>1, <1>2, <1>3, TypeInit, TypeStep, PTL DEF Spec
=============================================================================
