--------------------------- MODULE Indexing_proofs ----------------------------
(***************************************************************************)
(* What the counting of votes guarantees for any number of voters,         *)
(* balances and workers: only votes cast in time are counted, and a tally  *)
(* that was frozen stays as it is.                                         *)
(***************************************************************************)
EXTENDS VoteIndexing, TLAPS, FiniteSetTheorems, WellFoundedInduction

-----------------------------------------------------------------------------
(* Origins.                                                                *)

(* Among numbers there is a least one. *)
LEMMA LeastNumber ==
  ASSUME NEW T, T \subseteq Nat, T # {}
  PROVE  \E n \in T : \A m \in T : n <= m
<1>1. \E n \in T : \A m \in T : <<m, n>> \notin OpToRel(<, Nat)
  BY NatLessThanWellFounded, WFMin
<1>2. OpToRel(<, Nat) = {pair \in Nat \X Nat : pair[1] < pair[2]}
  BY DEF OpToRel
<1>3. ASSUME NEW m \in T, NEW n \in T, <<m, n>> \notin OpToRel(<, Nat)
      PROVE  n <= m
  <2>1. m \in Nat /\ n \in Nat /\ ~(m < n)
    BY <1>2, <1>3
  <2>2. QED
    BY <2>1
<1>4. QED
  BY <1>1, <1>3

(* Past: which balance each balance replaces.                              *)
Past == [c \in DOMAIN balances |-> balances[c].previous]

(* Balances in the order of their creation that replace only earlier ones. *)
Traceable(past) ==
  /\ \E n \in Nat : DOMAIN past = 1..n
  /\ \A c \in DOMAIN past : past[c] # NULL => past[c] \in DOMAIN past /\ past[c] < c

(* A trace goes back along the replacements.                               *)
Traces(trace, past, D) ==
  trace = [c \in D |-> IF past[c] = NULL THEN c ELSE trace[past[c]]]

(* Every balance can be traced: what replaces only earlier balances stems  *)
(* from one that replaces none.                                            *)
LEMMA TraceExists ==
  ASSUME NEW past, Traceable(past)
  PROVE  \E trace : Traces(trace, past, DOMAIN past)
<1>1. PICK n \in Nat : DOMAIN past = 1..n
  BY DEF Traceable
<1> DEFINE Missing == {m \in 0..n : ~\E trace : Traces(trace, past, 1..m)}
<1>2. 0 \notin Missing
  <2>1. Traces([c \in 1..0 |-> c], past, 1..0)
    BY DEF Traces
  <2>2. QED
    BY <2>1
<1>3. ASSUME NEW m \in Missing, \A k \in Missing : m <= k
      PROVE  FALSE
  <2>1. m \in 1..n /\ m - 1 \in 0..n /\ m - 1 \notin Missing
    BY <1>2, <1>3
  <2>2. PICK trace : Traces(trace, past, 1..(m - 1))
    BY <2>1
  <2> DEFINE longer == [c \in 1..m |-> IF c < m THEN trace[c] ELSE IF past[c] = NULL THEN c ELSE trace[past[c]]]
  <2>3. ASSUME NEW c \in 1..m
        PROVE  longer[c] = IF past[c] = NULL THEN c ELSE longer[past[c]]
    <3>1. past[c] # NULL => past[c] \in 1..m /\ past[c] < m
      BY <1>1, <2>1, <2>3 DEF Traceable
    <3>2. past[c] # NULL => longer[past[c]] = trace[past[c]]
      BY <3>1
    <3>3. CASE c < m
      <4>1. c \in 1..(m - 1)
        BY <2>1, <3>3
      <4>2. trace[c] = IF past[c] = NULL THEN c ELSE trace[past[c]]
        BY <2>2, <4>1 DEF Traces
      <4>3. QED
        BY <3>2, <3>3, <4>2
    <3>4. CASE ~(c < m)
      BY <3>2, <3>4
    <3>5. QED
      BY <3>3, <3>4
  <2>4. longer = [c \in 1..m |-> longer[c]]
    OBVIOUS
  <2> HIDE DEF longer
  <2>5. Traces(longer, past, 1..m)
    BY <2>3, <2>4 DEF Traces
  <2>6. QED
    BY <2>5
<1>4. Missing = {}
  <2>1. Missing \subseteq Nat
    OBVIOUS
  <2> HIDE DEF Missing
  <2>2. QED
    BY <1>3, <2>1, LeastNumber
<1>5. QED
  BY <1>1, <1>4

(* There is one trace only.                                                *)
LEMMA TraceUnique ==
  ASSUME NEW past, Traceable(past), NEW first, NEW second,
         \A c \in DOMAIN past : first[c] = IF past[c] = NULL THEN c ELSE first[past[c]],
         \A c \in DOMAIN past : second[c] = IF past[c] = NULL THEN c ELSE second[past[c]]
  PROVE  \A c \in DOMAIN past : first[c] = second[c]
<1> DEFINE Apart == {c \in DOMAIN past : first[c] # second[c]}
<1>1. Apart \subseteq Nat
  BY DEF Traceable
<1>2. ASSUME NEW c \in Apart, \A d \in Apart : c <= d
      PROVE  FALSE
  <2>1. past[c] # NULL /\ past[c] \in DOMAIN past /\ past[c] < c
    BY DEF Traceable
  <2>2. past[c] \in Apart
    BY <2>1
  <2>3. QED
    BY <1>1, <1>2, <2>1, <2>2
<1>3. QED
  BY <1>1, <1>2, LeastNumber

(* A trace stays among the balances.                                       *)
LEMMA TraceType ==
  ASSUME NEW past, Traceable(past), NEW trace,
         \A c \in DOMAIN past : trace[c] = IF past[c] = NULL THEN c ELSE trace[past[c]]
  PROVE  \A c \in DOMAIN past : trace[c] \in DOMAIN past
<1> DEFINE Outside == {c \in DOMAIN past : trace[c] \notin DOMAIN past}
<1>1. Outside \subseteq Nat
  BY DEF Traceable
<1>2. ASSUME NEW c \in Outside, \A d \in Outside : c <= d
      PROVE  FALSE
  <2>1. past[c] # NULL /\ past[c] \in DOMAIN past /\ past[c] < c
    BY DEF Traceable
  <2>2. past[c] \in Outside
    BY <2>1
  <2>3. QED
    BY <1>1, <1>2, <2>1, <2>2
<1>3. QED
  BY <1>1, <1>2, LeastNumber

(* Origin follows the replacements back, one after the other.              *)
LEMMA OriginTraces ==
  ASSUME Traceable(Past)
  PROVE  \A b \in DOMAIN balances :
           Origin(b) = IF Past[b] = NULL THEN b ELSE Origin(Past[b])
<1> DEFINE D     == DOMAIN balances
           trace == CHOOSE f : f = [c \in D |-> IF SelfSponsored(c) THEN c ELSE f[balances[c].previous]]
<1>1. DOMAIN Past = D /\ \A c \in D : Past[c] = balances[c].previous
  BY DEF Past
<1>2. PICK f : f = [c \in D |-> IF SelfSponsored(c) THEN c ELSE f[balances[c].previous]]
  <2>1. PICK f : Traces(f, Past, D)
    BY <1>1, TraceExists
  <2>2. f = [c \in D |-> IF SelfSponsored(c) THEN c ELSE f[balances[c].previous]]
    BY <1>1, <2>1 DEF Traces, SelfSponsored
  <2>3. QED
    BY <2>2
<1>3. trace = [c \in D |-> IF SelfSponsored(c) THEN c ELSE trace[balances[c].previous]]
  BY <1>2
<1>4. \A b : Origin(b) = trace[b]
  BY DEF Origin
<1> HIDE DEF trace
<1>5. \A b \in D : trace[b] = IF SelfSponsored(b) THEN b ELSE trace[balances[b].previous]
  BY <1>3
<1>6. QED
  BY <1>1, <1>4, <1>5 DEF SelfSponsored

-----------------------------------------------------------------------------
(* What a run matches and writes.                                          *)

(* A row is matched with votes of this run only, and only if they were     *)
(* cast in time.                                                           *)
LEMMA MatchedInTime ==
  ASSUME NEW w \in Workers, NEW silent, NEW matches \in AllMatches(w, silent), NEW m \in matches
  PROVE  m[2] \in Eligible(jobs[w].seen)
<1> DEFINE rows == jobs[w].rows
           seen == jobs[w].seen
<1>1. PICK k \in Keys : \E found \in Matches(rows, seen, silent, k) : m \in found
  BY DEF AllMatches
<1> DEFINE byId     == ById(rows, seen, k)
           service  == {b \in Eligible(seen) : balances[b].key = k /\ ~SelfSponsored(b)}
           S        == Unmatched(service, byId)
           byOrigin == ByOrigin(rows, Without(RowsOf(rows, k), byId), S, silent)
           R        == Without(RowsOf(rows, k), byId \cup byOrigin)
           T        == Unmatched(service, byId \cup byOrigin)
<1>2. S \subseteq Eligible(seen) /\ T \subseteq Eligible(seen)
  BY DEF Unmatched
<1>3. PICK pairs \in Paired(rows, seen, R, T) : m \in (byId \cup byOrigin) \cup pairs
  BY <1>1 DEF Matches
<1>4. CASE m \in byId
  BY <1>4 DEF ById
<1>5. CASE m \in byOrigin
  <2>1. m \in Without(RowsOf(rows, k), byId) \X S
    BY <1>5 DEF ByOrigin
  <2>2. QED
    BY <1>2, <2>1
<1>6. CASE m \in pairs
  <2>1. \E a, b : b \in T /\ m = <<a, b>>
    BY <1>3, <1>6 DEF Paired
  <2>2. QED
    BY <1>2, <2>1
<1>7. QED
  BY <1>3, <1>4, <1>5, <1>6

(* The elements of a finite set in some order.                             *)
LEMMA Listed ==
  ASSUME NEW S, IsFiniteSet(S)
  PROVE  SetToSeq(S) \in Seq(S)
<1>1. Cardinality(S) \in Nat /\ ExistsBijection(1..Cardinality(S), S)
  BY FS_CardinalityType
<1>2. \E f \in [1..Cardinality(S) -> S] : IsInjective(f)
  BY <1>1 DEF ExistsBijection, Bijection, Injection, IsInjective
<1>3. SetToSeq(S) \in [1..Cardinality(S) -> S]
  BY <1>2 DEF SetToSeq
<1>4. QED
  BY <1>1, <1>3

-----------------------------------------------------------------------------
(* Types.                                                                  *)

(* What TypeOK rests on: balances replace earlier ones, runs saw balances  *)
(* there are, and rows are about balances there are.                       *)
TypeInv ==
  /\ TypeOK
  /\ Len(balances) <= MaxBalances
  /\ Traceable(Past)
  /\ \A w \in Workers : jobs[w].seen \subseteq DOMAIN balances
  /\ \A i \in DOMAIN log : log[i].balance \in DOMAIN balances /\ log[i].origin \in DOMAIN balances

(* What TypeInv says of the ledger.                                        *)
LEMMA LedgerFacts ==
  ASSUME TypeInv
  PROVE  /\ Len(balances) \in 0..MaxBalances
         /\ DOMAIN balances = 1..Len(balances)
         /\ DOMAIN balances \subseteq Ids
         /\ \A b \in DOMAIN balances : balances[b] \in Balance
         /\ DOMAIN Past = DOMAIN balances
         /\ Amounts \subseteq Nat
<1>1. balances \in Seq(Balance) /\ Len(balances) <= MaxBalances /\ MaxBalances \in Nat
  BY IndexingAssumption DEF TypeInv, TypeOK
<1>2. Amounts \subseteq Nat
  BY IndexingAssumption DEF Amounts
<1>3. QED
  BY <1>1, <1>2 DEF Ids, Past

(* An origin is a balance of the ledger.                                   *)
LEMMA OriginType ==
  ASSUME TypeInv, NEW b \in DOMAIN balances
  PROVE  Origin(b) \in DOMAIN balances
<1> DEFINE trace == [c \in DOMAIN balances |-> Origin(c)]
<1>1. Traceable(Past) /\ DOMAIN Past = DOMAIN balances
  BY LedgerFacts DEF TypeInv
<1>2. \A c \in DOMAIN Past : trace[c] = IF Past[c] = NULL THEN c ELSE trace[Past[c]]
  BY <1>1, OriginTraces DEF Traceable
<1> HIDE DEF trace
<1>3. \A c \in DOMAIN Past : trace[c] \in DOMAIN Past
  BY <1>1, <1>2, TraceType
<1>4. QED
  BY <1>1, <1>3 DEF trace

(* A position is less than the number of balances.                         *)
LEMMA IndexType ==
  ASSUME TypeInv, NEW seen, seen \subseteq DOMAIN balances, NEW b \in seen
  PROVE  Index(seen, b) \in 0..(MaxBalances - 1)
<1> DEFINE ahead == {c \in seen : /\ balances[c].key = balances[b].key
                                  /\ \/ balances[c].amount > balances[b].amount
                                     \/ balances[c].amount = balances[b].amount /\ c < b}
           n     == Len(balances)
<1>1. n \in 0..MaxBalances /\ DOMAIN balances = 1..n /\ b \in 1..n /\ MaxBalances \in Nat
  BY LedgerFacts, IndexingAssumption
<1>2. balances[b].amount \in Nat
  BY <1>1, LedgerFacts DEF Balance
<1>3. ahead \in SUBSET ((1..n) \ {b})
  BY <1>1, <1>2
<1> HIDE DEF n
<1>4. IsFiniteSet(1..n) /\ Cardinality(1..n) = n
  <2>1. 1 \in Int /\ n \in Int /\ (1 > n => n = 0) /\ n - 1 + 1 = n
    BY <1>1
  <2>2. IsFiniteSet(1..n) /\ Cardinality(1..n) = IF 1 > n THEN 0 ELSE n - 1 + 1
    BY <2>1, FS_Interval
  <2>3. QED
    BY <2>1, <2>2
<1>5. IsFiniteSet((1..n) \ {b}) /\ Cardinality((1..n) \ {b}) = n - 1
  BY <1>1, <1>4, FS_RemoveElement
<1> HIDE DEF ahead
<1>6. IsFiniteSet(ahead) /\ Cardinality(ahead) <= n - 1 /\ Cardinality(ahead) \in Nat
  <2>1. IsFiniteSet(ahead) /\ Cardinality(ahead) <= Cardinality((1..n) \ {b})
    BY <1>3, <1>5, FS_Subset
  <2>2. Cardinality(ahead) \in Nat
    BY <2>1, FS_CardinalityType
  <2>3. QED
    BY <1>5, <2>1, <2>2
<1>7. Index(seen, b) = Cardinality(ahead)
  BY DEF Index, ahead
<1>8. QED
  BY <1>1, <1>6, <1>7

(* The last balance of a page is on it.                                    *)
LEMMA PageEnd ==
  ASSUME TypeInv, NEW page, page \subseteq DOMAIN balances, page # {}
  PROVE  Max(page) \in page
<1> DEFINE n     == Len(balances)
           below == {n - b : b \in page}
<1>1. n \in Nat /\ page \subseteq 1..n
  BY LedgerFacts
<1>2. below \subseteq Nat /\ below # {}
  BY <1>1
<1>3. PICK m \in below : \A k \in below : m <= k
  <2> HIDE DEF below
  <2>1. QED
    BY <1>2, LeastNumber
<1>4. PICK b \in page : m = n - b
  OBVIOUS
<1> HIDE DEF n
<1>5. ASSUME NEW c \in page
      PROVE  b >= c
  <2>1. n - b <= n - c /\ b \in Nat /\ c \in Nat
    BY <1>1, <1>3, <1>4
  <2>2. QED
    BY <1>1, <2>1
<1>6. QED
  BY <1>5 DEF Max

(* A row is created about a vote of the ledger.                            *)
LEMMA NewRowType ==
  ASSUME TypeInv, NEW seen, seen \subseteq DOMAIN balances, NEW b \in seen, NEW freezing \in BOOLEAN
  PROVE  NewRow(seen, b, freezing) \in Row
<1>1. b \in Ids /\ Origin(b) \in Ids /\ balances[b].amount \in Amounts
  BY LedgerFacts, OriginType DEF Balance
<1>2. Index(seen, b) \in 0..(MaxBalances - 1)
  BY IndexType
<1>3. QED
  BY <1>1, <1>2 DEF NewRow, Row

(* An update of a row is a row.                                            *)
LEMMA UpdatedType ==
  ASSUME TypeInv, NEW seen, seen \subseteq DOMAIN balances, NEW b \in seen, NEW freezing \in BOOLEAN,
         NEW row \in Row
  PROVE  /\ Updated(row, seen, b, freezing) \in Row
         /\ Updated(row, seen, b, freezing).balance = b
         /\ Updated(row, seen, b, freezing).origin = row.origin
         /\ ~freezing => Updated(row, seen, b, freezing).voted = row.voted
<1>1. b \in Ids /\ balances[b].amount \in Amounts
  BY LedgerFacts DEF Balance
<1>2. Index(seen, b) \in 0..(MaxBalances - 1)
  BY IndexType
<1>3. QED
  BY <1>1, <1>2 DEF Updated, Row

(* A save keeps every row, matched with a vote in time or marked claimed,  *)
(* and adds rows about votes in time.                                      *)
LEMMA SavedRows ==
  ASSUME TypeInv, NEW w \in Workers, NEW silent, NEW matches \in AllMatches(w, silent)
  PROVE  LET E     == Eligible(jobs[w].seen)
             saved == Saved(w, matches)
         IN  /\ saved \in Seq(Row)
             /\ \A i \in DOMAIN log :
                  /\ i \in DOMAIN saved
                  /\ \/ \E b \in E : saved[i] = Written(w, i, b)
                     \/ saved[i] = [log[i] EXCEPT !.claimed = TRUE]
             /\ \A i \in (DOMAIN saved) \ DOMAIN log :
                  \E b \in E : saved[i] = NewRow(jobs[w].seen, b, jobs[w].freezing)
<1> DEFINE seen     == jobs[w].seen
           freezing == jobs[w].freezing
           E        == Eligible(seen)
           adopted  == Adopted(w, matches)
           all      == matches \cup {m \in adopted : \A n \in matches : n[1] # m[1]}
           kept     == [i \in DOMAIN log |->
                          IF \E m \in all : m[1] = i THEN Written(w, i, (CHOOSE m \in all : m[1] = i)[2])
                          ELSE [log[i] EXCEPT !.claimed = TRUE]]
           B        == Unmatched(Fresh(w, matches), adopted)
           new      == {NewRow(seen, b, freezing) : b \in B}
           tail     == SetToSeq(new)
<1>1. /\ seen \subseteq DOMAIN balances /\ E \subseteq seen /\ freezing \in BOOLEAN
      /\ log \in Seq(Row) /\ jobs[w] \in Job
  BY DEF TypeInv, TypeOK, Job, Eligible
<1>2. B \subseteq E
  BY DEF Unmatched, Fresh
<1>3. ASSUME NEW m \in all
      PROVE  m[2] \in E
  <2>1. CASE m \in matches
    BY <2>1, MatchedInTime
  <2>2. CASE m \in adopted
    BY <2>2 DEF Adopted, Fresh, Unmatched
  <2>3. QED
    BY <2>1, <2>2
<1>4. ASSUME NEW i \in DOMAIN log
      PROVE  /\ kept[i] \in Row
             /\ \/ \E b \in E : kept[i] = Written(w, i, b)
                \/ kept[i] = [log[i] EXCEPT !.claimed = TRUE]
  <2>1. log[i] \in Row
    BY <1>1
  <2>2. CASE \E m \in all : m[1] = i
    <3> DEFINE b == (CHOOSE m \in all : m[1] = i)[2]
    <3>1. b \in E /\ kept[i] = Written(w, i, b)
      <4> HIDE DEF all
      <4>1. (CHOOSE m \in all : m[1] = i) \in all
        BY <2>2
      <4>2. QED
        BY <1>3, <2>2, <4>1
    <3> HIDE DEF b
    <3>2. Written(w, i, b) \in Row
      BY <1>1, <2>1, <3>1, UpdatedType DEF Written
    <3> HIDE DEF kept
    <3>3. QED
      BY <3>1, <3>2
  <2>3. CASE ~\E m \in all : m[1] = i
    <3>1. kept[i] = [log[i] EXCEPT !.claimed = TRUE]
      BY <2>3
    <3> HIDE DEF kept
    <3>2. QED
      BY <2>1, <3>1 DEF Row
  <2>4. QED
    BY <2>2, <2>3
<1> HIDE DEF all, kept
<1>5. kept \in Seq(Row) /\ Len(kept) = Len(log) /\ DOMAIN kept = DOMAIN log
  <2>1. DOMAIN kept = DOMAIN log /\ kept = [i \in DOMAIN log |-> kept[i]]
    BY DEF kept
  <2>2. DOMAIN log = 1..Len(log) /\ Len(log) \in Nat
    BY <1>1
  <2>3. kept \in [1..Len(log) -> Row]
    BY <1>4, <2>1, <2>2
  <2>4. QED
    BY <2>1, <2>2, <2>3
<1>6. \A row \in new : row \in Row
  BY <1>1, <1>2, NewRowType
<1>7. tail \in Seq(new)
  <2> DEFINE f == [b \in B |-> NewRow(seen, b, freezing)]
  <2>1. IsFiniteSet(DOMAIN balances)
    <3>1. DOMAIN balances = 1..Len(balances) /\ Len(balances) \in Int /\ 1 \in Int
      BY LedgerFacts
    <3>2. QED
      BY <3>1, FS_Interval
  <2>2. IsFiniteSet(B)
    BY <1>1, <1>2, <2>1, FS_Subset
  <2>3. f \in Surjection(B, new)
    BY DEF Surjection
  <2>4. IsFiniteSet(new)
    <3> HIDE DEF B, new, f
    <3>1. QED
      BY <2>2, <2>3, FS_Surjection
  <2>5. QED
    <3> HIDE DEF new
    <3>1. QED
      BY <2>4, Listed
<1>8. Saved(w, matches) = kept \o tail
  BY DEF Saved, all, kept
<1>9. ASSUME NEW row \in new
      PROVE  \E b \in E : row = NewRow(seen, b, freezing)
  BY <1>2
<1> HIDE DEF new, tail, E
<1>10. /\ kept \o tail \in Seq(Row) /\ Len(kept) \in Nat /\ Len(tail) \in Nat
       /\ \A i \in DOMAIN kept : i \in DOMAIN (kept \o tail) /\ (kept \o tail)[i] = kept[i]
       /\ \A i \in (DOMAIN (kept \o tail)) \ DOMAIN kept : (kept \o tail)[i] \in new
  <2>1. tail \in Seq(Row)
    BY <1>6, <1>7
  <2>2. \A i \in 1..Len(tail) : tail[i] \in new
    BY <1>7
  <2>3. /\ kept \o tail \in Seq(Row) /\ DOMAIN (kept \o tail) = 1..(Len(kept) + Len(tail))
        /\ \A i \in 1..(Len(kept) + Len(tail)) :
             (kept \o tail)[i] = IF i <= Len(kept) THEN kept[i] ELSE tail[i - Len(kept)]
    BY <1>5, <2>1
  <2>4. Len(kept) \in Nat /\ Len(tail) \in Nat /\ DOMAIN kept = 1..Len(kept)
    BY <1>5, <2>1
  <2>5. QED
    BY <2>2, <2>3, <2>4
<1>11. QED
  BY <1>4, <1>5, <1>8, <1>9, <1>10 DEF E

-----------------------------------------------------------------------------
(* The ledger changes.                                                     *)

(* Origin follows the replacements back.                                   *)
FollowsBack ==
  Traceable(Past) =>
    \A b \in DOMAIN balances :
      /\ Past[b] = NULL => Origin(b) = b
      /\ \A c \in DOMAIN balances : Past[b] # NULL /\ c = Past[b] => Origin(b) = Origin(c)

(* It does so before and after a step.                                     *)
LEMMA OriginFollows == FollowsBack
BY OriginTraces DEF FollowsBack

(* It does so after a step.                                                *)
LEMMA OriginFollowsNext == FollowsBack'
BY OriginFollows, PTL

(* Balances keep their origin whatever is created after them.              *)
LEMMA OriginStays ==
  ASSUME Traceable(Past), Traceable(Past)', DOMAIN balances \subseteq DOMAIN balances',
         \A b \in DOMAIN balances : balances'[b].previous = balances[b].previous
  PROVE  \A b \in DOMAIN balances : Origin(b)' = Origin(b)
<1> DEFINE old == [c \in DOMAIN balances |-> Origin(c)]
           new == [c \in DOMAIN balances |-> Origin(c)']
<1>1. DOMAIN Past = DOMAIN balances /\ \A b \in DOMAIN balances : Past[b] = balances[b].previous
  BY DEF Past
<1>2. \A b \in DOMAIN balances : Past'[b] = Past[b]
  BY <1>1 DEF Past
<1>3. \A b \in DOMAIN balances : Past[b] # NULL => Past[b] \in DOMAIN balances
  BY <1>1 DEF Traceable
<1>4. \A c \in DOMAIN Past : old[c] = IF Past[c] = NULL THEN c ELSE old[Past[c]]
  BY <1>1, <1>3, OriginFollows DEF FollowsBack
<1>5. \A b \in DOMAIN balances' :
        /\ Past'[b] = NULL => Origin(b)' = b
        /\ \A c \in DOMAIN balances' : Past'[b] # NULL /\ c = Past'[b] => Origin(b)' = Origin(c)'
  BY OriginFollowsNext DEF FollowsBack
<1>6. \A c \in DOMAIN Past : new[c] = IF Past[c] = NULL THEN c ELSE new[Past[c]]
  <2> TAKE c \in DOMAIN Past
  <2>1. Past'[c] = Past[c] /\ c \in DOMAIN balances'
    BY <1>1, <1>2
  <2>2. CASE Past[c] = NULL
    BY <1>1, <1>5, <2>1, <2>2
  <2>3. CASE Past[c] # NULL
    <3>1. PICK d \in DOMAIN balances : d = Past[c]
      BY <1>1, <1>3, <2>3
    <3>2. Origin(c)' = Origin(d)'
      BY <1>5, <2>1, <2>3, <3>1
    <3>3. QED
      BY <1>1, <2>3, <3>1, <3>2
  <2>4. QED
    BY <2>2, <2>3
<1> HIDE DEF old, new
<1>7. \A c \in DOMAIN Past : old[c] = new[c]
  BY <1>4, <1>6, TraceUnique
<1>8. QED
  BY <1>1, <1>7 DEF old, new

(* No step of a run touches the ledger.                                    *)
LEMMA RunsReadOnly ==
  ASSUME NEW w \in Workers, Run(w)
  PROVE  UNCHANGED world
BY DEF Run, StartUpdate, StartFreeze, Start, ReadOn, Save, SaveHalfBlind, SaveWith, Clash, Fail, Roll, world

(* The ledger grows: what is created replaces a balance there is, or none, *)
(* and what there is keeps its past.                                       *)
LEMMA LedgerStep ==
  ASSUME TypeInv, [Next]_vars
  PROVE  /\ balances' \in Seq(Balance) /\ Len(balances') <= MaxBalances
         /\ Traceable(Past)'
         /\ now' \in 0..MaxTime
         /\ DOMAIN balances \subseteq DOMAIN balances'
         /\ \A b \in DOMAIN balances :
              balances'[b].previous = balances[b].previous /\ balances'[b].created = balances[b].created
<1>1. /\ balances \in Seq(Balance) /\ now \in 0..MaxTime /\ Traceable(Past)
      /\ Len(balances) \in 0..MaxBalances /\ DOMAIN balances = 1..Len(balances)
      /\ MaxBalances \in Nat /\ MaxTime \in Nat
  BY LedgerFacts, IndexingAssumption DEF TypeInv, TypeOK
<1> DEFINE n == Len(balances)
<1>2. ASSUME UNCHANGED balances
      PROVE  /\ balances' \in Seq(Balance) /\ Len(balances') <= MaxBalances
             /\ Traceable(Past)'
             /\ DOMAIN balances \subseteq DOMAIN balances'
             /\ \A b \in DOMAIN balances :
                  balances'[b].previous = balances[b].previous /\ balances'[b].created = balances[b].created
  <2>1. Past' = Past
    BY <1>2 DEF Past
  <2>2. Traceable(Past)'
    BY <1>1, <2>1 DEF Traceable
  <2>3. QED
    BY <1>1, <1>2, <2>2
<1>3. ASSUME NEW old \in Seq(Balance), Len(old) = n, n < MaxBalances,
             \A b \in 1..n : old[b].previous = balances[b].previous /\ old[b].created = balances[b].created,
             NEW k \in Keys, NEW a \in Amounts, NEW from \in (1..n) \cup {NULL},
             balances' = Append(old, Created(k, a, from))
      PROVE  /\ balances' \in Seq(Balance) /\ Len(balances') <= MaxBalances
             /\ Traceable(Past)'
             /\ DOMAIN balances \subseteq DOMAIN balances'
             /\ \A b \in DOMAIN balances :
                  balances'[b].previous = balances[b].previous /\ balances'[b].created = balances[b].created
  <2> DEFINE new == Created(k, a, from)
  <2>1. new \in Balance /\ new.previous = from
    BY <1>1, <1>3 DEF Created, Balance, Ids
  <2> HIDE DEF new
  <2>2. balances' = Append(old, new)
    BY <1>3 DEF new
  <2>3. /\ balances' \in Seq(Balance) /\ Len(balances') = n + 1 /\ DOMAIN balances' = 1..(n + 1)
        /\ balances'[n + 1] = new /\ \A b \in 1..n : balances'[b] = old[b]
    BY <1>1, <1>3, <2>1, <2>2
  <2>4. DOMAIN Past' = 1..(n + 1) /\ \A b \in 1..(n + 1) : Past'[b] = balances'[b].previous
    BY <2>3 DEF Past
  <2>5. \A b \in 1..n : balances[b].previous # NULL => balances[b].previous \in 1..n /\ balances[b].previous < b
    BY <1>1 DEF Traceable, Past
  <2>6. ASSUME NEW b \in 1..(n + 1), Past'[b] # NULL
        PROVE  Past'[b] \in 1..(n + 1) /\ Past'[b] < b
    <3>1. CASE b = n + 1
      <4>1. Past'[b] \in 1..n
        BY <2>1, <2>3, <2>4, <2>6, <3>1
      <4>2. QED
        BY <1>1, <3>1, <4>1
    <3>2. CASE b # n + 1
      <4>1. b \in 1..n
        BY <1>1, <3>2
      <4>2. Past'[b] = balances[b].previous
        BY <1>3, <2>3, <2>4, <4>1
      <4>3. QED
        BY <1>1, <2>5, <2>6, <4>1, <4>2
    <3>3. QED
      BY <3>1, <3>2
  <2>7. n + 1 \in Nat
    BY <1>1
  <2>8. Traceable(Past)'
    BY <2>4, <2>6, <2>7 DEF Traceable
  <2>9. QED
    BY <1>1, <1>3, <2>3, <2>8
<1>4. CASE UNCHANGED world \/ Tick
  <2>1. UNCHANGED balances /\ now' \in 0..MaxTime
    <3>1. CASE UNCHANGED world
      BY <1>1, <3>1 DEF world
    <3>2. CASE Tick
      <4>1. UNCHANGED balances /\ now < MaxTime /\ now' = now + 1
        BY <3>2 DEF Tick
      <4>2. now \in 0..MaxTime /\ MaxTime \in Nat
        BY <1>1
      <4>3. QED
        BY <4>1, <4>2
    <3>3. QED
      BY <1>4, <3>1, <3>2
  <2> HIDE DEF n
  <2>2. QED
    BY <1>2, <2>1
<1>5. ASSUME NEW k \in Keys, NEW a \in Stakes, Cast(k, a)
      PROVE  UNCHANGED now /\ n < MaxBalances /\ balances' = Append(balances, Created(k, a, NULL)) /\ a \in Amounts
  BY <1>5 DEF Cast, Change, Amounts
<1>6. ASSUME NEW b \in Ids, NEW a \in Amounts, Melt(b, a)
      PROVE  LET old == [balances EXCEPT ![b].live = FALSE]
             IN  /\ UNCHANGED now /\ n < MaxBalances /\ b \in 1..n
                 /\ balances' = Append(old, Created(balances[b].key, a, b))
                 /\ old \in Seq(Balance) /\ Len(old) = n
                 /\ \A c \in 1..n : old[c].previous = balances[c].previous /\ old[c].created = balances[c].created
                 /\ balances[b].key \in Keys
  <2>1. UNCHANGED now /\ n < MaxBalances /\ b \in 1..n
    BY <1>1, <1>6 DEF Melt, Change
  <2>2. balances' = Append([balances EXCEPT ![b].live = FALSE], Created(balances[b].key, a, b))
    BY <1>6 DEF Melt, Change
  <2>3. balances[b] \in Balance
    BY <1>1, <2>1
  <2>4. [balances[b] EXCEPT !.live = FALSE] \in Balance
    BY <2>3 DEF Balance
  <2>5. QED
    BY <1>1, <2>1, <2>2, <2>3, <2>4 DEF Balance
<1>7. ASSUME NEW b \in Ids, Claim(b)
      PROVE  /\ UNCHANGED now
             /\ balances' \in Seq(Balance) /\ Len(balances') = n
             /\ \A c \in 1..n : balances'[c].previous = balances[c].previous /\ balances'[c].created = balances[c].created
  <2>1. UNCHANGED now /\ b \in 1..n /\ balances' = [balances EXCEPT ![b].live = FALSE]
    BY <1>1, <1>7 DEF Claim, Change
  <2>2. balances[b] \in Balance
    BY <1>1, <2>1
  <2>3. [balances[b] EXCEPT !.live = FALSE] \in Balance
    BY <2>2 DEF Balance
  <2>4. QED
    BY <1>1, <2>1, <2>2, <2>3 DEF Balance
<1>8. ASSUME NEW k \in Keys, NEW a \in Stakes, Cast(k, a)
      PROVE  /\ balances' \in Seq(Balance) /\ Len(balances') <= MaxBalances
             /\ Traceable(Past)' /\ UNCHANGED now
             /\ DOMAIN balances \subseteq DOMAIN balances'
             /\ \A b \in DOMAIN balances :
                  balances'[b].previous = balances[b].previous /\ balances'[b].created = balances[b].created
  <2> HIDE DEF n
  <2>1. Len(balances) = n
    BY DEF n
  <2>2. QED
    BY <1>1, <1>3, <1>5, <1>8, <2>1
<1>9. ASSUME NEW b \in Ids, NEW a \in Amounts, Melt(b, a)
      PROVE  /\ balances' \in Seq(Balance) /\ Len(balances') <= MaxBalances
             /\ Traceable(Past)' /\ UNCHANGED now
             /\ DOMAIN balances \subseteq DOMAIN balances'
             /\ \A c \in DOMAIN balances :
                  balances'[c].previous = balances[c].previous /\ balances'[c].created = balances[c].created
  <2> DEFINE old == [balances EXCEPT ![b].live = FALSE]
  <2>1. /\ UNCHANGED now /\ n < MaxBalances /\ b \in (1..n) \cup {NULL}
        /\ balances' = Append(old, Created(balances[b].key, a, b))
        /\ old \in Seq(Balance) /\ Len(old) = n
        /\ \A c \in 1..n : old[c].previous = balances[c].previous /\ old[c].created = balances[c].created
        /\ balances[b].key \in Keys
    BY <1>6, <1>9
  <2> HIDE DEF old, n
  <2>2. QED
    BY <1>3, <2>1
<1>10. ASSUME NEW b \in Ids, Claim(b)
       PROVE  /\ balances' \in Seq(Balance) /\ Len(balances') <= MaxBalances
              /\ Traceable(Past)' /\ UNCHANGED now
              /\ DOMAIN balances \subseteq DOMAIN balances'
              /\ \A c \in DOMAIN balances :
                   balances'[c].previous = balances[c].previous /\ balances'[c].created = balances[c].created
  <2>1. /\ UNCHANGED now /\ balances' \in Seq(Balance) /\ Len(balances') = n
        /\ \A c \in 1..n : balances'[c].previous = balances[c].previous /\ balances'[c].created = balances[c].created
    BY <1>7, <1>10
  <2>2. DOMAIN balances' = DOMAIN balances
    BY <1>1, <2>1
  <2>3. DOMAIN Past' = DOMAIN Past /\ \A c \in DOMAIN Past : Past'[c] = Past[c]
    BY <1>1, <2>1, <2>2 DEF Past
  <2>4. Traceable(Past)'
    BY <1>1, <2>3 DEF Traceable
  <2>5. QED
    BY <1>1, <2>1, <2>2, <2>4
<1>11. QED
  BY <1>1, <1>4, <1>8, <1>9, <1>10, RunsReadOnly DEF Next, World, EndVote, vars, world

(* The table changes in a save only.                                       *)
LEMMA OnlySavesWrite ==
  ASSUME [Next]_vars
  PROVE  UNCHANGED log \/ \E w \in Workers, silent \in SUBSET DOMAIN balances : SaveWith(w, silent)
<1>1. CASE World \/ EndVote \/ UNCHANGED vars
  BY <1>1 DEF World, Tick, Cast, Claim, Melt, Change, EndVote, vars
<1>2. ASSUME NEW w \in Workers, Run(w)
      PROVE  UNCHANGED log \/ \E silent \in SUBSET DOMAIN balances : SaveWith(w, silent)
  <2>1. CASE Save(w)
    <3>1. SaveWith(w, {})
      BY <2>1 DEF Save
    <3>2. QED
      BY <3>1
  <2>2. CASE SaveHalfBlind(w)
    <3>1. PICK b \in DOMAIN balances : SaveWith(w, {b})
      BY <2>2 DEF SaveHalfBlind
    <3>2. QED
      BY <3>1
  <2>3. QED
    BY <1>2, <2>1, <2>2 DEF Run, StartUpdate, StartFreeze, Start, ReadOn, Clash, Fail, Roll
<1>3. QED
  BY <1>1, <1>2 DEF Next

(* A page adds balances of the ledger to what a run has seen.              *)
LEMMA PageType ==
  ASSUME TypeInv, NEW w \in Workers, NEW job \in Job, job.seen \subseteq DOMAIN balances, ReadPage(w, job)
  PROVE  /\ jobs' = [jobs EXCEPT ![w] = jobs'[w]]
         /\ jobs'[w] \in Job
         /\ jobs'[w].seen \subseteq DOMAIN balances
         /\ jobs'[w].freezing = job.freezing
<1> DEFINE page == {b \in DOMAIN balances : balances[b].live /\ b > job.cursor}
<1>1. jobs \in [Workers -> Job] /\ log \in Seq(Row) /\ DOMAIN balances \subseteq Ids /\ MaxBalances \in Nat
  BY LedgerFacts, IndexingAssumption DEF TypeInv, TypeOK
<1>2. page # {} => Max(page) \in page
  <2> HIDE DEF page
  <2>1. page \subseteq DOMAIN balances
    BY DEF page
  <2>2. QED
    BY <2>1, PageEnd
<1>3. CASE page = {}
  <2> DEFINE next == [job EXCEPT !.pc = "matching", !.cursor = 0, !.rows = log]
  <2>1. jobs' = [jobs EXCEPT ![w] = next]
    BY <1>3 DEF ReadPage, Goes
  <2> HIDE DEF page
  <2>2. log \in Seq(Row) /\ 0 \in 0..MaxBalances
    BY <1>1
  <2>3. next \in Job /\ next.seen = job.seen /\ next.freezing = job.freezing
    BY <2>2 DEF Job
  <2> HIDE DEF next
  <2>4. QED
    BY <1>1, <2>1, <2>3
<1>4. CASE page # {}
  <2> DEFINE next == [job EXCEPT !.pc = "reading", !.seen = @ \cup page, !.cursor = Max(page)]
  <2>1. jobs' = [jobs EXCEPT ![w] = next]
    BY <1>4 DEF ReadPage, Goes
  <2>2. Max(page) \in 0..MaxBalances /\ page \subseteq Ids /\ page \subseteq DOMAIN balances
    BY <1>1, <1>2, <1>4 DEF Ids
  <2> HIDE DEF page
  <2>3. next \in Job /\ next.seen = job.seen \cup page /\ next.freezing = job.freezing
    BY <1>1, <2>2 DEF Job
  <2> HIDE DEF next
  <2>4. QED
    BY <1>1, <2>1, <2>2, <2>3
<1>5. QED
  BY <1>3, <1>4

(* A worker without a run. *)
LEMMA IdleType == IdleJob \in Job /\ IdleJob.seen = {} /\ ~IdleJob.freezing /\ IdleJob.pc = "idle"
BY IndexingAssumption DEF IdleJob, Job

(* What becomes of the workers in a step of a run.                         *)
LEMMA RunType ==
  ASSUME TypeInv, NEW w \in Workers, Run(w)
  PROVE  /\ jobs' = [jobs EXCEPT ![w] = jobs'[w]]
         /\ jobs'[w] \in Job
         /\ jobs'[w].seen \subseteq DOMAIN balances
<1>1. jobs \in [Workers -> Job] /\ jobs[w] \in Job /\ jobs[w].seen \subseteq DOMAIN balances
  BY DEF TypeInv, TypeOK
<1>2. ASSUME NEW freezing \in BOOLEAN, Start(w, freezing)
      PROVE  /\ jobs' = [jobs EXCEPT ![w] = jobs'[w]] /\ jobs'[w] \in Job
             /\ jobs'[w].seen \subseteq DOMAIN balances
  <2> DEFINE job == [IdleJob EXCEPT !.freezing = freezing]
  <2>1. ReadPage(w, job)
    BY <1>2 DEF Start
  <2>2. job \in Job /\ job.seen = {}
    BY <1>2, IdleType DEF Job
  <2> HIDE DEF job
  <2>3. QED
    BY <2>1, <2>2, PageType
<1>3. ASSUME Goes(w, IdleJob)
      PROVE  /\ jobs' = [jobs EXCEPT ![w] = jobs'[w]] /\ jobs'[w] \in Job
             /\ jobs'[w].seen \subseteq DOMAIN balances
  BY <1>1, <1>3, IdleType DEF Goes
<1>4. CASE ReadOn(w)
  BY <1>1, <1>4, PageType DEF ReadOn
<1>5. QED
  BY <1>2, <1>3, <1>4 DEF Run, StartUpdate, StartFreeze, Save, SaveHalfBlind, SaveWith, Clash, Fail, Roll

(* The table stays a table of rows about balances of the ledger.           *)
LEMMA LogStep ==
  ASSUME TypeInv, [Next]_vars
  PROVE  /\ log' \in Seq(Row)
         /\ \A i \in DOMAIN log' : log'[i].balance \in DOMAIN balances /\ log'[i].origin \in DOMAIN balances
<1>1. /\ log \in Seq(Row)
      /\ \A i \in DOMAIN log : log[i].balance \in DOMAIN balances /\ log[i].origin \in DOMAIN balances
  BY DEF TypeInv, TypeOK
<1>2. ASSUME NEW w \in Workers, NEW silent, SaveWith(w, silent)
      PROVE  /\ log' \in Seq(Row)
             /\ \A i \in DOMAIN log' : log'[i].balance \in DOMAIN balances /\ log'[i].origin \in DOMAIN balances
  <2>1. PICK matches \in AllMatches(w, silent) : log' = Saved(w, matches)
    BY <1>2 DEF SaveWith
  <2> DEFINE seen == jobs[w].seen
  <2>2. seen \subseteq DOMAIN balances /\ Eligible(seen) \subseteq seen /\ jobs[w].freezing \in BOOLEAN
    BY DEF TypeInv, TypeOK, Eligible, Job
  <2>3. log' \in Seq(Row)
    BY <2>1, SavedRows
  <2>4. ASSUME NEW i \in DOMAIN log
        PROVE  log'[i].balance \in DOMAIN balances /\ log'[i].origin \in DOMAIN balances
    <3>1. log[i] \in Row
      BY <1>1
    <3>2. ASSUME NEW b \in Eligible(seen), log'[i] = Written(w, i, b)
          PROVE  log'[i].balance \in DOMAIN balances /\ log'[i].origin \in DOMAIN balances
      BY <1>1, <2>2, <3>1, <3>2, UpdatedType DEF Written
    <3>3. ASSUME log'[i] = [log[i] EXCEPT !.claimed = TRUE]
          PROVE  log'[i].balance \in DOMAIN balances /\ log'[i].origin \in DOMAIN balances
      BY <1>1, <3>1, <3>3 DEF Row
    <3>4. QED
      BY <2>1, <3>2, <3>3, SavedRows
  <2>5. ASSUME NEW i \in (DOMAIN log') \ DOMAIN log
        PROVE  log'[i].balance \in DOMAIN balances /\ log'[i].origin \in DOMAIN balances
    <3>1. PICK b \in Eligible(seen) : log'[i] = NewRow(seen, b, jobs[w].freezing)
      BY <2>1, SavedRows
    <3>2. QED
      BY <2>2, <3>1, OriginType DEF NewRow
  <2>6. QED
    BY <2>3, <2>4, <2>5
<1>3. QED
  BY <1>1, <1>2, OnlySavesWrite

(* At first there is nothing.                                              *)
LEMMA TypeInit == Init => TypeInv
<1> SUFFICES ASSUME Init PROVE TypeInv
  OBVIOUS
<1>1. TypeOK
  BY IdleType, IndexingAssumption DEF Init, TypeOK
<1>2. DOMAIN balances = 1..0 /\ Len(balances) = 0 /\ DOMAIN log = {} /\ 0 <= MaxBalances
  BY IndexingAssumption DEF Init
<1>3. DOMAIN Past = 1..0
  BY <1>2 DEF Past
<1>4. Traceable(Past)
  BY <1>3 DEF Traceable
<1>5. \A w \in Workers : jobs[w].seen \subseteq DOMAIN balances
  BY IdleType DEF Init
<1>6. QED
  BY <1>1, <1>2, <1>4, <1>5 DEF TypeInv

(* Every step keeps the types.                                             *)
LEMMA TypeStep == TypeInv /\ [Next]_vars => TypeInv'
<1> SUFFICES ASSUME TypeInv, [Next]_vars PROVE TypeInv'
  OBVIOUS
<1>1. /\ jobs \in [Workers -> Job] /\ \A w \in Workers : jobs[w].seen \subseteq DOMAIN balances
      /\ freeze \in {"none", "queued", "running", "done", "given up"}
      /\ retries \in 0..MaxRetries /\ failures \in 0..MaxFailures /\ calm \in BOOLEAN
      /\ MaxRetries \in Nat /\ MaxFailures \in Nat
  BY IndexingAssumption DEF TypeInv, TypeOK
<1>2. /\ balances' \in Seq(Balance) /\ Len(balances') <= MaxBalances /\ Traceable(Past)'
      /\ now' \in 0..MaxTime /\ DOMAIN balances \subseteq DOMAIN balances'
  BY LedgerStep
<1>3. /\ jobs' \in [Workers -> Job]
      /\ \A w \in Workers : jobs'[w].seen \subseteq DOMAIN balances
  <2>1. CASE UNCHANGED jobs
    BY <1>1, <2>1
  <2>2. ASSUME NEW w \in Workers, Run(w)
        PROVE  /\ jobs' \in [Workers -> Job]
               /\ \A v \in Workers : jobs'[v].seen \subseteq DOMAIN balances
    BY <1>1, <2>2, RunType
  <2>3. QED
    BY <2>1, <2>2 DEF Next, World, Tick, Cast, Claim, Melt, Change, EndVote, vars
<1>4. freeze' \in {"none", "queued", "running", "done", "given up"} /\ calm' \in BOOLEAN
  <2>1. CASE UNCHANGED <<freeze, calm>>
    BY <1>1, <2>1
  <2>2. CASE World \/ EndVote
    BY <1>1, <2>2 DEF World, Tick, Cast, Claim, Melt, Change, EndVote
  <2>3. ASSUME NEW w \in Workers, Run(w)
        PROVE  freeze' \in {"none", "queued", "running", "done", "given up"} /\ calm' \in BOOLEAN
    BY <1>1, <2>3 DEF Run, StartUpdate, StartFreeze, Start, ReadOn, Save, SaveHalfBlind, SaveWith, Clash, Fail, Roll
  <2>4. QED
    BY <2>1, <2>2, <2>3 DEF Next, vars
<1>5. retries' \in 0..MaxRetries /\ failures' \in 0..MaxFailures
  <2>1. ASSUME NEW w \in Workers, Run(w)
        PROVE  /\ UNCHANGED retries \/ (retries < MaxRetries /\ retries' = retries + 1)
               /\ UNCHANGED failures \/ (failures < MaxFailures /\ failures' = failures + 1)
    BY <2>1 DEF Run, StartUpdate, StartFreeze, Start, ReadOn, Save, SaveHalfBlind, SaveWith, Clash, Fail, Roll
  <2>2. /\ UNCHANGED retries \/ (retries < MaxRetries /\ retries' = retries + 1)
        /\ UNCHANGED failures \/ (failures < MaxFailures /\ failures' = failures + 1)
    BY <2>1 DEF Next, World, Tick, Cast, Claim, Melt, Change, EndVote, vars
  <2>3. retries' \in 0..MaxRetries
    <3>1. retries \in 0..MaxRetries /\ MaxRetries \in Nat
      BY <1>1
    <3>2. QED
      BY <2>2, <3>1
  <2>4. failures' \in 0..MaxFailures
    <3>1. failures \in 0..MaxFailures /\ MaxFailures \in Nat
      BY <1>1
    <3>2. QED
      BY <2>2, <3>1
  <2>5. QED
    BY <2>3, <2>4
<1>6. /\ log' \in Seq(Row)
      /\ \A i \in DOMAIN log' : log'[i].balance \in DOMAIN balances' /\ log'[i].origin \in DOMAIN balances'
  BY <1>2, LogStep
<1>7. QED
  BY <1>2, <1>3, <1>4, <1>5, <1>6 DEF TypeInv, TypeOK

(* TypeOK: ledger, table, runs and the message that freezes stay within    *)
(* their types; positions stay below the number of balances, and every row *)
(* is about a balance there is.                                            *)
THEOREM IndexingTypes == Spec => []TypeOK
<1>1. TypeInv => TypeOK
  BY DEF TypeInv
<1>2. QED
  BY <1>1, TypeInit, TypeStep, PTL DEF Spec

-----------------------------------------------------------------------------
(* Votes in time.                                                          *)

(* OnlyInTime, of every balance a row names.                               *)
RowsInTime ==
  \A i \in Rows, b \in DOMAIN balances :
    /\ b = log[i].balance => InTime(b)
    /\ b = log[i].origin => balances[b].created <= EndAt

(* A row about a vote in time, whoever writes it, replaces no other vote   *)
(* than one in time.                                                       *)
LEMMA TimeStep == TypeInv /\ RowsInTime /\ [Next]_vars => RowsInTime'
<1> SUFFICES ASSUME TypeInv, RowsInTime, [Next]_vars PROVE RowsInTime'
  OBVIOUS
<1>1. TypeInv' /\ Traceable(Past) /\ Traceable(Past)'
  BY TypeStep DEF TypeInv
<1>2. /\ DOMAIN balances \subseteq DOMAIN balances'
      /\ \A b \in DOMAIN balances :
           balances'[b].previous = balances[b].previous /\ balances'[b].created = balances[b].created
  BY LedgerStep
<1>3. ASSUME NEW b \in DOMAIN balances
      PROVE  InTime(b)' <=> InTime(b)
  <2>1. Origin(b)' = Origin(b) /\ Origin(b) \in DOMAIN balances
    BY <1>1, <1>2, OriginStays, OriginType
  <2>2. QED
    BY <1>2, <2>1 DEF InTime
<1>4. ASSUME NEW i \in DOMAIN log'
      PROVE  log'[i].balance \in DOMAIN balances /\ log'[i].origin \in DOMAIN balances
  BY LogStep
<1>5. ASSUME NEW i \in DOMAIN log'
      PROVE  InTime(log'[i].balance) /\ balances[log'[i].origin].created <= EndAt
  <2>1. ASSUME NEW j \in DOMAIN log
        PROVE  InTime(log[j].balance) /\ balances[log[j].origin].created <= EndAt
    BY DEF RowsInTime, Rows, TypeInv
  <2>2. CASE UNCHANGED log
    BY <2>1, <2>2
  <2>3. ASSUME NEW w \in Workers, NEW silent, SaveWith(w, silent)
        PROVE  InTime(log'[i].balance) /\ balances[log'[i].origin].created <= EndAt
    <3> DEFINE seen == jobs[w].seen
    <3>1. PICK matches \in AllMatches(w, silent) : log' = Saved(w, matches)
      BY <2>3 DEF SaveWith
    <3>2. /\ seen \subseteq DOMAIN balances /\ Eligible(seen) \subseteq seen /\ jobs[w].freezing \in BOOLEAN
          /\ log \in Seq(Row)
          /\ \A b \in Eligible(seen) : InTime(b)
      BY DEF TypeInv, TypeOK, Eligible, Job
    <3>3. CASE i \in DOMAIN log
      <4>1. log[i] \in Row
        BY <3>2, <3>3
      <4>2. ASSUME NEW b \in Eligible(seen), log'[i] = Written(w, i, b)
            PROVE  log'[i].balance = b /\ log'[i].origin = log[i].origin
        BY <3>2, <4>1, <4>2, UpdatedType DEF Written
      <4>3. ASSUME log'[i] = [log[i] EXCEPT !.claimed = TRUE]
            PROVE  log'[i].balance = log[i].balance /\ log'[i].origin = log[i].origin
        BY <4>1, <4>3 DEF Row
      <4>4. (\E b \in Eligible(seen) : log'[i] = Written(w, i, b)) \/ log'[i] = [log[i] EXCEPT !.claimed = TRUE]
        <5>1. \/ \E b \in Eligible(seen) : Saved(w, matches)[i] = Written(w, i, b)
              \/ Saved(w, matches)[i] = [log[i] EXCEPT !.claimed = TRUE]
          <6> HIDE DEF seen
          <6>1. seen = jobs[w].seen
            BY DEF seen
          <6>2. QED
            BY <3>3, <6>1, SavedRows
        <5>2. QED
          BY <3>1, <5>1
      <4>5. QED
        BY <2>1, <3>2, <3>3, <4>2, <4>3, <4>4
    <3>4. CASE i \notin DOMAIN log
      <4>1. PICK b \in Eligible(seen) : log'[i] = NewRow(seen, b, jobs[w].freezing)
        BY <3>1, <3>4, SavedRows
      <4>2. log'[i].balance = b /\ log'[i].origin = Origin(b)
        BY <4>1 DEF NewRow
      <4>3. QED
        BY <3>2, <4>2 DEF InTime
    <3>5. QED
      BY <3>3, <3>4
  <2>4. QED
    BY <2>2, <2>3, OnlySavesWrite
<1>6. ASSUME NEW i \in DOMAIN log', NEW b \in DOMAIN balances'
      PROVE  /\ b = log'[i].balance => InTime(b)'
             /\ b = log'[i].origin => balances'[b].created <= EndAt
  <2>1. b = log'[i].balance => InTime(b)'
    BY <1>3, <1>4, <1>5
  <2>2. b = log'[i].origin => balances'[b].created <= EndAt
    BY <1>2, <1>4, <1>5
  <2>3. QED
    BY <2>1, <2>2
<1>7. QED
  BY <1>6 DEF RowsInTime, Rows

(* OnlyInTime: whatever runs meet, however often votes melt and whatever   *)
(* Horizon leaves open, no row counts or dates a vote cast after the end.  *)
THEOREM CountedInTime == Spec => []OnlyInTime
<1>1. Init => RowsInTime
  BY DEF Init, RowsInTime, Rows
<1>2. TypeInv /\ RowsInTime => OnlyInTime
  BY DEF TypeInv, RowsInTime, OnlyInTime, InTime, Rows
<1>3. QED
  BY <1>1, <1>2, TypeInit, TypeStep, TimeStep, PTL DEF Spec

-----------------------------------------------------------------------------
(* Frozen votes.                                                           *)

(* At most one run freezes, and the message says that it is running.       *)
OneFreeze ==
  \A w \in Workers : jobs[w].freezing =>
    /\ freeze = "running"
    /\ \A v \in Workers : jobs[v].freezing => v = w

(* No row is weighed before the freeze is done.                            *)
Unweighed == freeze # "done" => \A i \in Rows : log[i].voted = NULL

FreezeInv == OneFreeze /\ Unweighed

(* A freeze that is running is not started again, and one that is done is  *)
(* not repeated.                                                           *)
LEMMA OneFreezeStep ==
  ASSUME TypeInv, OneFreeze, [Next]_vars
  PROVE  OneFreeze'
<1>1. jobs \in [Workers -> Job]
  BY DEF TypeInv, TypeOK
<1>2. ASSUME NEW w \in Workers, NEW job, jobs' = [jobs EXCEPT ![w] = job], ~job.freezing,
             UNCHANGED freeze \/ jobs[w].freezing
      PROVE  OneFreeze'
  BY <1>1, <1>2 DEF OneFreeze
<1>3. CASE UNCHANGED jobs /\ (UNCHANGED freeze \/ freeze = "none")
  BY <1>3 DEF OneFreeze
<1>4. ASSUME NEW w \in Workers, NEW freezing \in BOOLEAN, Start(w, freezing)
      PROVE  jobs' = [jobs EXCEPT ![w] = jobs'[w]] /\ jobs'[w].freezing = freezing
  <2> DEFINE job == [IdleJob EXCEPT !.freezing = freezing]
  <2>1. ReadPage(w, job)
    BY <1>4 DEF Start
  <2>2. job \in Job /\ job.seen = {} /\ job.freezing = freezing
    BY <1>4, IdleType DEF Job
  <2> HIDE DEF job
  <2>3. QED
    BY <2>1, <2>2, PageType
<1>5. ASSUME NEW w \in Workers, Run(w)
      PROVE  OneFreeze'
  <2>1. CASE StartUpdate(w)
    <3>1. jobs' = [jobs EXCEPT ![w] = jobs'[w]] /\ ~jobs'[w].freezing /\ UNCHANGED freeze
      BY <1>4, <2>1 DEF StartUpdate
    <3>2. QED
      BY <1>2, <3>1
  <2>2. CASE StartFreeze(w)
    <3>1. jobs' = [jobs EXCEPT ![w] = jobs'[w]] /\ freeze = "queued" /\ freeze' = "running"
      BY <1>4, <2>2 DEF StartFreeze
    <3>2. QED
      BY <1>1, <3>1 DEF OneFreeze
  <2>3. CASE ReadOn(w)
    <3>1. jobs' = [jobs EXCEPT ![w] = jobs'[w]] /\ jobs'[w].freezing = jobs[w].freezing /\ UNCHANGED freeze
      <4>1. jobs[w] \in Job /\ jobs[w].seen \subseteq DOMAIN balances /\ ReadPage(w, jobs[w]) /\ UNCHANGED freeze
        BY <1>1, <2>3 DEF ReadOn, TypeInv
      <4>2. QED
        BY <4>1, PageType
    <3>2. QED
      BY <1>1, <3>1 DEF OneFreeze
  <2>4. CASE Save(w) \/ SaveHalfBlind(w) \/ Clash(w) \/ Fail(w)
    <3>1. jobs' = [jobs EXCEPT ![w] = IdleJob] /\ (UNCHANGED freeze \/ jobs[w].freezing)
      BY <2>4 DEF Save, SaveHalfBlind, SaveWith, Clash, Fail, Roll, Goes
    <3>2. QED
      BY <1>2, <3>1, IdleType
  <2>5. QED
    BY <1>5, <2>1, <2>2, <2>3, <2>4 DEF Run
<1>6. QED
  BY <1>3, <1>5 DEF Next, World, Tick, Cast, Claim, Melt, Change, EndVote, vars

(* Only the run that freezes weighs rows.                                  *)
LEMMA WeighedOnce ==
  ASSUME TypeInv, FreezeInv, [Next]_vars
  PROVE  /\ \A i \in Rows : log[i].voted # NULL => log'[i].voted = log[i].voted
         /\ freeze' # "done" => \A i \in DOMAIN log' : log'[i].voted = NULL
<1>1. log \in Seq(Row)
  BY DEF TypeInv, TypeOK
<1>2. ASSUME NEW w \in Workers, NEW silent, SaveWith(w, silent), ~jobs[w].freezing
      PROVE  /\ freeze' = freeze
             /\ \A i \in DOMAIN log : log'[i].voted = log[i].voted
             /\ \A i \in (DOMAIN log') \ DOMAIN log : log'[i].voted = NULL
  <2> DEFINE seen == jobs[w].seen
  <2>1. PICK matches \in AllMatches(w, silent) : log' = Saved(w, matches)
    BY <1>2 DEF SaveWith
  <2>2. seen \subseteq DOMAIN balances /\ Eligible(seen) \subseteq seen /\ jobs[w].freezing \in BOOLEAN
    BY DEF TypeInv, TypeOK, Eligible, Job
  <2>3. ASSUME NEW i \in DOMAIN log
        PROVE  log'[i].voted = log[i].voted
    <3>1. log[i] \in Row
      BY <1>1
    <3>2. ASSUME NEW b \in Eligible(seen), log'[i] = Written(w, i, b)
          PROVE  log'[i].voted = log[i].voted
      BY <1>2, <2>2, <3>1, <3>2, UpdatedType DEF Written
    <3>3. ASSUME log'[i] = [log[i] EXCEPT !.claimed = TRUE]
          PROVE  log'[i].voted = log[i].voted
      BY <3>1, <3>3 DEF Row
    <3>4. QED
      BY <2>1, <3>2, <3>3, SavedRows
  <2>4. ASSUME NEW i \in (DOMAIN log') \ DOMAIN log
        PROVE  log'[i].voted = NULL
    <3>1. PICK b \in Eligible(seen) : log'[i] = NewRow(seen, b, jobs[w].freezing)
      BY <2>1, SavedRows
    <3>2. QED
      BY <1>2, <3>1 DEF NewRow
  <2>5. freeze' = freeze
    BY <1>2 DEF SaveWith
  <2>6. QED
    BY <2>3, <2>4, <2>5
<1>3. ASSUME NEW w \in Workers, NEW silent, SaveWith(w, silent), jobs[w].freezing
      PROVE  freeze' = "done" /\ \A i \in Rows : log[i].voted = NULL
  BY <1>3 DEF SaveWith, FreezeInv, OneFreeze, Unweighed
<1>4. CASE UNCHANGED log
  <2>1. freeze = "done" => freeze' = "done"
    <3>1. ASSUME NEW w \in Workers, Run(w), freeze = "done"
          PROVE  freeze' = "done"
      BY <3>1 DEF Run, StartUpdate, StartFreeze, Start, ReadOn, Save, SaveHalfBlind, SaveWith, Clash, Fail, Roll,
                  FreezeInv, OneFreeze
    <3>2. QED
      BY <3>1 DEF Next, World, Tick, Cast, Claim, Melt, Change, EndVote, vars
  <2>2. QED
    BY <1>4, <2>1 DEF FreezeInv, Unweighed, Rows
<1>5. QED
  BY <1>2, <1>3, <1>4, OnlySavesWrite DEF FreezeInv, Unweighed, Rows

(* FrozenStays: a weight that the freeze of a tally has written is final,  *)
(* whatever updates were under way.                                        *)
THEOREM FrozenForGood == Spec => FrozenStays
<1>1. Init => FreezeInv
  BY IdleType DEF Init, FreezeInv, OneFreeze, Unweighed, Rows
<1>2. TypeInv /\ FreezeInv /\ [Next]_vars => FreezeInv'
  BY OneFreezeStep, WeighedOnce DEF FreezeInv, Unweighed, Rows
<1>3. TypeInv /\ FreezeInv /\ [Next]_vars =>
        [\A i \in Rows : log[i].voted # NULL => log'[i].voted = log[i].voted]_vars
  BY WeighedOnce
<1>4. QED
  BY <1>1, <1>2, <1>3, TypeInit, TypeStep, PTL DEF Spec, FrozenStays
=============================================================================
