------------------------------- MODULE LoanProofs -----------------------------
(***************************************************************************)
(* Theorems about what is computed of a loan: the terms it is serviced on, *)
(* the age of what is unpaid, and the schedule that repays it.  They hold  *)
(* for any number of requests and installments and for any amounts, dates  *)
(* and terms.  The lemmas about sums serve DisbursementProofs too.         *)
(***************************************************************************)
EXTENDS LoanServicing, Collections, Amortization, FiniteSetTheorems,
        SequenceTheorems, WellFoundedInduction, TLAPS

-------------------------------------------------------------------------------
(* Sums.                                                                   *)

(* A set of numbers has a least one.                                       *)
LEMMA LeastNumber ==
    ASSUME NEW T \in SUBSET Nat, T # {}
    PROVE  \E m \in T : \A n \in T : m <= n
<1>1. \E m \in T : \A n \in T : ~ (n < m)
  <2>1. \E m \in T : \A n \in T : ~ (<<n, m>> \in OpToRel(<, Nat))
    BY WFMin, NatLessThanWellFounded
  <2>2. QED
    BY <2>1 DEF OpToRel
<1>2. QED
  BY <1>1

(* c picks an element of every set that has one; g adds f up along c: what *)
(* the recursion of the community modules' folds computes, for one f.      *)
Picks(c, S) == \A s \in SUBSET S : s # {} => c[s] \in s

SumAt(g, f, c, s) == IF s = {} THEN 0 ELSE f[c[s]] + g[s \ {c[s]}]

AddsUp(g, f, c, S) ==
    /\ g \in [SUBSET S -> Int]
    /\ \A s \in SUBSET S : g[s] = SumAt(g, f, c, s)

(* Without its pick, a finite set is smaller by one.                       *)
LEMMA SmallerByOne ==
    ASSUME NEW S, IsFiniteSet(S), NEW c, Picks(c, S),
           NEW s \in SUBSET S, s # {}
    PROVE  /\ c[s] \in s
           /\ s \ {c[s]} \in SUBSET S
           /\ Cardinality(s) \in Nat
           /\ Cardinality(s) > 0
           /\ Cardinality(s \ {c[s]}) = Cardinality(s) - 1
<1>1. c[s] \in s
  BY DEF Picks
<1>2. IsFiniteSet(s)
  BY FS_Subset
<1>3. Cardinality(s) \in Nat /\ Cardinality(s) # 0
  BY <1>2, FS_CardinalityType, FS_EmptySet
<1>4. Cardinality(s \ {c[s]}) = Cardinality(s) - 1
  BY <1>1, <1>2, FS_RemoveElement
<1>5. QED
  BY <1>1, <1>3, <1>4

(* The recursion has a solution on the subsets of a finite set.            *)
LEMMA SumExists ==
    ASSUME NEW S, IsFiniteSet(S), NEW f \in [S -> Int], NEW c, Picks(c, S)
    PROVE  \E g : AddsUp(g, f, c, S)
<1> DEFINE UpTo(g, n) ==
        \A s \in SUBSET S : Cardinality(s) <= n => g[s] = SumAt(g, f, c, s)
<1> DEFINE Has(n) == \E g \in [SUBSET S -> Int] : UpTo(g, n)
<1> DEFINE Missing == {n \in Nat : ~Has(n)}
<1>0. \A s \in SUBSET S : Cardinality(s) \in Nat
  BY FS_Subset, FS_CardinalityType
<1>1. Has(0)
  <2> DEFINE g == [s \in SUBSET S |-> 0]
  <2>1. ASSUME NEW s \in SUBSET S, Cardinality(s) <= 0
        PROVE  s = {}
    <3>1. SUFFICES ASSUME s # {} PROVE FALSE
      OBVIOUS
    <3>2. Cardinality(s) > 0 /\ Cardinality(s) \in Nat
      BY <3>1, SmallerByOne
    <3>3. QED
      BY <2>1, <3>2
  <2>2. UpTo(g, 0)
    BY <2>1 DEF SumAt
  <2>3. g \in [SUBSET S -> Int]
    OBVIOUS
  <2>4. QED
    BY <2>2, <2>3
<1>2. ASSUME NEW m \in Nat, m > 0, Has(m - 1)
      PROVE  Has(m)
  <2>1. PICK g \in [SUBSET S -> Int] : UpTo(g, m - 1)
    BY <1>2
  <2> HIDE DEF Has
  <2> DEFINE h == [s \in SUBSET S |->
                      IF Cardinality(s) < m THEN g[s] ELSE SumAt(g, f, c, s)]
  <2>2. ASSUME NEW s \in SUBSET S
        PROVE  SumAt(g, f, c, s) \in Int
    <3>1. CASE s = {}
      BY <3>1 DEF SumAt
    <3>2. CASE s # {}
      <4>1. c[s] \in S /\ s \ {c[s]} \in SUBSET S
        BY <3>2, SmallerByOne
      <4>2. f[c[s]] \in Int /\ g[s \ {c[s]}] \in Int
        BY <4>1
      <4>3. QED
        BY <3>2, <4>2 DEF SumAt
    <3>3. QED
      BY <3>1, <3>2
  <2>3. h \in [SUBSET S -> Int]
    BY <2>2
  <2>4. ASSUME NEW s \in SUBSET S, Cardinality(s) <= m
        PROVE  h[s] = SumAt(h, f, c, s)
    <3>1. h[s] = SumAt(g, f, c, s)
      BY <1>0, <1>2, <2>1, <2>4
    <3>2. s # {} => h[s \ {c[s]}] = g[s \ {c[s]}]
      <4>1. SUFFICES ASSUME s # {} PROVE h[s \ {c[s]}] = g[s \ {c[s]}]
        OBVIOUS
      <4>2. /\ s \ {c[s]} \in SUBSET S
            /\ Cardinality(s) \in Nat
            /\ Cardinality(s \ {c[s]}) = Cardinality(s) - 1
        BY <4>1, SmallerByOne
      <4>3. Cardinality(s \ {c[s]}) < m
        BY <1>2, <2>4, <4>2
      <4>4. QED
        BY <4>2, <4>3
    <3>3. SumAt(h, f, c, s) = SumAt(g, f, c, s)
      BY <3>2 DEF SumAt
    <3>4. QED
      BY <3>1, <3>3
  <2>5. UpTo(h, m)
    BY <2>4
  <2>6. QED
    BY <2>3, <2>5 DEF Has
<1>3. Missing = {}
  <2> HIDE DEF Has
  <2>1. SUFFICES ASSUME Missing # {} PROVE FALSE
    OBVIOUS
  <2>2. PICK m \in Missing : \A n \in Missing : m <= n
    BY <2>1, LeastNumber
  <2>3. m \in Nat /\ m # 0
    BY <1>1
  <2>4. m - 1 \in Nat /\ m > 0
    BY <2>3
  <2>5. Has(m - 1)
    BY <2>2, <2>4
  <2>6. QED
    BY <1>2, <2>2, <2>4, <2>5
<1>4. Has(Cardinality(S))
  <2> HIDE DEF Has
  <2>1. QED
    BY <1>3, FS_CardinalityType
<1>5. PICK g \in [SUBSET S -> Int] : UpTo(g, Cardinality(S))
  BY <1>4
<1>6. \A s \in SUBSET S : Cardinality(s) <= Cardinality(S)
  BY FS_Subset
<1>7. QED
  BY <1>5, <1>6 DEF AddsUp

(* A recursion along the picks has one solution.                           *)
LEMMA SameInTheEnd ==
    ASSUME NEW S, IsFiniteSet(S), NEW c, Picks(c, S), NEW g, NEW h,
           g[{}] = h[{}],
           \A s \in SUBSET S :
              s # {} /\ g[s \ {c[s]}] = h[s \ {c[s]}] => g[s] = h[s]
    PROVE  h[S] = g[S]
<1>0. ASSUME NEW s \in SUBSET S, s # {}
      PROVE  /\ s \ {c[s]} \in SUBSET S
             /\ Cardinality(s) \in Nat
             /\ Cardinality(s \ {c[s]}) = Cardinality(s) - 1
             /\ Cardinality(s) > 0
  BY <1>0, SmallerByOne
<1> DEFINE Odd == {n \in Nat : \E s \in SUBSET S :
                                    Cardinality(s) = n /\ h[s] # g[s]}
<1>1. ASSUME Odd # {} PROVE FALSE
  <2>1. PICK m \in Odd : \A n \in Odd : m <= n
    BY <1>1, LeastNumber
  <2>2. PICK s \in SUBSET S : Cardinality(s) = m /\ h[s] # g[s]
    BY <2>1
  <2>3. s # {}
    BY <2>2
  <2>4. /\ s \ {c[s]} \in SUBSET S
        /\ Cardinality(s) \in Nat
        /\ Cardinality(s \ {c[s]}) = Cardinality(s) - 1
        /\ Cardinality(s) > 0
    BY <1>0, <2>3
  <2>5. h[s \ {c[s]}] = g[s \ {c[s]}]
    BY <2>1, <2>2, <2>4
  <2>6. QED
    BY <2>2, <2>3, <2>5
<1>2. QED
  BY <1>1, FS_CardinalityType

(* What a sum comes to is settled.                                         *)
LEMMA SameSum ==
    ASSUME NEW S, IsFiniteSet(S), NEW f, NEW c, Picks(c, S),
           NEW g, AddsUp(g, f, c, S), NEW h, AddsUp(h, f, c, S)
    PROVE  h[S] = g[S]
<1>1. g[{}] = h[{}]
  BY DEF AddsUp, SumAt
<1>2. \A s \in SUBSET S :
        s # {} /\ g[s \ {c[s]}] = h[s \ {c[s]}] => g[s] = h[s]
  BY DEF AddsUp, SumAt
<1>3. QED
  BY <1>1, <1>2, SameInTheEnd

(* Two sums over a common part D that agree except at r differ there by    *)
(* the difference at r.                                                    *)
LEMMA SumMoves ==
    ASSUME NEW S, NEW T, NEW D \in SUBSET S, D \subseteq T, IsFiniteSet(D),
           NEW f \in [S -> Int], NEW e \in [T -> Int],
           NEW c, Picks(c, S), NEW d,
           \A s \in SUBSET D : s # {} => c[s] = d[s],
           NEW g, AddsUp(g, f, c, S), NEW h, AddsUp(h, e, d, T),
           NEW r, \A x \in D \ {r} : f[x] = e[x]
    PROVE  h[D] = g[D] + (IF r \in D THEN e[r] - f[r] ELSE 0)
<1> DEFINE Moved(s) ==
        h[s] = g[s] + (IF r \in s THEN e[r] - f[r] ELSE 0)
<1> DEFINE Odd == {n \in Nat : \E s \in SUBSET D :
                                    Cardinality(s) = n /\ ~Moved(s)}
<1>0. Picks(c, D)
  BY DEF Picks
<1>1. ASSUME Odd # {} PROVE FALSE
  <2>1. PICK m \in Odd : \A n \in Odd : m <= n
    BY <1>1, LeastNumber
  <2>2. PICK s \in SUBSET D : Cardinality(s) = m /\ ~Moved(s)
    BY <2>1
  <2>3. CASE s = {}
    BY <2>2, <2>3 DEF AddsUp, SumAt
  <2>4. CASE s # {}
    <3> DEFINE p == c[s]
    <3>1. /\ p \in s
          /\ s \ {p} \in SUBSET D
          /\ Cardinality(s) \in Nat
          /\ Cardinality(s \ {p}) = Cardinality(s) - 1
          /\ Cardinality(s) > 0
      BY <1>0, <2>4, SmallerByOne
    <3>2. Moved(s \ {p})
      BY <2>1, <2>2, <3>1
    <3>3. g[s] = f[p] + g[s \ {p}] /\ h[s] = e[p] + h[s \ {p}]
      BY <2>4 DEF AddsUp, SumAt
    <3>4. /\ g[s \ {p}] \in Int /\ h[s \ {p}] \in Int
          /\ f[p] \in Int /\ e[p] \in Int
          /\ p # r => f[p] = e[p]
      BY <3>1 DEF AddsUp
    <3>5. r \in s => f[r] \in Int /\ e[r] \in Int
      OBVIOUS
    <3>6. Moved(s)
      BY <3>1, <3>2, <3>3, <3>4, <3>5
    <3>7. QED
      BY <2>2, <3>6
  <2>5. QED
    BY <2>3, <2>4
<1>2. Moved(D)
  BY <1>1, FS_CardinalityType
<1>3. QED
  BY <1>2

(* The pick of the largest index.                                          *)
LastOf(S) == [s \in SUBSET S |-> Max(s)]

(* The largest index of a set of indices is one of them.                   *)
LEMMA LastIsPicked ==
    ASSUME NEW n \in Nat
    PROVE  Picks(LastOf(1..n), 1..n)
<1>1. SUFFICES ASSUME NEW t \in SUBSET (1..n), t # {} PROVE Max(t) \in t
  BY DEF Picks, LastOf
<1> DEFINE Rest == {n - i : i \in t}
<1>2. Rest \in SUBSET Nat /\ Rest # {}
  <2>1. \A i \in t : i \in 1..n
    BY <1>1
  <2>2. \A i \in t : n - i \in Nat
    BY <2>1
  <2>3. QED
    BY <1>1, <2>2
<1>3. PICK m \in Rest : \A k \in Rest : m <= k
  BY <1>2, LeastNumber
<1>4. PICK x \in t : m = n - x
  BY <1>3
<1>5. \A y \in t : x >= y
  BY <1>1, <1>3, <1>4
<1>6. QED
  BY <1>4, <1>5 DEF Max

(* One more term adds to a sum along the indices.                          *)
LEMMA SumGrows ==
    ASSUME NEW n \in Nat, NEW f \in [1..n -> Int], NEW e \in [1..(n + 1) -> Int],
           \A i \in 1..n : f[i] = e[i],
           NEW g, AddsUp(g, f, LastOf(1..n), 1..n),
           NEW h, AddsUp(h, e, LastOf(1..(n + 1)), 1..(n + 1))
    PROVE  g[1..n] \in Int /\ h[1..(n + 1)] = g[1..n] + e[n + 1]
<1>1. h[1..(n + 1)] = e[n + 1] + h[1..n]
  <2>1. Max(1..(n + 1)) = n + 1
    BY DEF Max
  <2>2. (1..(n + 1)) \ {n + 1} = 1..n
    OBVIOUS
  <2>3. 1..(n + 1) # {}
    OBVIOUS
  <2>4. LastOf(1..(n + 1))[1..(n + 1)] = n + 1
    BY <2>1 DEF LastOf
  <2> DEFINE V == 1..(n + 1)
  <2>5. h[V] = SumAt(h, e, LastOf(V), V)
    BY DEF AddsUp
  <2>6. SumAt(h, e, LastOf(V), V) = e[n + 1] + h[V \ {n + 1}]
    BY <2>3, <2>4 DEF SumAt
  <2>7. QED
    BY <2>2, <2>5, <2>6
<1>2. h[1..n] = g[1..n] + 0
  <2>1. PICK c, d, U, V, r :
          /\ c = LastOf(1..n) /\ d = LastOf(1..(n + 1))
          /\ U = 1..n /\ V = 1..(n + 1) /\ r = n + 1
    OBVIOUS
  <2>2. r \notin U /\ U \subseteq V
    BY <2>1
  <2>3. IsFiniteSet(U) /\ Picks(c, U)
    BY <2>1, FS_Interval, LastIsPicked
  <2>4. \A s \in SUBSET U : c[s] = d[s]
    BY <2>1, <2>2 DEF LastOf
  <2>5. /\ f \in [U -> Int] /\ e \in [V -> Int]
        /\ AddsUp(g, f, c, U) /\ AddsUp(h, e, d, V)
        /\ \A x \in U : f[x] = e[x]
    BY Zenon, <2>1
  <2>6. h[U] = g[U] + 0
    <3>1. /\ f \in [U -> Int] /\ e \in [V -> Int]
          /\ U \subseteq V /\ IsFiniteSet(U)
          /\ Picks(c, U)
          /\ AddsUp(g, f, c, U) /\ AddsUp(h, e, d, V)
          /\ \A s \in SUBSET U : s # {} => c[s] = d[s]
          /\ \A x \in U : f[x] = e[x]
      BY <2>2, <2>3, <2>4, <2>5
    <3>2. QED
      BY ONLY <2>2, <3>1, SumMoves
  <2>7. QED
    BY <2>1, <2>6
<1>3. g[1..n] \in Int /\ e[n + 1] \in Int
  BY DEF AddsUp
<1>4. QED
  BY <1>1, <1>2, <1>3

-------------------------------------------------------------------------------
(* The terms a loan is serviced on (LoanServicing).                        *)

FinalTerms ==
    /\ final.principal \in Nat \cup {NULL}
    /\ final.tenure \in Nat \cup {NULL}
    /\ final.frequency \in Frequencies \cup {NULL}

(* What was given at some time bounds what is given, and what is asked by  *)
(* an override.                                                            *)
Given(amount) == amount # NULL => amount <= peak

MoneyTyped ==
    /\ disbursed \in Int \cup {NULL} /\ peak \in Nat
    /\ Given(disbursed)
    /\ Given(final.principal)

(* What a request remembers, by its place: the terms it amortizes are      *)
(* whole, and of no more than was given or of the approved limit.          *)
Remembered(m) ==
    \/ m = NotServicing
    \/ /\ m \in [pc : {"configure"}, override : Overrides]
       /\ OverridesPrincipal(m.override) => m.override.principal <= peak
    \/ m \in [pc : {"generate"}, then : {"notify", "return"}]
    \/ /\ m \in [pc : {"account"}, then : {"notify", "return"},
                 total : Int \cup {NULL}]
       /\ Given(m.total)
    \/ /\ m \in [pc : {"delete", "create"}, then : {"notify", "return"},
                 terms : TermsRecord]
       /\ Amortizable(m.terms)
       /\ m.terms.principal <= peak \/ m.terms.principal = Approved.principal
    \/ m.pc \in {"notify", "tell"}

(* Until requests overlap, one is at work, and what it has read of the     *)
(* total is still so: the approved limit is asked only of who was given    *)
(* nothing yet.                                                            *)
ReadAlone ==
    ~servicingRaced =>
      /\ \A q, r \in Requests :
           servicing[q] # NotServicing /\ servicing[r] # NotServicing => q = r
      /\ \A r \in Requests :
           /\ Reached(r, "account") => servicing[r].total = disbursed
           /\ Reached(r, "delete") \/ Reached(r, "create") =>
                servicing[r].terms.principal <= peak \/ disbursed = NULL

ServicingInv ==
    /\ FinalTerms /\ MoneyTyped
    /\ servicing = [r \in Requests |-> servicing[r]]
    /\ \A r \in Requests : Remembered(servicing[r])
    /\ ReadAlone

(* The terms a schedule is made of are numbers; its principal was given,   *)
(* or is the approved limit when nothing was.                              *)
LEMMA EffectiveTermsTyped ==
    ASSUME FinalTerms, NEW total \in Int \cup {NULL},
           Amortizable(EffectiveTerms(final, total))
    PROVE  /\ EffectiveTerms(final, total) \in TermsRecord
           /\ EffectiveTerms(final, total).principal =
                IF final.principal # NULL THEN final.principal
                ELSE IF total # NULL THEN total ELSE Approved.principal
<1> DEFINE terms == EffectiveTerms(final, total)
<1>1. terms.principal \in Int /\ terms.tenure \in Int /\ terms.frequency \in Frequencies
  BY ApprovedAssumption
     DEF FinalTerms, EffectiveTerms, ResolvePrincipal, Default, Frequencies
<1>2. terms.principal > 0 /\ terms.tenure > 0
  BY DEF Amortizable, WholeTenure
<1>3. terms = [principal |-> terms.principal, tenure |-> terms.tenure,
               frequency |-> terms.frequency]
  BY DEF EffectiveTerms
<1>4. terms \in TermsRecord
  <2> HIDE DEF terms
  <2>1. terms.principal \in Nat \ {0} /\ terms.tenure \in Nat \ {0}
    BY <1>1, <1>2
  <2>2. QED
    BY <1>1, <1>3, <2>1 DEF TermsRecord
<1>5. QED
  BY <1>4 DEF EffectiveTerms, ResolvePrincipal, Default

(* The steps by which a request begins, and those by which it goes on      *)
(* without touching the money.                                             *)
BeginsServicing(r) ==
    \/ \E o \in Overrides : ReadConfigureServicing(r, o)
    \/ BeginGenerate(r) \/ BeginNotify(r)

GoesOn(r) ==
    \/ ReadApplication(r) \/ ReadAccount(r) \/ DeleteSchedule(r)
    \/ CreateSchedule(r) \/ ReadForNotify(r) \/ NotifyBorrower(r)
    \/ FailServicing(r)

LEMMA MovesServicing ==
    ASSUME ServicingInv, NEW r \in Requests, NEW m,
           servicing' = [servicing EXCEPT ![r] = m]
    PROVE  /\ servicing' = [q \in Requests |-> servicing'[q]]
           /\ servicing'[r] = m
           /\ \A q \in Requests \ {r} : servicing'[q] = servicing[q]
  BY DEF ServicingInv

LEMMA BeginKeepsServicing ==
    ASSUME ServicingInv, NEW r \in Requests, BeginsServicing(r)
    PROVE  ServicingInv'
<1>1. PICK m : /\ StartServicing(r, m)
               /\ m.pc \in {"configure", "generate", "notify"}
               /\ Remembered(m)
  <2>1. CASE \E o \in Overrides : ReadConfigureServicing(r, o)
    <3>1. PICK o \in Overrides : ReadConfigureServicing(r, o)
      BY <2>1
    <3>2. OverridesPrincipal(o) => o.principal <= peak
      <4>1. /\ OverridesPrincipal(o) => o.principal <= disbursed
            /\ disbursed # NULL
        BY <3>1 DEF ReadConfigureServicing, WithinDisbursed
      <4>2. disbursed \in Int /\ disbursed <= peak /\ peak \in Int
        BY <4>1 DEF ServicingInv, MoneyTyped, Given
      <4>3. OverridesPrincipal(o) => o.principal \in Int
        BY OverridesAssumption DEF OverridesPrincipal
      <4>4. QED
        BY <4>1, <4>2, <4>3
    <3>3. Remembered([pc |-> "configure", override |-> o])
      BY <3>2 DEF Remembered
    <3>4. QED
      BY <3>1, <3>3 DEF ReadConfigureServicing
  <2>2. CASE BeginGenerate(r)
    <3>1. Remembered([pc |-> "generate", then |-> "return"])
      BY DEF Remembered
    <3>2. QED
      BY <2>2, <3>1 DEF BeginGenerate
  <2>3. CASE BeginNotify(r)
    <3>1. Remembered([pc |-> "notify"])
      BY DEF Remembered
    <3>2. QED
      BY <2>3, <3>1 DEF BeginNotify
  <2>4. QED
    BY <2>1, <2>2, <2>3 DEF BeginsServicing
<1>2. UNCHANGED <<disbursed, peak, final>>
  BY DEF BeginsServicing, ReadConfigureServicing, BeginGenerate, BeginNotify,
     money
<1>3. /\ servicing' = [q \in Requests |-> servicing'[q]]
      /\ servicing'[r] = m
      /\ \A q \in Requests \ {r} : servicing'[q] = servicing[q]
  BY <1>1, MovesServicing DEF StartServicing
<1>4. \A q \in Requests : Remembered(servicing[q])'
  BY <1>1, <1>2, <1>3 DEF ServicingInv, Remembered, Given
<1>5. ReadAlone'
  <2> SUFFICES ASSUME ~servicingRaced' PROVE ReadAlone'
    BY DEF ReadAlone
  <2>1. ~servicingRaced /\ \A q \in Requests : servicing[q] = NotServicing
    BY <1>1 DEF StartServicing
  <2>2. \A q \in Requests \ {r} : servicing'[q] = NotServicing
    BY <1>3, <2>1
  <2>3. QED
    BY <1>1, <1>2, <1>3, <2>1, <2>2
       DEF ServicingInv, ReadAlone, NotServicing, Reached
<1>6. QED
  BY <1>2, <1>3, <1>4, <1>5 DEF ServicingInv, FinalTerms, MoneyTyped, Given

(* The terms stored were checked against what was disbursed then.          *)
LEMMA ConfigureKeepsServicing ==
    ASSUME ServicingInv, NEW r \in Requests, ConfigureServicing(r)
    PROVE  ServicingInv'
<1> DEFINE o == servicing[r].override
<1>1. o \in Overrides /\ (OverridesPrincipal(o) => o.principal <= peak)
  BY DEF ServicingInv, Remembered, ConfigureServicing, Reached, NotServicing
<1>2. ASSUME NEW f \in TermFields
      PROVE  final'[f] = IF f \in DOMAIN o THEN o[f] ELSE final[f]
  BY DEF ConfigureServicing
<1>3. FinalTerms'
  <2>1. ASSUME NEW f \in {"principal", "tenure"}
        PROVE  final'[f] \in Nat \cup {NULL}
    BY <1>1, <1>2, OverridesAssumption DEF FinalTerms, ServicingInv, TermFields
  <2>2. final'["frequency"] \in Frequencies \cup {NULL}
    BY <1>1, <1>2, OverridesAssumption DEF FinalTerms, ServicingInv, TermFields
  <2>3. QED
    BY <2>1, <2>2 DEF FinalTerms
<1>4. UNCHANGED <<disbursed, peak>>
  BY DEF ConfigureServicing, money
<1>5. MoneyTyped'
  <2>1. Given(final.principal)'
    BY <1>1, <1>2, <1>4
       DEF Given, OverridesPrincipal, ServicingInv, MoneyTyped, TermFields
  <2>2. QED
    BY <1>4, <2>1 DEF Given, ServicingInv, MoneyTyped
<1>6. /\ servicing' = [q \in Requests |-> servicing'[q]]
      /\ servicing'[r] = [pc |-> "generate", then |-> "notify"]
      /\ \A q \in Requests \ {r} : servicing'[q] = servicing[q]
  BY MovesServicing DEF ConfigureServicing, Go
<1>7. \A q \in Requests : Remembered(servicing[q])'
  <2>1. Remembered(servicing[r])'
    BY <1>6 DEF Remembered
  <2>2. QED
    BY <1>4, <1>6, <2>1 DEF ServicingInv, Remembered, Given
<1>8. ReadAlone'
  <2> SUFFICES ASSUME ~servicingRaced' PROVE ReadAlone'
    BY DEF ReadAlone
  <2>1. ~servicingRaced /\ Reached(r, "configure")
    BY DEF ConfigureServicing, Go
  <2>2. \A q \in Requests \ {r} : servicing'[q] = NotServicing
    BY <1>6, <2>1 DEF ServicingInv, ReadAlone, Reached, NotServicing
  <2>3. QED
    BY <1>6, <2>1, <2>2 DEF ReadAlone, NotServicing, Reached
<1>9. QED
  BY <1>3, <1>5, <1>6, <1>7, <1>8 DEF ServicingInv

(* A request that goes on touches no money: whatever it then remembers,    *)
(* the invariant needs only that to be sound.                              *)
LEMMA GoingOn ==
    ASSUME ServicingInv, NEW r \in Requests, NEW m, Go(r, m),
           UNCHANGED <<disbursed, peak, final>>,
           servicing[r] # NotServicing, Remembered(m), m.pc # "configure",
           ~servicingRaced =>
             /\ m.pc = "account" => m.total = disbursed
             /\ m.pc \in {"delete", "create"} =>
                  m.terms.principal <= peak \/ disbursed = NULL
    PROVE  ServicingInv'
<1>1. /\ servicing' = [q \in Requests |-> servicing'[q]]
      /\ servicing'[r] = m
      /\ \A q \in Requests \ {r} : servicing'[q] = servicing[q]
  BY MovesServicing DEF Go
<1>2. \A q \in Requests : Remembered(servicing[q])'
  BY <1>1 DEF ServicingInv, Remembered, Given
<1>3. ReadAlone'
  <2> SUFFICES ASSUME ~servicingRaced' PROVE ReadAlone'
    BY DEF ReadAlone
  <2>1. ~servicingRaced
    BY DEF Go
  <2>2. \A q \in Requests \ {r} : servicing'[q] = NotServicing
    BY <1>1, <2>1 DEF ServicingInv, ReadAlone
  <2>3. QED
    BY <1>1, <2>1, <2>2 DEF ServicingInv, ReadAlone, NotServicing, Reached
<1>4. QED
  BY <1>1, <1>2, <1>3 DEF ServicingInv, FinalTerms, MoneyTyped, Given

LEMMA GoesOnKeepsServicing ==
    ASSUME ServicingInv, NEW r \in Requests, GoesOn(r)
    PROVE  ServicingInv'
<1>0. /\ Remembered(servicing[r])
      /\ Remembered(NotServicing) /\ Remembered([pc |-> "notify"])
      /\ NotServicing.pc = "idle"
  BY DEF ServicingInv, Remembered, NotServicing
<1>1. CASE ReadApplication(r)
  <2> DEFINE m == [pc |-> "account", then |-> servicing[r].then,
                   total |-> disbursed]
  <2>1. servicing[r].then \in {"notify", "return"}
    BY <1>0, <1>1 DEF ReadApplication, Reached, Remembered, NotServicing
  <2>2. Remembered(m)
    BY <2>1 DEF Remembered, ServicingInv, MoneyTyped
  <2>3. servicing[r] # NotServicing
    BY <1>1 DEF ReadApplication, Reached, NotServicing
  <2>4. QED
    BY <1>1, <2>2, <2>3, GoingOn DEF ReadApplication, money
<1>2. CASE ReadAccount(r)
  <2> DEFINE terms == EffectiveTerms(final, servicing[r].total)
             m == [pc |-> "delete", then |-> servicing[r].then,
                   terms |-> terms]
  <2>1. /\ servicing[r].then \in {"notify", "return"}
        /\ servicing[r].total \in Int \cup {NULL}
        /\ Given(servicing[r].total)
    BY <1>0, <1>2 DEF ReadAccount, Reached, Remembered, NotServicing
  <2>2. servicing[r] # NotServicing
    BY <1>2 DEF ReadAccount, Reached, NotServicing
  <2>3. CASE Amortizable(terms)
    <3>1. Go(r, m) /\ UNCHANGED <<disbursed, peak, final>>
      BY <1>2, <2>3 DEF ReadAccount, money
    <3>2. /\ terms \in TermsRecord
          /\ terms.principal = IF final.principal # NULL THEN final.principal
                               ELSE IF servicing[r].total # NULL
                                    THEN servicing[r].total
                                    ELSE Approved.principal
      BY <2>1, <2>3, EffectiveTermsTyped DEF ServicingInv
    <3>3. \/ terms.principal <= peak
          \/ /\ terms.principal = Approved.principal
             /\ servicing[r].total = NULL
      BY <2>1, <3>2 DEF ServicingInv, MoneyTyped, Given
    <3>4. m.terms = terms /\ m.pc = "delete"
      OBVIOUS
    <3>5. Remembered(m)
      <4>1. m \in [pc : {"delete", "create"}, then : {"notify", "return"},
                   terms : TermsRecord]
        BY <2>1, <3>2
      <4>2. QED
        BY <2>3, <3>3, <3>4, <4>1 DEF Remembered
    <3>6. ~servicingRaced => m.terms.principal <= peak \/ disbursed = NULL
      <4>1. ~servicingRaced => servicing[r].total = disbursed
        BY <1>2 DEF ReadAccount, ServicingInv, ReadAlone
      <4>2. QED
        BY <3>3, <3>4, <4>1
    <3>7. QED
      BY <2>2, <3>1, <3>4, <3>5, <3>6, GoingOn
  <2>4. CASE ~Amortizable(terms)
    <3>1. Go(r, NotServicing) /\ UNCHANGED <<disbursed, peak, final>>
      BY <1>2, <2>4 DEF ReadAccount, money
    <3>2. QED
      BY <1>0, <2>2, <3>1, GoingOn
  <2>5. QED
    BY <2>3, <2>4
<1>3. CASE DeleteSchedule(r)
  <2> DEFINE m == [servicing[r] EXCEPT !.pc = "create"]
  <2>1. /\ servicing[r] \in [pc : {"delete", "create"},
                             then : {"notify", "return"},
                             terms : TermsRecord]
        /\ Amortizable(servicing[r].terms)
        /\ \/ servicing[r].terms.principal <= peak
           \/ servicing[r].terms.principal = Approved.principal
    BY <1>0, <1>3 DEF DeleteSchedule, Reached, Remembered, NotServicing
  <2>2. /\ m \in [pc : {"delete", "create"}, then : {"notify", "return"},
                  terms : TermsRecord]
        /\ m.terms = servicing[r].terms /\ m.pc = "create"
    BY <2>1
  <2>3. Remembered(m)
    BY <2>1, <2>2 DEF Remembered
  <2>4. ~servicingRaced => m.terms.principal <= peak \/ disbursed = NULL
    BY <1>3, <2>2 DEF DeleteSchedule, ServicingInv, ReadAlone
  <2>5. servicing[r] # NotServicing
    BY <1>3 DEF DeleteSchedule, Reached, NotServicing
  <2>6. Go(r, m) /\ UNCHANGED <<disbursed, peak, final>>
    BY <1>3 DEF DeleteSchedule, money
  <2>7. QED
    BY <2>2, <2>3, <2>4, <2>5, <2>6, GoingOn
<1>4. CASE CreateSchedule(r)
  <2>1. servicing[r] # NotServicing
    BY <1>4 DEF CreateSchedule, Reached, NotServicing
  <2>2. UNCHANGED <<disbursed, peak, final>>
    BY <1>4 DEF CreateSchedule, money
  <2>3. CASE servicing[r].then = "notify"
    BY <1>0, <1>4, <2>1, <2>2, <2>3, GoingOn DEF CreateSchedule
  <2>4. CASE servicing[r].then # "notify"
    BY <1>0, <1>4, <2>1, <2>2, <2>4, GoingOn DEF CreateSchedule
  <2>5. QED
    BY <2>3, <2>4
<1>5. CASE ReadForNotify(r)
  <2>1. servicing[r] # NotServicing
    BY <1>5 DEF ReadForNotify, Reached, NotServicing
  <2>2. UNCHANGED <<disbursed, peak, final>>
    BY <1>5 DEF ReadForNotify, money
  <2>3. Remembered([pc |-> "tell", tenure |-> final.tenure])
    BY DEF Remembered
  <2>4. CASE configured
    BY <1>5, <2>1, <2>2, <2>3, <2>4, GoingOn DEF ReadForNotify
  <2>5. CASE ~configured
    BY <1>0, <1>5, <2>1, <2>2, <2>5, GoingOn DEF ReadForNotify
  <2>6. QED
    BY <2>4, <2>5
<1>6. CASE NotifyBorrower(r)
  <2>1. /\ servicing[r] # NotServicing /\ Go(r, NotServicing)
        /\ UNCHANGED <<disbursed, peak, final>>
    BY <1>6 DEF NotifyBorrower, Reached, NotServicing, money
  <2>2. QED
    BY <1>0, <2>1, GoingOn
<1>7. CASE FailServicing(r)
  BY <1>0, <1>7, GoingOn DEF FailServicing, money
<1>8. QED
  BY <1>1, <1>2, <1>3, <1>4, <1>5, <1>6, <1>7 DEF GoesOn

(* A tranche of any amount lowers no peak; confirmed while no request is   *)
(* at work, it makes nobody's reading out of date.                         *)
LEMMA TrancheKeepsServicing ==
    ASSUME ServicingInv, NEW t \in Tranches, ConfirmTranche(t)
    PROVE  ServicingInv'
<1>1. disbursed' \in Int /\ disbursed' <= peak' /\ peak' \in Nat /\ peak <= peak'
  <2>1. disbursed' \in Int /\ peak \in Nat
    BY TranchesAssumption DEF ServicingInv, MoneyTyped, ConfirmTranche
  <2>2. peak' = IF disbursed' > peak THEN disbursed' ELSE peak
    BY DEF ConfirmTranche
  <2>3. QED
    BY <2>1, <2>2
<1>2. UNCHANGED <<final, servicing>>
  BY DEF ConfirmTranche
<1>3. FinalTerms'
  BY <1>2 DEF ServicingInv, FinalTerms
<1>4. MoneyTyped'
  <2>1. Given(final.principal)'
    BY <1>1, <1>2 DEF ServicingInv, FinalTerms, MoneyTyped, Given
  <2>2. QED
    BY <1>1, <2>1 DEF MoneyTyped, Given
<1>5. \A r \in Requests : Remembered(servicing[r])'
  <2> SUFFICES ASSUME NEW r \in Requests, NEW m, m = servicing[r], Remembered(m)
               PROVE  Remembered(m)'
    BY <1>2 DEF ServicingInv
  <2>1. peak \in Nat
    BY DEF ServicingInv, MoneyTyped
  <2>2. CASE /\ m \in [pc : {"configure"}, override : Overrides]
             /\ OverridesPrincipal(m.override) => m.override.principal <= peak
    <3>1. OverridesPrincipal(m.override) => m.override.principal \in Nat
      BY <2>2, OverridesAssumption DEF OverridesPrincipal
    <3>2. QED
      BY <1>1, <2>1, <2>2, <3>1 DEF Remembered
  <2>3. CASE /\ m \in [pc : {"account"}, then : {"notify", "return"},
                       total : Int \cup {NULL}]
             /\ Given(m.total)
    <3>1. Given(m.total)'
      BY <1>1, <2>1, <2>3 DEF Given
    <3>2. QED
      BY <2>3, <3>1 DEF Remembered
  <2>4. CASE /\ m \in [pc : {"delete", "create"}, then : {"notify", "return"},
                       terms : TermsRecord]
             /\ Amortizable(m.terms)
             /\ \/ m.terms.principal <= peak
                \/ m.terms.principal = Approved.principal
    <3>1. m.terms.principal \in Nat
      BY <2>4 DEF TermsRecord
    <3>2. m.terms.principal <= peak' \/ m.terms.principal = Approved.principal
      BY <1>1, <2>1, <2>4, <3>1
    <3>3. QED
      BY <2>4, <3>2 DEF Remembered
  <2>5. QED
    BY <2>2, <2>3, <2>4 DEF Remembered
<1>6. ReadAlone'
  <2> SUFFICES ASSUME ~servicingRaced' PROVE ReadAlone'
    BY DEF ReadAlone
  <2>1. \A q \in Requests : servicing[q] = NotServicing
    BY DEF ConfirmTranche
  <2>2. \A q \in Requests : servicing'[q].pc = "idle"
    BY <1>2, <2>1 DEF NotServicing
  <2>3. QED
    BY <1>2, <2>1, <2>2 DEF ReadAlone, Reached
<1>7. QED
  BY <1>2, <1>3, <1>4, <1>5, <1>6 DEF ServicingInv

LEMMA ServicingInvKept ==
    ASSUME ServicingInv, [ServicingNext]_loanServicing
    PROVE  ServicingInv'
<1>1. CASE UNCHANGED loanServicing
  BY <1>1 DEF loanServicing, money, ServicingInv, FinalTerms, MoneyTyped, Given,
     Remembered, ReadAlone, Reached
<1>2. ASSUME NEW r \in Requests, BeginsServicing(r)
      PROVE  ServicingInv'
  BY <1>2, BeginKeepsServicing
<1>3. ASSUME NEW r \in Requests, ConfigureServicing(r)
      PROVE  ServicingInv'
  BY <1>3, ConfigureKeepsServicing
<1>4. ASSUME NEW r \in Requests, GoesOn(r)
      PROVE  ServicingInv'
  BY <1>4, GoesOnKeepsServicing
<1>5. ASSUME NEW t \in Tranches, ConfirmTranche(t)
      PROVE  ServicingInv'
  BY <1>5, TrancheKeepsServicing
<1>6. QED
  BY <1>1, <1>2, <1>3, <1>4, <1>5 DEF ServicingNext, BeginsServicing, GoesOn

LEMMA ServicingInvInitially == ServicingInit => ServicingInv
<1> SUFFICES ASSUME ServicingInit PROVE ServicingInv
  OBVIOUS
<1>1. \A r \in Requests : servicing[r] = NotServicing
  BY DEF ServicingInit
<1>2. \A r \in Requests : Remembered(servicing[r])
  BY <1>1 DEF Remembered
<1>3. final.principal = NULL /\ final.tenure = NULL /\ final.frequency = NULL
  BY DEF ServicingInit, TermFields
<1>4. /\ servicing = [r \in Requests |-> servicing[r]]
      /\ disbursed = NULL /\ peak = 0
  BY DEF ServicingInit
<1>5. ReadAlone
  BY <1>1 DEF ReadAlone, Reached, NotServicing
<1>6. QED
  BY <1>2, <1>3, <1>4, <1>5 DEF ServicingInv, FinalTerms, MoneyTyped, Given

LEMMA ServicingInvHolds == ServicingSpec => []ServicingInv
  BY ServicingInvInitially, ServicingInvKept, PTL DEF ServicingSpec

LEMMA WholeInstallments ==
    ASSUME NEW s \in TermsRecord, WholeTenure(s.tenure, s.frequency)
    PROVE  Installments(s) * PeriodMonths(s.frequency) = s.tenure
<1>1. s.tenure \in Nat /\ PeriodMonths(s.frequency) \in {1, 3, 12}
  BY DEF TermsRecord, PeriodMonths, Frequencies
<1>2. s.tenure % PeriodMonths(s.frequency) = 0
  BY DEF WholeTenure
<1>3. CASE PeriodMonths(s.frequency) = 1
  BY <1>1, <1>3 DEF Installments
<1>4. CASE PeriodMonths(s.frequency) = 3
  BY <1>1, <1>2, <1>4 DEF Installments
<1>5. CASE PeriodMonths(s.frequency) = 12
  BY <1>1, <1>2, <1>5 DEF Installments
<1>6. QED
  BY <1>1, <1>3, <1>4, <1>5

(* Whatever is configured, generated, notified, disbursed, taken back and  *)
(* lost in between, by however many requests: a schedule that comes into   *)
(* being has whole installments and a principal that was given at some     *)
(* time, or is the approved limit before anything was, or under a request  *)
(* that overlapped the first payout (configureServicing, generateSchedule, *)
(* resolveEffectiveLoanTerms).                                             *)
THEOREM ScheduleIsPayable == ServicingSpec => NewScheduleIsSound
<1>1. ASSUME ServicingInv, [ServicingNext]_loanServicing
      PROVE  [\A s \in schedule' \ schedule :
                /\ Installments(s) * PeriodMonths(s.frequency) = s.tenure
                /\ s.principal > 0
                /\ \/ s.principal <= peak
                   \/ /\ s.principal = Approved.principal
                      /\ disbursed = NULL \/ servicingRaced']_loanServicing
  <2> SUFFICES ASSUME NEW s \in schedule' \ schedule
               PROVE  /\ Installments(s) * PeriodMonths(s.frequency) = s.tenure
                      /\ s.principal > 0
                      /\ \/ s.principal <= peak
                         \/ /\ s.principal = Approved.principal
                            /\ disbursed = NULL \/ servicingRaced'
    OBVIOUS
  <2>1. PICK r \in Requests : CreateSchedule(r)
    BY <1>1 DEF ServicingNext, loanServicing, ReadConfigureServicing,
       ConfigureServicing, BeginGenerate, ReadApplication, ReadAccount,
       DeleteSchedule, BeginNotify, ReadForNotify, NotifyBorrower,
       FailServicing, ConfirmTranche
  <2>2. /\ s = servicing[r].terms /\ servicingRaced' = servicingRaced
        /\ Reached(r, "create")
    BY <2>1 DEF CreateSchedule, Go
  <2>3. /\ s \in TermsRecord /\ Amortizable(s)
        /\ s.principal <= peak \/ s.principal = Approved.principal
    BY <1>1, <2>2 DEF ServicingInv, Remembered, Reached, NotServicing
  <2>4. ~servicingRaced => s.principal <= peak \/ disbursed = NULL
    BY <1>1, <2>2 DEF ServicingInv, ReadAlone
  <2>5. WholeTenure(s.tenure, s.frequency) /\ s.principal > 0
    BY <2>3 DEF Amortizable
  <2>6. QED
    BY <2>2, <2>3, <2>4, <2>5, WholeInstallments
<1>2. QED
  BY <1>1, ServicingInvHolds, PTL DEF ServicingSpec, NewScheduleIsSound

(* A tenure a borrower is told of was read from the account.               *)
TenuresRead ==
    \A r \in Requests :
        Reached(r, "tell") => servicing[r].tenure \in Nat \cup {NULL}

ServicingTypes == ServicingTypeOK /\ TenuresRead

(* Whole periods, or what is left of a tenure, are numbers.                *)
LEMMA InstallmentsAreNumbers ==
    ASSUME NEW s \in TermsRecord
    PROVE  Installments(s) \in Nat
<1>1. s.tenure \in Nat /\ PeriodMonths(s.frequency) \in {1, 3, 12}
  BY DEF TermsRecord, PeriodMonths, Frequencies
<1>2. QED
  BY <1>1 DEF Installments

LEMMA ServicingTypesKept ==
    ASSUME ServicingInv, ServicingTypes, [ServicingNext]_loanServicing
    PROVE  ServicingTypes'
<1> USE DEF ServicingTypes, ServicingTypeOK, TenuresRead
<1>1. ASSUME NEW r \in Requests, NEW m, servicing' = [servicing EXCEPT ![r] = m],
             m.pc = "tell" => m.tenure \in Nat \cup {NULL}
      PROVE  TenuresRead'
  <2>1. /\ servicing'[r] = m
        /\ \A q \in Requests \ {r} : servicing'[q] = servicing[q]
    BY <1>1, MovesServicing
  <2>2. QED
    BY <1>1, <2>1 DEF Reached
<1>2. ASSUME NEW r \in Requests, BeginsServicing(r)
      PROVE  ServicingTypes'
  <2>1. PICK m : StartServicing(r, m) /\ m.pc # "tell"
    <3>1. CASE \E o \in Overrides : ReadConfigureServicing(r, o)
      BY <3>1 DEF ReadConfigureServicing
    <3>2. CASE BeginGenerate(r)
      BY <3>2 DEF BeginGenerate
    <3>3. CASE BeginNotify(r)
      BY <3>3 DEF BeginNotify
    <3>4. QED
      BY <1>2, <3>1, <3>2, <3>3 DEF BeginsServicing
  <2>2. UNCHANGED <<disbursed, peak, final, configured, schedule, told>>
    BY <1>2 DEF BeginsServicing, ReadConfigureServicing, BeginGenerate,
       BeginNotify, money
  <2>3. TenuresRead' /\ servicingRaced' \in BOOLEAN
    BY <1>1, <2>1 DEF StartServicing
  <2>4. QED
    BY <2>2, <2>3
<1>3. ASSUME NEW r \in Requests, ConfigureServicing(r)
      PROVE  ServicingTypes'
  <2>1. final' \in [principal : Nat \cup {NULL}, tenure : Nat \cup {NULL},
                    frequency : Frequencies \cup {NULL}]
    <3>1. servicing[r].override \in Overrides
      BY <1>3 DEF ServicingInv, Remembered, ConfigureServicing, Reached, NotServicing
    <3>2. final' = [f \in {"principal", "tenure", "frequency"} |->
                      IF f \in DOMAIN servicing[r].override
                        THEN servicing[r].override[f] ELSE final[f]]
      BY <1>3 DEF ConfigureServicing, TermFields
    <3>3. FinalTerms'
      BY <1>3, ServicingInvKept DEF ServicingNext, ServicingInv
    <3>4. QED
      BY <3>2, <3>3 DEF FinalTerms
  <2>2. /\ UNCHANGED <<disbursed, peak, schedule, told, servicingRaced>>
        /\ configured' = TRUE
        /\ Go(r, [pc |-> "generate", then |-> "notify"])
    BY <1>3 DEF ConfigureServicing, Go, money
  <2>3. TenuresRead'
    BY <1>1, <2>2 DEF Go
  <2>4. QED
    BY <2>1, <2>2, <2>3
<1>4. ASSUME NEW r \in Requests, GoesOn(r)
      PROVE  ServicingTypes'
  <2>1. UNCHANGED <<disbursed, peak, final, configured, servicingRaced>>
    BY <1>4 DEF GoesOn, ReadApplication, ReadAccount, DeleteSchedule,
       CreateSchedule, ReadForNotify, NotifyBorrower, FailServicing, Go, money
  <2>2. PICK m : Go(r, m) /\ (m.pc = "tell" => m.tenure \in Nat \cup {NULL})
    <3>1. CASE ReadApplication(r)
      BY <3>1 DEF ReadApplication
    <3>2. CASE ReadAccount(r)
      BY <3>2 DEF ReadAccount, NotServicing
    <3>3. CASE DeleteSchedule(r)
      <4>1. [servicing[r] EXCEPT !.pc = "create"].pc = "create"
        BY <3>3 DEF DeleteSchedule, Reached, ServicingInv, Remembered, NotServicing
      <4>2. QED
        BY <3>3, <4>1 DEF DeleteSchedule
    <3>4. CASE CreateSchedule(r)
      BY <3>4 DEF CreateSchedule, NotServicing
    <3>5. CASE ReadForNotify(r)
      BY <3>5 DEF ReadForNotify, NotServicing
    <3>6. CASE NotifyBorrower(r) \/ FailServicing(r)
      BY <3>6 DEF NotifyBorrower, FailServicing, NotServicing
    <3>7. QED
      BY <1>4, <3>1, <3>2, <3>3, <3>4, <3>5, <3>6 DEF GoesOn
  <2>3. TenuresRead'
    BY <1>1, <2>2 DEF Go
  <2>4. schedule' \subseteq TermsRecord
    <3>1. CASE CreateSchedule(r)
      <4>1. servicing[r].terms \in TermsRecord
        BY <3>1 DEF CreateSchedule, Reached, ServicingInv, Remembered, NotServicing
      <4>2. QED
        BY <3>1, <4>1 DEF CreateSchedule
    <3>2. CASE ~CreateSchedule(r)
      BY <1>4, <3>2 DEF GoesOn, ReadApplication, ReadAccount, DeleteSchedule,
         ReadForNotify, NotifyBorrower, FailServicing
    <3>3. QED
      BY <3>1, <3>2
  <2>5. told' # NULL => told' \in [tenure : Nat, scheduled : Nat]
    <3>1. CASE NotifyBorrower(r) /\ told' # told
      <4>1. PICK s \in schedule :
              told' = [tenure |-> Default(servicing[r].tenure, Installments(s)),
                       scheduled |-> s.tenure]
        BY <3>1 DEF NotifyBorrower
      <4>2. servicing[r].tenure \in Nat \cup {NULL}
        BY <3>1 DEF NotifyBorrower
      <4>3. s.tenure \in Nat /\ Installments(s) \in Nat
        BY InstallmentsAreNumbers DEF TermsRecord
      <4>4. QED
        BY <4>1, <4>2, <4>3 DEF Default
    <3>2. CASE told' = told
      BY <3>2
    <3>3. QED
      BY <1>4, <3>1, <3>2 DEF GoesOn, ReadApplication, ReadAccount,
         DeleteSchedule, CreateSchedule, ReadForNotify, NotifyBorrower, FailServicing
  <2>6. QED
    BY <2>1, <2>3, <2>4, <2>5
<1>5. ASSUME NEW t \in Tranches, ConfirmTranche(t)
      PROVE  ServicingTypes'
  <2>1. disbursed' \in Int \cup {NULL} /\ peak' \in Nat
    BY <1>5, TrancheKeepsServicing DEF ServicingInv, MoneyTyped
  <2>2. servicingRaced' \in BOOLEAN
    BY <1>5 DEF ConfirmTranche
  <2>3. QED
    BY <1>5, <2>1, <2>2 DEF ConfirmTranche, Reached
<1>6. CASE UNCHANGED loanServicing
  BY <1>6 DEF loanServicing, money, Reached
<1>7. QED
  BY <1>2, <1>3, <1>4, <1>5, <1>6 DEF ServicingNext, BeginsServicing, GoesOn

LEMMA ServicingTypesInitially == ServicingInit => ServicingTypes
<1> SUFFICES ASSUME ServicingInit PROVE ServicingTypes
  OBVIOUS
<1>1. final \in [principal : Nat \cup {NULL}, tenure : Nat \cup {NULL},
                 frequency : Frequencies \cup {NULL}]
  BY DEF ServicingInit, TermFields
<1>2. TenuresRead
  <2>1. \A r \in Requests : servicing[r].pc = "idle"
    BY DEF ServicingInit, NotServicing
  <2>2. QED
    BY <2>1 DEF TenuresRead, Reached
<1>3. disbursed \in Int \cup {NULL} /\ peak \in Nat
  BY DEF ServicingInit
<1>4. /\ configured = FALSE /\ schedule = {} /\ told = NULL
      /\ servicingRaced = FALSE
  BY DEF ServicingInit
<1>5. QED
  BY <1>1, <1>2, <1>3, <1>4 DEF ServicingTypes, ServicingTypeOK

(* The states of the servicing terms, the schedule and what the borrower   *)
(* was told are of the declared types, whatever terms a Credit Manager     *)
(* overrides or leaves out (configureServicing, notifyBorrower).           *)
THEOREM ServicingTypeCorrect == ServicingSpec => []ServicingTypeOK
<1>1. ServicingTypes => ServicingTypeOK
  BY DEF ServicingTypes
<1>2. ServicingInv /\ ServicingTypes /\ [ServicingNext]_loanServicing => ServicingTypes'
  BY ServicingTypesKept
<1>3. QED
  BY ServicingTypesInitially, ServicingInvHolds, <1>1, <1>2, PTL DEF ServicingSpec

-------------------------------------------------------------------------------
(* Collections.                                                            *)

(* An overdue installment was due before now; the job ran at midnight; and *)
(* a trigger that fired did so once, on a day that is over when the job    *)
(* runs again.                                                             *)
OverdueWasDue ==
    \A i \in Installment : emiStatus[i] = "OVERDUE" => Due[i] < now

FiredOnce ==
    \A i \in Installment : \A o \in DOMAIN reminded[i] :
        reminded[i][o] = 1 /\ Due[i] < lastJob - o * Day + Day

CollectionsInv ==
    /\ CollectionsTypeOK /\ OverdueWasDue /\ FiredOnce
    /\ Midnight(lastJob)
    /\ reminded = [i \in Installment |-> reminded[i]]

LEMMA Midnights ==
    ASSUME NEW t \in Nat, Midnight(t)
    PROVE  /\ StartOfDay(t) = t
           /\ \A s \in Nat : Midnight(s) /\ s < t => s + Day <= t
  BY DEF Midnight, StartOfDay, Day

(* A trigger does not fire again: its day has passed.                      *)
LEMMA NotDueTwice ==
    ASSUME CollectionsInv, Midnight(now), lastJob < now,
           NEW i \in Installment, NEW o \in DOMAIN reminded[i]
    PROVE  ~DueForReminder(i, o, Marked)
<1>1. now \in Nat /\ lastJob \in Nat /\ o \in Int /\ Due[i] \in Nat
  BY BoundsAssumption, DueAssumption
     DEF CollectionsInv, CollectionsTypeOK, Offsets
<1>2. lastJob + 2 <= now /\ StartOfDay(now) = now
  BY <1>1, Midnights DEF CollectionsInv, Day
<1>3. Due[i] < lastJob - o * 2 + 2
  BY DEF CollectionsInv, FiredOnce, Day
<1>4. DueForReminder(i, o, Marked) => Due[i] >= now - o * 2
  BY <1>2 DEF DueForReminder, Day
<1>5. QED
  BY <1>1, <1>2, <1>3, <1>4

LEMMA JobKeepsReminders ==
    ASSUME CollectionsInv, RunDailyEmiJob
    PROVE  /\ FiredOnce'
           /\ reminded' = [i \in Installment |-> reminded'[i]]
           /\ \A i \in Installment : DOMAIN reminded'[i] \subseteq Offsets
<1> DEFINE fires(i) == {o \in Offsets : DueForReminder(i, o, Marked)}
           sent(i) == [o \in DOMAIN reminded[i] \cup fires(i) |->
               Fired(i, o) + (IF DueForReminder(i, o, Marked) THEN 1 ELSE 0)]
<1>1. reminded' = [i \in Installment |-> sent(i)]
  BY DEF RunDailyEmiJob
<1>2. \A i \in Installment : reminded'[i] = sent(i)
  BY <1>1
<1>3. \A i \in Installment : DOMAIN reminded[i] \subseteq Offsets
  BY DEF CollectionsInv, CollectionsTypeOK
<1>4. \A i \in Installment :
        DOMAIN reminded'[i] = DOMAIN reminded[i] \cup fires(i)
  BY <1>2
<1>5. /\ Midnight(now) /\ lastJob < now /\ lastJob' = now
  BY DEF RunDailyEmiJob
<1>6. ASSUME NEW i \in Installment, NEW o \in DOMAIN reminded'[i]
      PROVE  reminded'[i][o] = 1 /\ Due[i] < lastJob' - o * Day + Day
  <2>1. now \in Nat /\ lastJob \in Nat /\ o \in Int /\ Due[i] \in Nat
    BY <1>3, <1>4, BoundsAssumption, DueAssumption
       DEF CollectionsInv, CollectionsTypeOK, Offsets
  <2>2. reminded'[i][o] =
          Fired(i, o) + (IF DueForReminder(i, o, Marked) THEN 1 ELSE 0)
    BY <1>2, <1>4
  <2>3. CASE o \in DOMAIN reminded[i]
    <3>1. /\ ~DueForReminder(i, o, Marked) /\ reminded[i][o] = 1
          /\ Due[i] < lastJob - o * Day + Day
      BY <1>5, <2>3, NotDueTwice DEF CollectionsInv, FiredOnce
    <3>2. reminded'[i][o] = 1
      BY <2>2, <2>3, <3>1 DEF Fired
    <3>3. QED
      BY <1>5, <2>1, <3>1, <3>2 DEF Day
  <2>4. CASE o \notin DOMAIN reminded[i]
    <3>1. DueForReminder(i, o, Marked)
      BY <1>4, <2>4
    <3>2. reminded'[i][o] = 1
      BY <2>2, <2>4, <3>1 DEF Fired
    <3>3. Due[i] < now - o * 2 + 2
      BY <1>5, <2>1, <3>1, Midnights DEF DueForReminder, Day
    <3>4. QED
      BY <1>5, <3>2, <3>3 DEF Day
  <2>5. QED
    BY <2>3, <2>4
<1>7. reminded' = [i \in Installment |-> reminded'[i]]
  BY <1>1
<1>8. \A i \in Installment : DOMAIN reminded'[i] \subseteq Offsets
  BY <1>3, <1>4
<1>9. QED
  BY <1>6, <1>7, <1>8 DEF FiredOnce

(* Of several overdue installments one is the oldest, and the loan is      *)
(* classified by it.                                                       *)
LEMMA OldestDecides ==
    ASSUME NEW overdue \in SUBSET Installment, overdue # {}
    PROVE  \E oldest \in overdue :
              /\ \A j \in overdue : Due[oldest] <= Due[j]
              /\ Reclassified(overdue) = Classify(DaysOverdue(oldest))
<1> DEFINE Oldest(i) == \A j \in overdue : Due[i] <= Due[j]
<1>1. \E i \in overdue : Oldest(i)
  <2> DEFINE dues == {Due[i] : i \in overdue}
  <2>1. dues \in SUBSET Nat /\ dues # {}
    BY DueAssumption
  <2>2. PICK m \in dues : \A n \in dues : m <= n
    BY <2>1, LeastNumber
  <2>3. QED
    BY <2>2
<1>2. Reclassified(overdue) =
        Classify(DaysOverdue(CHOOSE i \in overdue : Oldest(i)))
  BY DEF Reclassified
<1>3. /\ (CHOOSE i \in overdue : Oldest(i)) \in overdue
      /\ Oldest(CHOOSE i \in overdue : Oldest(i))
  BY <1>1
<1>4. QED
  BY <1>2, <1>3

LEMMA Classified == \A days : Classify(days) \in
                      {"PASS", "SUBSTANDARD", "DOUBTFUL", "LOSS"}
  BY DEF Classify

LEMMA JobKeepsCollections ==
    ASSUME CollectionsInv, RunDailyEmiJob
    PROVE  CollectionsInv'
<1>1. /\ now \in Nat /\ lastJob' = now /\ Midnight(now)
      /\ UNCHANGED <<now, missed, payments>>
  BY BoundsAssumption
     DEF RunDailyEmiJob, CollectionsInv, CollectionsTypeOK
<1>2. emiStatus' \in [Installment -> {"UPCOMING", "PARTIAL", "OVERDUE", "PAID"}]
  BY DEF RunDailyEmiJob, Marked, CollectionsInv, CollectionsTypeOK
<1>3. class' \in {"PASS", "SUBSTANDARD", "DOUBTFUL", "LOSS"}
  <2>1. class' = Reclassified(Overdue(Marked))
    BY DEF RunDailyEmiJob
  <2>2. CASE Overdue(Marked) = {}
    BY <2>1, <2>2 DEF Reclassified
  <2>3. CASE Overdue(Marked) # {}
    BY <2>1, <2>3, OldestDecides, Classified DEF Overdue
  <2>4. QED
    BY <2>2, <2>3
<1>4. CollectionsTypeOK'
  BY <1>1, <1>2, <1>3, JobKeepsReminders
     DEF CollectionsInv, CollectionsTypeOK
<1>5. OverdueWasDue'
  <2> SUFFICES ASSUME NEW i \in Installment, emiStatus'[i] = "OVERDUE"
               PROVE  Due[i] < now'
    BY DEF OverdueWasDue
  <2>1. emiStatus'[i] =
          IF FallsOverdue(i) THEN "OVERDUE" ELSE emiStatus[i]
    BY DEF RunDailyEmiJob, Marked
  <2>2. FallsOverdue(i) => Due[i] < now
    BY <1>1, Midnights DEF FallsOverdue
  <2>3. QED
    BY <1>1, <2>1, <2>2 DEF CollectionsInv, OverdueWasDue
<1>6. QED
  BY <1>1, <1>4, <1>5, JobKeepsReminders DEF CollectionsInv, Midnight

LEMMA CollectionsInvKept ==
    ASSUME CollectionsInv, [CollectionsNext]_collections
    PROVE  CollectionsInv'
<1>1. CASE UNCHANGED collections
  BY <1>1 DEF collections, CollectionsInv, CollectionsTypeOK, OverdueWasDue,
     FiredOnce, Midnight
<1>2. CASE RunDailyEmiJob
  BY <1>2, JobKeepsCollections
<1>3. CASE Tick
  <2>1. now \in Nat /\ now' = now + 1 /\ now' \in 0..LastTime
    BY <1>3, BoundsAssumption DEF Tick, CollectionsInv, CollectionsTypeOK
  <2>2. lastJob \in 0..now' /\ missed' \in 0..MaxMissed
    BY <1>3, <2>1, BoundsAssumption
       DEF Tick, CollectionsInv, CollectionsTypeOK
  <2>3. UNCHANGED <<emiStatus, class, reminded, lastJob, payments>>
    BY <1>3 DEF Tick
  <2>4. CollectionsTypeOK'
    BY <2>1, <2>2, <2>3 DEF CollectionsInv, CollectionsTypeOK
  <2>5. OverdueWasDue'
    BY <2>1, <2>3, DueAssumption DEF CollectionsInv, OverdueWasDue
  <2>6. QED
    BY <2>3, <2>4, <2>5 DEF CollectionsInv, FiredOnce, Midnight
<1>4. ASSUME NEW i \in Installment, NEW s \in {"PAID", "PARTIAL"},
             MarkPaid(i, s)
      PROVE  CollectionsInv'
  <2>1. UNCHANGED <<now, class, reminded, lastJob, missed>>
    BY <1>4 DEF MarkPaid
  <2>2. /\ payments' \in 0..MaxPayments
        /\ emiStatus' \in
             [Installment -> {"UPCOMING", "PARTIAL", "OVERDUE", "PAID"}]
    BY <1>4, BoundsAssumption
       DEF MarkPaid, CollectionsInv, CollectionsTypeOK
  <2>3. CollectionsTypeOK'
    BY <2>1, <2>2 DEF CollectionsInv, CollectionsTypeOK
  <2>4. OverdueWasDue'
    <3>1. \A j \in Installment :
            emiStatus'[j] = "OVERDUE" => emiStatus[j] = "OVERDUE"
      BY <1>4 DEF MarkPaid, CollectionsInv, CollectionsTypeOK
    <3>2. QED
      BY <2>1, <3>1 DEF CollectionsInv, OverdueWasDue
  <2>5. QED
    BY <2>1, <2>3, <2>4 DEF CollectionsInv, FiredOnce, Midnight
<1>5. QED
  BY <1>1, <1>2, <1>3, <1>4 DEF CollectionsNext

LEMMA CollectionsInvInitially == CollectionsInit => CollectionsInv
<1> SUFFICES ASSUME CollectionsInit PROVE CollectionsInv
  OBVIOUS
<1>1. \A i \in Installment : DOMAIN reminded[i] = {}
  BY DEF CollectionsInit
<1>2. \A i \in Installment : emiStatus[i] = "UPCOMING"
  BY DEF CollectionsInit
<1>3. CollectionsTypeOK
  BY <1>1, BoundsAssumption DEF CollectionsInit, CollectionsTypeOK
<1>4. reminded = [i \in Installment |-> reminded[i]] /\ Midnight(lastJob)
  BY DEF CollectionsInit, Midnight, Day
<1>5. OverdueWasDue /\ FiredOnce
  BY <1>1, <1>2 DEF OverdueWasDue, FiredOnce
<1>6. QED
  BY <1>3, <1>4, <1>5 DEF CollectionsInv

LEMMA CollectionsInvHolds == CollectionsSpec => []CollectionsInv
  BY CollectionsInvInitially, CollectionsInvKept, PTL DEF CollectionsSpec

(* The daily job's states are of the declared types, whatever the          *)
(* installments and the nights it misses.                                  *)
THEOREM CollectionsTypeCorrect == CollectionsSpec => []CollectionsTypeOK
<1>1. CollectionsInv => CollectionsTypeOK
  BY DEF CollectionsInv
<1>2. QED
  BY <1>1, CollectionsInvHolds, PTL

(* An age of a day or less than a day, counted in half days, falls into    *)
(* one tile.                                                               *)
LEMMA OneTile ==
    ASSUME NEW i \in Installment, emiStatus[i] = "OVERDUE",
           Age(i) \in Nat, Age(i) > 0
    PROVE  \E b \in Buckets : {c \in Buckets : InTile(i, c)} = {b}
<1> DEFINE tiles == {c \in Buckets : InTile(i, c)}
<1>1. \A c \in Buckets : InTile(i, c) <=>
        \/ c = "1-30" /\ Age(i) <= 60
        \/ c = "31-90" /\ Age(i) > 60 /\ Age(i) <= 180
        \/ c = "91-180" /\ Age(i) > 180 /\ Age(i) <= 360
        \/ c = "181-365" /\ Age(i) > 360 /\ Age(i) <= 730
        \/ c = "365+" /\ Age(i) > 730
  BY DEF InTile, OlderThan, LastDay, Buckets, Day
<1>2. CASE Age(i) <= 60
  <2>1. tiles = {"1-30"}
    BY <1>1, <1>2 DEF Buckets
  <2>2. QED
    BY <2>1 DEF Buckets
<1>3. CASE Age(i) > 60 /\ Age(i) <= 180
  <2>1. tiles = {"31-90"}
    BY <1>1, <1>3 DEF Buckets
  <2>2. QED
    BY <2>1 DEF Buckets
<1>4. CASE Age(i) > 180 /\ Age(i) <= 360
  <2>1. tiles = {"91-180"}
    BY <1>1, <1>4 DEF Buckets
  <2>2. QED
    BY <2>1 DEF Buckets
<1>5. CASE Age(i) > 360 /\ Age(i) <= 730
  <2>1. tiles = {"181-365"}
    BY <1>1, <1>5 DEF Buckets
  <2>2. QED
    BY <2>1 DEF Buckets
<1>6. CASE Age(i) > 730
  <2>1. tiles = {"365+"}
    BY <1>1, <1>6 DEF Buckets
  <2>2. QED
    BY <2>1 DEF Buckets
<1>7. QED
  BY <1>2, <1>3, <1>4, <1>5, <1>6

LEMMA ListedIsInTile ==
    ASSUME NEW i \in Installment, NEW b \in Buckets, Age(i) \in Int,
           Listed(i, b)
    PROVE  InTile(i, b)
  BY DEF Listed, InTile, FirstDay, LastDay, OlderThan, Buckets, Day

(* Whatever the due dates, the payments and the nights missed: an overdue  *)
(* installment is in one tile of the overview, a listed one in the tile of *)
(* its bucket, and no trigger reminds twice (getOverview, getOverdue,      *)
(* getEntriesDueForReminder).                                              *)
THEOREM AgesCountOnce == CollectionsSpec => []AgeingSound
<1>1. CollectionsInv => AgeingSound
  <2> SUFFICES ASSUME CollectionsInv PROVE AgeingSound
    OBVIOUS
  <2>1. \A i \in Installment : Age(i) \in Int
    BY BoundsAssumption, DueAssumption
       DEF CollectionsInv, CollectionsTypeOK, Age
  <2>2. EveryOverdueInOneTile
    <3> SUFFICES ASSUME NEW i \in Installment, emiStatus[i] = "OVERDUE"
                 PROVE  Cardinality({b \in Buckets : InTile(i, b)}) = 1
      BY DEF EveryOverdueInOneTile
    <3>1. Age(i) > 0 /\ Age(i) \in Nat
      BY BoundsAssumption, DueAssumption
         DEF CollectionsInv, CollectionsTypeOK, OverdueWasDue, Age
    <3>2. \E b \in Buckets : {c \in Buckets : InTile(i, c)} = {b}
      BY <3>1, OneTile
    <3>3. QED
      BY <3>2, FS_Singleton
  <2>3. ListAgreesWithTile
    BY <2>1, ListedIsInTile DEF ListAgreesWithTile
  <2>4. RemindedOnce
    BY DEF CollectionsInv, FiredOnce, RemindedOnce
  <2>5. QED
    BY <2>2, <2>3, <2>4 DEF AgeingSound
<1>2. QED
  BY <1>1, CollectionsInvHolds, PTL

(* After each run of the job, whatever ran and was paid before: a loan     *)
(* with anything due before today unpaid is not on track, and one with an  *)
(* installment 90 days late is not PASS (markOverdueEntries,               *)
(* reclassifyLoans).                                                       *)
THEOREM UnpaidIsSeen == CollectionsSpec => JobSeesWhatIsUnpaid
<1>1. ASSUME CollectionsInv, [CollectionsNext]_collections
      PROVE  [lastJob' # lastJob =>
                \A i \in Installment :
                  emiStatus[i] # "PAID" /\ Due[i] < now =>
                    ~OnTrack' /\ (DaysOverdue(i) >= 90 => class' # "PASS")
             ]_collections
  <2> SUFFICES ASSUME lastJob' # lastJob, NEW i \in Installment,
                      emiStatus[i] # "PAID", Due[i] < now
               PROVE  ~OnTrack' /\ (DaysOverdue(i) >= 90 => class' # "PASS")
    OBVIOUS
  <2>1. RunDailyEmiJob
    BY <1>1 DEF CollectionsNext, collections, Tick, MarkPaid
  <2>2. now \in Nat /\ Midnight(now)
    BY <1>1, <2>1, BoundsAssumption
       DEF RunDailyEmiJob, CollectionsInv, CollectionsTypeOK
  <2>3. Marked[i] = "OVERDUE"
    <3>1. emiStatus[i] \in {"UPCOMING", "PARTIAL", "OVERDUE"}
      BY <1>1 DEF CollectionsInv, CollectionsTypeOK
    <3>2. StartOfDay(now) = now
      BY <2>2, Midnights
    <3>3. QED
      BY <3>1, <3>2 DEF Marked, FallsOverdue
  <2>4. ~OnTrack'
    BY <2>1, <2>3 DEF RunDailyEmiJob, OnTrack
  <2>5. ASSUME DaysOverdue(i) >= 90
        PROVE  class' # "PASS"
    <3>1. i \in Overdue(Marked) /\ Overdue(Marked) \in SUBSET Installment
      BY <2>3 DEF Overdue
    <3>2. class' = Reclassified(Overdue(Marked))
      BY <2>1 DEF RunDailyEmiJob
    <3>3. PICK oldest \in Overdue(Marked) :
             /\ Due[oldest] <= Due[i]
             /\ class' = Classify(DaysOverdue(oldest))
      BY <3>1, <3>2, OldestDecides
    <3>4. Due[i] \in Nat /\ Due[oldest] \in Nat
      BY <3>1, DueAssumption
    <3>5. DaysOverdue(oldest) \in Int /\ DaysOverdue(oldest) >= DaysOverdue(i)
      BY <2>2, <3>3, <3>4 DEF DaysOverdue, Age, Day
    <3>6. DaysOverdue(oldest) >= 90
      BY <2>2, <2>5, <3>4, <3>5 DEF DaysOverdue, Age, Day
    <3>7. QED
      BY <3>3, <3>5, <3>6 DEF Classify
  <2>6. QED
    BY <2>4, <2>5
<1>2. QED
  BY <1>1, CollectionsInvHolds, PTL DEF CollectionsSpec, JobSeesWhatIsUnpaid

-------------------------------------------------------------------------------
(* The schedule.                                                           *)

(* One more power is one more factor.                                      *)
PowerAt(g, b, k) == IF k = 0 THEN 1 ELSE b * g[k - 1]

(* The recursion of a power has a solution.                                *)
LEMMA PowerExists ==
    ASSUME NEW b \in Int
    PROVE  \E p \in [Nat -> Int] : \A k \in Nat : p[k] = PowerAt(p, b, k)
<1> DEFINE UpTo(g, n) ==
        g \in [0..n -> Int] /\ \A k \in 0..n : g[k] = PowerAt(g, b, k)
<1> DEFINE Has(n) == \E g : UpTo(g, n)
<1> DEFINE Missing == {n \in Nat : ~Has(n)}
<1>1. Has(0)
  <2>1. UpTo([k \in 0..0 |-> 1], 0)
    BY DEF PowerAt
  <2>2. QED
    BY <2>1
<1>2. ASSUME NEW n \in Nat, n > 0, Has(n - 1)
      PROVE  Has(n)
  <2>1. PICK g : UpTo(g, n - 1)
    BY <1>2
  <2> HIDE DEF Has
  <2> DEFINE h == [k \in 0..n |-> IF k < n THEN g[k] ELSE b * g[n - 1]]
  <2>2. g[n - 1] \in Int /\ \A k \in 0..n : k < n => g[k] \in Int
    BY <1>2, <2>1
  <2>3. h \in [0..n -> Int]
    BY <2>2
  <2>4. ASSUME NEW k \in 0..n PROVE h[k] = PowerAt(h, b, k)
    <3>1. CASE k = 0
      <4>1. g[0] = 1
        BY <1>2, <2>1 DEF PowerAt
      <4>2. QED
        BY <1>2, <3>1, <4>1 DEF PowerAt
    <3>2. CASE k # 0 /\ k < n
      <4>1. g[k] = b * g[k - 1]
        BY <2>1, <3>2 DEF PowerAt
      <4>2. h[k] = g[k] /\ h[k - 1] = g[k - 1]
        BY <3>2
      <4>3. QED
        BY <3>2, <4>1, <4>2 DEF PowerAt
    <3>3. CASE k = n
      <4>1. h[k] = b * g[n - 1] /\ h[n - 1] = g[n - 1]
        BY <1>2, <3>3
      <4>2. QED
        BY <1>2, <3>3, <4>1 DEF PowerAt
    <3>4. QED
      BY <3>1, <3>2, <3>3
  <2>5. UpTo(h, n)
    BY <2>3, <2>4
  <2>6. QED
    BY <2>5 DEF Has
<1>3. Missing = {}
  <2> HIDE DEF Has
  <2>1. SUFFICES ASSUME Missing # {} PROVE FALSE
    OBVIOUS
  <2>2. PICK m \in Missing : \A n \in Missing : m <= n
    BY <2>1, LeastNumber
  <2>3. m \in Nat /\ m # 0
    BY <1>1
  <2>4. m - 1 \in Nat /\ m > 0
    BY <2>3
  <2>5. Has(m - 1)
    BY <2>2, <2>4
  <2>6. QED
    BY <1>2, <2>2, <2>4, <2>5
<1>4. ASSUME NEW n \in Nat, NEW m \in Nat, n <= m,
             NEW g, UpTo(g, n), NEW h, UpTo(h, m)
      PROVE  g[n] = h[n]
  <2> DEFINE Odd == {k \in 0..n : g[k] # h[k]}
  <2>1. SUFFICES ASSUME Odd # {} PROVE FALSE
    OBVIOUS
  <2>2. PICK k \in Odd : \A i \in Odd : k <= i
    <3>1. Odd \in SUBSET Nat
      OBVIOUS
    <3> HIDE DEF Odd
    <3>2. QED
      BY <2>1, <3>1, LeastNumber
  <2>3. g[k] = PowerAt(g, b, k) /\ h[k] = PowerAt(h, b, k)
    BY <1>4
  <2>4. k # 0
    BY <2>2, <2>3 DEF PowerAt
  <2>5. g[k - 1] = h[k - 1]
    BY <2>2, <2>4
  <2>6. QED
    BY <2>2, <2>3, <2>4, <2>5 DEF PowerAt
<1> DEFINE G(n) == CHOOSE g : UpTo(g, n)
<1>5. ASSUME NEW n \in Nat PROVE UpTo(G(n), n)
  <2>1. Has(n)
    BY <1>3
  <2>2. QED
    BY <2>1
<1> HIDE DEF G
<1>6. ASSUME NEW n \in Nat
      PROVE  /\ G(n)[n] \in Int
             /\ G(n)[n] = PowerAt(G(n), b, n)
  <2>1. n \in 0..n
    OBVIOUS
  <2>2. QED
    BY <1>5, <2>1
<1> DEFINE p == [n \in Nat |-> G(n)[n]]
<1>7. p \in [Nat -> Int]
  BY <1>6
<1>8. ASSUME NEW k \in Nat PROVE p[k] = PowerAt(p, b, k)
  <2>1. CASE k = 0
    BY <1>6, <2>1 DEF PowerAt
  <2>2. CASE k # 0
    <3>1. k - 1 \in Nat /\ k - 1 <= k
      BY <2>2
    <3>2. UpTo(G(k - 1), k - 1) /\ UpTo(G(k), k)
      BY <1>5, <3>1
    <3> HIDE DEF UpTo
    <3>3. G(k - 1)[k - 1] = G(k)[k - 1]
      BY <1>4, <3>1, <3>2
    <3>4. QED
      BY <1>6, <2>2, <3>1, <3>3 DEF PowerAt
  <2>3. QED
    BY <2>1, <2>2
<1>9. QED
  <2> HIDE DEF p
  <2>1. QED
    BY <1>7, <1>8

(* Power multiplies.                                                       *)
LEMMA PowerMultiplies ==
    ASSUME NEW b \in Int, NEW n \in Nat
    PROVE  /\ Power(b, n) \in Int
           /\ n = 0 => Power(b, n) = 1
           /\ n # 0 => Power(b, n) = b * Power(b, n - 1)
<1> DEFINE Step(q) == [k \in Nat |-> IF k = 0 THEN 1 ELSE b * q[k - 1]]
           power == CHOOSE q : q = Step(q)
<1>1. PICK p \in [Nat -> Int] : \A k \in Nat : p[k] = PowerAt(p, b, k)
  BY PowerExists
<1>2. p = Step(p)
  BY <1>1 DEF PowerAt
<1>3. power = Step(power)
  <2> HIDE DEF Step
  <2>1. QED
    BY <1>2
<1>4. \A k \in Nat : Power(b, k) = power[k]
  BY Zenon DEF Power
<1>5. PICK q : q = power
  OBVIOUS
<1> HIDE DEF power
<1>6. \A k \in Nat : q[k] = PowerAt(q, b, k)
  BY <1>3, <1>5 DEF PowerAt
<1>7. \A k \in Nat : q[k] = p[k]
  <2> DEFINE Odd == {k \in Nat : q[k] # p[k]}
  <2>1. SUFFICES ASSUME Odd # {} PROVE FALSE
    OBVIOUS
  <2>2. PICK k \in Odd : \A i \in Odd : k <= i
    <3>1. Odd \in SUBSET Nat
      OBVIOUS
    <3> HIDE DEF Odd
    <3>2. QED
      BY <2>1, <3>1, LeastNumber
  <2>3. k # 0
    BY <1>1, <1>6, <2>2 DEF PowerAt
  <2>4. q[k - 1] = p[k - 1]
    BY <2>2, <2>3
  <2>5. QED
    BY <1>1, <1>6, <2>2, <2>3, <2>4 DEF PowerAt
<1>8. /\ Power(b, n) = p[n]
      /\ n # 0 => Power(b, n - 1) = p[n - 1]
  BY <1>4, <1>5, <1>7
<1>9. QED
  BY <1>1, <1>8 DEF PowerAt

(* The power of the greater base is the greater.                           *)
LEMMA PowerGrows ==
    ASSUME NEW a \in Nat, NEW b \in Nat, 0 < b, b < a, NEW n \in Nat
    PROVE  /\ Power(b, n) >= 1
           /\ Power(a, n) >= Power(b, n)
           /\ n > 0 => Power(a, n) > Power(b, n)
<1> DEFINE Grows(k) == /\ Power(b, k) >= 1
                       /\ Power(a, k) >= Power(b, k)
                       /\ k > 0 => Power(a, k) > Power(b, k)
           Odd == {k \in Nat : ~Grows(k)}
<1>1. SUFFICES ASSUME Odd # {} PROVE FALSE
  OBVIOUS
<1>2. PICK k \in Odd : \A i \in Odd : k <= i
  <2>1. Odd \in SUBSET Nat
    OBVIOUS
  <2> HIDE DEF Odd
  <2>2. QED
    BY <1>1, <2>1, LeastNumber
<1>3. k # 0
  <2>1. \A c \in Int : Power(c, 0) = 1
    BY PowerMultiplies
  <2>2. Power(a, 0) = 1 /\ Power(b, 0) = 1
    BY <2>1
  <2>3. QED
    BY <1>2, <2>2
<1>4. Grows(k - 1)
  BY <1>2, <1>3
<1>5. PICK A \in Int, B \in Int : A = Power(a, k - 1) /\ B = Power(b, k - 1)
  BY <1>2, <1>3, PowerMultiplies
<1>6. Power(a, k) = a * A /\ Power(b, k) = b * B
  <2>1. k \in Nat
    BY <1>2
  <2>2. \A c \in Int : Power(c, k) = c * Power(c, k - 1)
    BY <1>3, <2>1, PowerMultiplies
  <2>3. QED
    BY <1>5, <2>2
<1>7. B >= 1 /\ A >= B
  BY <1>4, <1>5
<1>8. b * B >= 1 /\ a * A > b * B
  <2>1. b * B >= b
    BY <1>7
  <2>2. a * A >= a * B
    BY <1>7
  <2>3. (a - b) * B > 0
    BY <1>7
  <2>4. a * B > b * B
    BY <2>3
  <2>5. QED
    BY <2>1, <2>2, <2>4
<1>9. Grows(k)
  BY <1>6, <1>8
<1>10. QED
  BY <1>2, <1>9

(* The greater base gains with every power on the smaller.                 *)
LEMMA PowersKeepOrder ==
    ASSUME NEW a \in Nat, NEW b \in Nat, 0 < b, b < a,
           NEW k \in Nat, NEW m \in Nat, k <= m
    PROVE  Power(b, k) * Power(a, m) >= Power(a, k) * Power(b, m)
<1> DEFINE Keeps(i) == Power(b, k) * Power(a, i) >= Power(a, k) * Power(b, i)
           Odd == {i \in Nat : k <= i /\ ~Keeps(i)}
<1>1. SUFFICES ASSUME Odd # {} PROVE FALSE
  OBVIOUS
<1>2. PICK i \in Odd : \A j \in Odd : i <= j
  <2>1. Odd \in SUBSET Nat
    OBVIOUS
  <2> HIDE DEF Odd
  <2>2. QED
    BY <1>1, <2>1, LeastNumber
<1>3. ASSUME NEW j \in Nat PROVE Power(a, j) \in Int /\ Power(b, j) \in Int
  <2>1. a \in Int /\ b \in Int
    OBVIOUS
  <2>2. QED
    BY <2>1, PowerMultiplies
<1>4. PICK A \in Int, B \in Int : A = Power(a, k) /\ B = Power(b, k)
  BY <1>3
<1>5. i # k
  BY <1>2, <1>4
<1>6. Keeps(i - 1)
  BY <1>2, <1>5
<1>7. PICK C \in Int, D \in Int : C = Power(a, i - 1) /\ D = Power(b, i - 1)
  <2>1. i - 1 \in Nat
    BY <1>2, <1>5
  <2>2. Power(a, i - 1) \in Int /\ Power(b, i - 1) \in Int
    BY <1>3, <2>1
  <2>3. QED
    BY <2>2
<1>8. Power(a, i) = a * C /\ Power(b, i) = b * D
  <2>1. i \in Nat /\ i # 0
    BY <1>2, <1>5
  <2>2. \A c \in Int : Power(c, i) = c * Power(c, i - 1)
    BY <2>1, PowerMultiplies
  <2>3. QED
    BY <1>7, <2>2
<1>9. A >= 1 /\ D >= 1
  <2>1. A >= 1 /\ i - 1 \in Nat
    BY <1>2, <1>4, <1>5, PowerGrows
  <2>2. QED
    BY <1>7, <2>1, PowerGrows
<1>10. B * C >= A * D
  BY <1>4, <1>6, <1>7
<1>11. B * (a * C) >= A * (b * D)
  <2>1. PICK x \in Int, y \in Nat : x = B * C /\ y = A * D
    BY <1>9
  <2>2. a * x >= a * y /\ a * y >= b * y
    BY <1>10, <2>1
  <2>3. QED
    BY <2>1, <2>2
<1>12. Keeps(i)
  BY <1>4, <1>8, <1>11
<1>13. QED
  BY <1>2, <1>12

(* Math.round() is off by at most a half.                                  *)
LEMMA RoundIsNear ==
    ASSUME NEW x \in Int, NEW d \in Nat, d > 0
    PROVE  /\ Round(x, d) \in Int
           /\ 2 * (Round(x, d) * d) <= 2 * x + d
           /\ 2 * x - d < 2 * (Round(x, d) * d)
<1>1. \A y \in Int, e \in Nat :
        e > 0 => /\ y \div e \in Int
                 /\ e * (y \div e) <= y /\ y < e * (y \div e) + e
  OBVIOUS
<1>2. PICK y \in Int, e \in Nat : y = 2 * x + d /\ e = 2 * d
  OBVIOUS
<1>3. PICK q \in Int : q = y \div e /\ e * q <= y /\ y < e * q + e
  BY <1>1, <1>2
<1>4. Round(x, d) = q
  BY <1>2, <1>3 DEF Round
<1>5. e * q = 2 * (q * d)
  BY <1>2
<1>6. QED
  BY <1>2, <1>3, <1>4, <1>5

(* More is rounded to no less.                                             *)
LEMMA RoundKeepsOrder ==
    ASSUME NEW x \in Int, NEW y \in Int, NEW d \in Nat, d > 0, x <= y
    PROVE  Round(x, d) <= Round(y, d)
<1>1. PICK p \in Int, q \in Int : p = Round(x, d) /\ q = Round(y, d)
  BY RoundIsNear
<1>2. /\ 2 * (p * d) <= 2 * x + d
      /\ 2 * y - d < 2 * (q * d)
  BY <1>1, RoundIsNear
<1>3. SUFFICES ASSUME p >= q + 1 PROVE FALSE
  BY <1>1
<1>4. p * d >= q * d + d
  BY <1>3
<1>5. QED
  BY <1>2, <1>4

-------------------------------------------------------------------------------
(* A loan the loop can run on.                                             *)
LoanIsSound ==
    /\ loan.principal \in Nat \ {0}
    /\ loan.rate.num \in Nat \ {0} /\ loan.rate.den \in Nat \ {0}
    /\ loan.installments \in Nat \ {0}

RowsAreNumbers == /\ outstanding \in Int
                  /\ rows \in Seq(Row)
                  /\ Len(rows) <= loan.installments

(* The equated installment is a number of paisa: the formula never divides *)
(* by zero.                                                                *)
LEMMA EmiIsNumber ==
    ASSUME LoanIsSound
    PROVE  MonthlyEmi(loan) \in Nat
<1>1. PICK num \in Nat, den \in Nat, n \in Nat, P \in Nat :
        /\ num = loan.rate.num /\ den = loan.rate.den
        /\ n = loan.installments /\ P = loan.principal
        /\ num > 0 /\ den > 0 /\ n > 0
  BY DEF LoanIsSound
<1>2. PICK after \in Int, before \in Int :
        after = Power(den + num, n) /\ before = Power(den, n)
  <2>1. \A b \in Int : Power(b, n) \in Int
    BY PowerMultiplies
  <2>2. QED
    BY <2>1
<1>3. before >= 1 /\ after > before
  <2>1. den + num \in Nat /\ den < den + num
    BY <1>1
  <2>2. QED
    BY <1>1, <1>2, <2>1, PowerGrows
<1>4. PICK x \in Int, d \in Int :
        x = P * num * after /\ d = den * (after - before)
  BY <1>1
<1>5. x >= 0 /\ d > 0
  <2>1. P * num >= 0
    BY <1>1
  <2>2. (P * num) * after >= 0
    BY <1>1, <1>3, <2>1
  <2>3. den * (after - before) > 0
    BY <1>1, <1>3
  <2>4. QED
    BY <1>4, <2>2, <2>3
<1>6. Round(x, d) \in Nat
  BY <1>5 DEF Round
<1>7. MonthlyEmi(loan) = Round(x, d)
  BY <1>1, <1>2, <1>4 DEF MonthlyEmi
<1>8. QED
  BY <1>6, <1>7

(* The powers of a loan's rate, above and below the fraction's line.       *)
Above(k) == Power(loan.rate.den + loan.rate.num, k)
Below(k) == Power(loan.rate.den, k)

(* What the powers of a loan's rate are.                                   *)
LEMMA PowersOfLoan ==
    ASSUME LoanIsSound, NEW k \in Nat
    PROVE  /\ Above(k) \in Nat /\ Below(k) \in Nat
           /\ Below(k) >= 1 /\ Above(k) >= Below(k)
           /\ k > 0 => Above(k) > Below(k)
           /\ Above(0) = 1 /\ Below(0) = 1
           /\ Above(k + 1) = (loan.rate.den + loan.rate.num) * Above(k)
           /\ Below(k + 1) = loan.rate.den * Below(k)
<1>1. PICK a \in Nat, d \in Nat : /\ a = loan.rate.num /\ d = loan.rate.den
                                  /\ a > 0 /\ d > 0
  BY DEF LoanIsSound
<1>2. PICK b \in Nat : b = d + a /\ 0 < d /\ d < b
  BY <1>1
<1>3. /\ Power(d, k) >= 1 /\ Power(b, k) >= Power(d, k)
      /\ k > 0 => Power(b, k) > Power(d, k)
  BY <1>2, PowerGrows
<1>4. ASSUME NEW c \in Nat
      PROVE  /\ Power(c, k) \in Int /\ Power(c, 0) = 1
             /\ Power(c, k + 1) = c * Power(c, k)
  <2>1. k + 1 \in Nat /\ k + 1 # 0 /\ (k + 1) - 1 = k
    OBVIOUS
  <2>2. c \in Int /\ 0 \in Nat
    OBVIOUS
  <2>3. Power(c, k) \in Int /\ Power(c, 0) = 1
    BY <2>2, PowerMultiplies
  <2>4. Power(c, k + 1) = c * Power(c, (k + 1) - 1)
    BY <2>1, <2>2, PowerMultiplies
  <2>5. QED
    BY <2>1, <2>3, <2>4
<1>5. PICK B \in Int, D \in Int : B = Power(b, k) /\ D = Power(d, k)
  <2>1. Power(b, k) \in Int /\ Power(d, k) \in Int
    BY <1>4
  <2>2. QED
    BY <2>1
<1>6. /\ Above(k) = B /\ Below(k) = D
      /\ Above(0) = 1 /\ Below(0) = 1
      /\ Above(k + 1) = b * B /\ Below(k + 1) = d * D
  BY <1>1, <1>2, <1>4, <1>5 DEF Above, Below
<1>7. D >= 1 /\ B >= D /\ (k > 0 => B > D)
  BY <1>3, <1>5
<1>8. QED
  BY <1>1, <1>2, <1>6, <1>7

(* The installment is within half a paisa of the formula.                  *)
LEMMA EmiIsNear ==
    ASSUME LoanIsSound
    PROVE  LET n == loan.installments
               d == loan.rate.den
               exact == (loan.principal * loan.rate.num) * Above(n)
               share == MonthlyEmi(loan) * (d * (Above(n) - Below(n)))
           IN  /\ 2 * share <= 2 * exact + d * (Above(n) - Below(n))
               /\ 2 * exact - d * (Above(n) - Below(n)) <= 2 * share
<1>1. PICK a \in Nat, d \in Nat, n \in Nat, P \in Nat, B \in Nat, D \in Nat :
        /\ a = loan.rate.num /\ d = loan.rate.den /\ n = loan.installments
        /\ P = loan.principal /\ B = Above(n) /\ D = Below(n)
        /\ d > 0 /\ B > D
  <2>1. PICK n \in Nat : n = loan.installments /\ n > 0
    BY DEF LoanIsSound
  <2>2. Above(n) \in Nat /\ Below(n) \in Nat /\ Above(n) > Below(n)
    BY <2>1, PowersOfLoan
  <2>3. /\ loan.rate.num \in Nat /\ loan.principal \in Nat
        /\ loan.rate.den \in Nat /\ loan.rate.den > 0
    BY DEF LoanIsSound
  <2>4. QED
    BY <2>1, <2>2, <2>3
<1>2. PICK x \in Int, y \in Nat : x = (P * a) * B /\ y = d * (B - D) /\ y > 0
  <2>1. d * (B - D) > 0
    BY <1>1
  <2>2. QED
    BY <2>1, <1>1
<1>3. MonthlyEmi(loan) = Round(x, y)
  BY <1>1, <1>2 DEF MonthlyEmi, Above, Below
<1>4. /\ Round(x, y) \in Int
      /\ 2 * (Round(x, y) * y) <= 2 * x + y
      /\ 2 * x - y < 2 * (Round(x, y) * y)
  BY <1>2, RoundIsNear
<1>5. QED
  BY <1>1, <1>2, <1>3, <1>4

(* What is repaid is a sum along the rows.                                 *)
Components == [i \in DOMAIN rows |-> rows[i].principal]

RepaidAddsUp ==
    \E g : /\ AddsUp(g, Components, LastOf(DOMAIN rows), DOMAIN rows)
          /\ Repaid = g[DOMAIN rows]

(* The fold over the rows is such a sum.                                   *)
LEMMA RepaidSum == RowsAreNumbers => RepaidAddsUp
<1>1. SUFFICES ASSUME RowsAreNumbers PROVE RepaidAddsUp
  OBVIOUS
<1>2. PICK n \in Nat : DOMAIN rows = 1..n /\ rows \in [1..n -> Row]
  BY <1>1 DEF RowsAreNumbers
<1> DEFINE S == DOMAIN rows
           Step(g) == [t \in SUBSET S |-> IF t = {} THEN 0
                         ELSE g[t \ {Max(t)}] + rows[Max(t)].principal]
           iter == CHOOSE g : g = Step(g)
<1>3. IsFiniteSet(S) /\ Picks(LastOf(S), S)
  BY <1>2, LastIsPicked, FS_Interval
<1>4. Components \in [S -> Int]
  BY <1>2 DEF Components, Row
<1>5. PICK g : AddsUp(g, Components, LastOf(S), S)
  BY <1>3, <1>4, SumExists
<1>6. g = Step(g)
  <2>1. ASSUME NEW t \in SUBSET S, t # {}
        PROVE  g[t] = g[t \ {Max(t)}] + rows[Max(t)].principal
    <3>1. LastOf(S)[t] = Max(t)
      BY DEF LastOf
    <3>2. Max(t) \in t
      BY <1>3, <2>1, <3>1 DEF Picks
    <3>3. g[t \ {Max(t)}] \in Int /\ Components[Max(t)] \in Int
      BY <1>4, <1>5, <3>2 DEF AddsUp
    <3>4. g[t] = Components[Max(t)] + g[t \ {Max(t)}]
      BY <1>5, <2>1, <3>1 DEF AddsUp, SumAt
    <3>5. Components[Max(t)] = rows[Max(t)].principal
      BY <3>2 DEF Components
    <3>6. QED
      BY <3>3, <3>4, <3>5
  <2>2. g[{}] = 0
    BY <1>5 DEF AddsUp, SumAt
  <2>3. g \in [SUBSET S -> Int]
    BY <1>5 DEF AddsUp
  <2>4. QED
    BY <2>1, <2>2, <2>3
<1>7. iter = Step(iter)
  <2> HIDE DEF Step
  <2>1. QED
    BY <1>6
<1>8. Repaid = iter[S]
  BY Zenon DEF Repaid, FoldLeft, MapThenFoldSet
<1>9. iter[S] = g[S]
  <2> HIDE DEF iter
  <2>1. ASSUME NEW t \in SUBSET S, t # {}
        PROVE  /\ LastOf(S)[t] = Max(t)
               /\ iter[t] = iter[t \ {Max(t)}] + rows[Max(t)].principal
               /\ g[t] = g[t \ {Max(t)}] + rows[Max(t)].principal
    BY <1>6, <1>7, <2>1 DEF LastOf
  <2> DEFINE c == LastOf(S)
  <2>2. g[{}] = iter[{}]
    BY <1>6, <1>7
  <2>3. \A t \in SUBSET S :
          t # {} /\ g[t \ {c[t]}] = iter[t \ {c[t]}] => g[t] = iter[t]
    <3> HIDE DEF Step
    <3>1. QED
      BY <2>1
  <2>4. Picks(c, S) /\ IsFiniteSet(S)
    BY <1>3
  <2> HIDE DEF c
  <2>5. PICK h, d, U : h = iter /\ d = c /\ U = S
    OBVIOUS
  <2>6. /\ \A s \in SUBSET U :
             s # {} /\ g[s \ {d[s]}] = h[s \ {d[s]}] => g[s] = h[s]
        /\ g[{}] = h[{}]
        /\ Picks(d, U)
        /\ IsFiniteSet(U)
    BY Zenon, <2>2, <2>3, <2>4, <2>5
  <2>7. h[U] = g[U]
    BY ONLY <2>6, SameInTheEnd
  <2>8. QED
    BY <2>5, <2>7
<1>10. QED
  BY <1>5, <1>8, <1>9 DEF RepaidAddsUp

(* A row repays its principal component.                                   *)
LEMMA RepaidGrows ==
    ASSUME RowsAreNumbers, RowsAreNumbers', NEW row \in Row,
           rows' = Append(rows, row)
    PROVE  Repaid \in Int /\ Repaid' = Repaid + row.principal
<1>1. RepaidAddsUp /\ RepaidAddsUp'
  BY RepaidSum, PTL
<1>2. PICK n \in Nat : /\ DOMAIN rows = 1..n
                      /\ rows \in [1..n -> Row]
                      /\ rows \in Seq(Row)
                      /\ Len(rows) = n
  BY DEF RowsAreNumbers
<1>3. /\ DOMAIN rows' = 1..(n + 1)
      /\ rows'[n + 1] = row
      /\ \A i \in 1..n : rows'[i] = rows[i]
  BY <1>2, AppendProperties
<1>4. PICK f, e : f = Components /\ e = Components'
  OBVIOUS
<1>5. /\ f \in [1..n -> Int]
      /\ e \in [1..(n + 1) -> Int]
      /\ e[n + 1] = row.principal
      /\ \A i \in 1..n : f[i] = e[i]
  <2>1. f \in [1..n -> Int]
    BY <1>2, <1>4 DEF Components, Row
  <2>2. \A i \in 1..n : i \in 1..(n + 1) /\ e[i] = f[i]
    BY <1>2, <1>3, <1>4 DEF Components
  <2>3. e[n + 1] = row.principal
    BY <1>3, <1>4 DEF Components
  <2>4. DOMAIN e = 1..(n + 1) /\ \A i \in 1..(n + 1) : e[i] \in Int
    <3>1. DOMAIN e = 1..(n + 1)
      BY <1>3, <1>4 DEF Components
    <3>2. ASSUME NEW i \in 1..(n + 1) PROVE e[i] \in Int
      <4>1. CASE i = n + 1
        BY <2>3, <4>1 DEF Row
      <4>2. CASE i \in 1..n
        BY <2>1, <2>2, <4>2
      <4>3. QED
        BY <4>1, <4>2
    <3>3. QED
      BY <3>1, <3>2
  <2>5. e \in [1..(n + 1) -> Int]
    <3>1. e = [i \in 1..(n + 1) |-> e[i]]
      BY <1>3, <1>4 DEF Components
    <3>2. QED
      BY <2>4, <3>1
  <2>6. QED
    BY <2>1, <2>2, <2>3, <2>5
<1>6. PICK g : AddsUp(g, f, LastOf(1..n), 1..n) /\ Repaid = g[1..n]
  BY <1>1, <1>2, <1>4 DEF RepaidAddsUp
<1>7. PICK h : AddsUp(h, e, LastOf(1..(n + 1)), 1..(n + 1))
               /\ Repaid' = h[1..(n + 1)]
  BY <1>1, <1>3, <1>4 DEF RepaidAddsUp
<1>8. g[1..n] \in Int /\ h[1..(n + 1)] = g[1..n] + e[n + 1]
  BY ONLY n \in Nat, <1>5, <1>6, <1>7, SumGrows
<1>9. QED
  BY <1>5, <1>6, <1>7, <1>8

-------------------------------------------------------------------------------
(* The loan is one of the terms.                                           *)
LoanOfTerms ==
    \E t \in Terms : loan = [principal |-> t.principal, rate |-> t.rate,
                             installments |-> loan.installments]

AmortizationInv == /\ LoanIsSound /\ LoanOfTerms /\ RowsAreNumbers
                   /\ PrincipalIsRepaid

(* A tenure in whole periods has at least one installment.                 *)
LEMMA InstallmentsArePositive ==
    ASSUME NEW tenure \in Nat, NEW frequency \in Frequencies,
           WholeTenure(tenure, frequency)
    PROVE  tenure \div PeriodMonths(frequency) \in Nat \ {0}
<1>1. PeriodMonths(frequency) \in {1, 3, 12}
  BY DEF Frequencies, PeriodMonths
<1>2. QED
  BY <1>1 DEF WholeTenure

(* Before its first row nothing of the loan is repaid.                     *)
LEMMA AmortizationInits == AmortizationInit => AmortizationInv
<1>1. SUFFICES ASSUME AmortizationInit PROVE AmortizationInv
  OBVIOUS
<1>2. PICK t \in Terms :
        /\ WholeTenure(t.tenureMonths, t.frequency)
        /\ loan = [principal |-> t.principal, rate |-> t.rate,
                   installments |-> t.tenureMonths \div PeriodMonths(t.frequency)]
  BY <1>1 DEF AmortizationInit
<1>3. loan.installments \in Nat \ {0}
  BY <1>2, TermsAssumption, InstallmentsArePositive
<1>4. LoanIsSound /\ LoanOfTerms
  BY <1>2, <1>3, TermsAssumption DEF LoanIsSound, LoanOfTerms
<1>5. rows = <<>> /\ outstanding = loan.principal
  BY <1>1 DEF AmortizationInit
<1>6. RowsAreNumbers
  BY <1>4, <1>5 DEF RowsAreNumbers, LoanIsSound
<1>7. Repaid = 0
  <2>1. PICK g : /\ AddsUp(g, Components, LastOf(DOMAIN rows), DOMAIN rows)
                 /\ Repaid = g[DOMAIN rows]
    BY <1>6, RepaidSum DEF RepaidAddsUp
  <2>2. DOMAIN rows = {}
    BY <1>5
  <2>3. QED
    BY <2>1, <2>2 DEF AddsUp, SumAt
<1>8. PrincipalIsRepaid
  BY <1>4, <1>5, <1>7 DEF PrincipalIsRepaid, LoanIsSound
<1>9. QED
  BY <1>4, <1>6, <1>8 DEF AmortizationInv

(* What a row makes of the loan.                                           *)
RowAdded(interest, principal) ==
    LET n == Len(rows)
    IN  /\ n < loan.installments /\ Len(rows') = n + 1
        /\ interest = Round(outstanding * loan.rate.num, loan.rate.den)
        /\ principal = PrincipalComponent(n + 1, MonthlyEmi(loan) - interest)
        /\ loan' = loan /\ outstanding' = outstanding - principal
        /\ rows' = Append(rows, [emiAmount |-> MonthlyEmi(loan),
                                 interest |-> interest, principal |-> principal])
        /\ rows' \in Seq(Row)

(* A row adds numbers.                                                     *)
LEMMA RowIsAdded ==
    ASSUME LoanIsSound, RowsAreNumbers, AddRow
    PROVE  \E interest, principal \in Int : RowAdded(interest, principal)
<1> DEFINE i == Len(rows) + 1
           interest == Round(outstanding * loan.rate.num, loan.rate.den)
           component == MonthlyEmi(loan) - interest
           principal == PrincipalComponent(i, component)
           row == [emiAmount |-> MonthlyEmi(loan), interest |-> interest,
                   principal |-> principal]
<1>1. /\ i <= loan.installments
      /\ outstanding' = outstanding - principal
      /\ rows' = Append(rows, row)
      /\ loan' = loan
  BY DEF AddRow
<1>2. interest \in Int
  <2>1. PICK num \in Nat, den \in Nat, out \in Int :
          /\ num = loan.rate.num /\ den = loan.rate.den
          /\ out = outstanding /\ den > 0
    BY DEF LoanIsSound, RowsAreNumbers
  <2>2. out * num \in Int
    BY <2>1
  <2>3. Round(out * num, den) \in Int
    BY <2>1, <2>2, RoundIsNear
  <2>4. QED
    BY <2>1, <2>3
<1>3. MonthlyEmi(loan) \in Nat
  BY EmiIsNumber
<1>4. interest = Round(outstanding * loan.rate.num, loan.rate.den)
  OBVIOUS
<1> HIDE DEF interest
<1>5. principal \in Int
  BY <1>2, <1>3 DEF PrincipalComponent, RowsAreNumbers
<1>6. principal = PrincipalComponent(Len(rows) + 1, MonthlyEmi(loan) - interest)
  OBVIOUS
<1> HIDE DEF principal
<1>7. row \in Row
  BY <1>2, <1>3, <1>5 DEF Row
<1> HIDE DEF row
<1>8. /\ rows' \in Seq(Row) /\ Len(rows') = i
      /\ Len(rows) \in Nat /\ loan.installments \in Nat
  BY <1>1, <1>7, AppendProperties DEF RowsAreNumbers, LoanIsSound
<1>9. RowAdded(interest, principal)
  BY <1>1, <1>4, <1>6, <1>8 DEF RowAdded, row
<1>10. QED
  BY <1>2, <1>5, <1>9

(* Every row keeps the sum, and the last one takes what is left.           *)
LEMMA RowKeepsAmortization ==
    AmortizationInv /\ [AmortizationNext]_amortization => AmortizationInv'
<1>1. SUFFICES ASSUME AmortizationInv, [AmortizationNext]_amortization
               PROVE  AmortizationInv'
  OBVIOUS
<1>2. CASE AddRow
  <2>1. LoanIsSound /\ RowsAreNumbers /\ PrincipalIsRepaid /\ LoanOfTerms
    BY <1>1 DEF AmortizationInv
  <2>2. PICK interest \in Int, principal \in Int : RowAdded(interest, principal)
    BY <1>2, <2>1, RowIsAdded
  <2>3. PICK row \in Row : row.principal = principal /\ rows' = Append(rows, row)
    BY <2>1, <2>2, EmiIsNumber DEF RowAdded, Row
  <2>4. PICK n \in Nat, k \in Nat :
          /\ n = loan.installments /\ k = Len(rows) /\ k < n
          /\ loan' = loan /\ Len(rows') = k + 1 /\ rows' \in Seq(Row)
          /\ outstanding' = outstanding - principal
          /\ k + 1 = n => principal = outstanding
    BY <2>1, <2>2 DEF RowAdded, PrincipalComponent, LoanIsSound, RowsAreNumbers
  <2>5. LoanIsSound' /\ LoanOfTerms'
    BY <2>1, <2>4 DEF LoanIsSound, LoanOfTerms
  <2>6. RowsAreNumbers'
    BY <2>1, <2>4 DEF RowsAreNumbers
  <2>7. Repaid \in Int /\ Repaid' = Repaid + principal
    BY <2>1, <2>3, <2>4, <2>6, RepaidGrows
  <2>8. (Repaid + outstanding = loan.principal)'
    BY <2>1, <2>4, <2>7 DEF PrincipalIsRepaid, RowsAreNumbers
  <2>9. (Len(rows) = loan.installments => outstanding = 0)'
    BY <2>1, <2>4 DEF RowsAreNumbers
  <2>10. QED
    BY <2>5, <2>6, <2>8, <2>9 DEF AmortizationInv, PrincipalIsRepaid
<1>3. CASE UNCHANGED amortization
  <2>1. UNCHANGED <<loan, outstanding, rows>>
    BY <1>3 DEF amortization
  <2>2. LoanIsSound' /\ LoanOfTerms' /\ RowsAreNumbers'
    BY <1>1, <2>1 DEF AmortizationInv, LoanIsSound, LoanOfTerms, RowsAreNumbers
  <2>3. Repaid' = Repaid
    <3>1. RowsAreNumbers /\ RepaidAddsUp /\ RepaidAddsUp'
      <4>1. RowsAreNumbers /\ RowsAreNumbers'
        BY <1>1, <2>2 DEF AmortizationInv
      <4>2. QED
        BY <4>1, RepaidSum, PTL
    <3>2. PICK n \in Nat : DOMAIN rows = 1..n
      BY <3>1 DEF RowsAreNumbers
    <3>3. Components' = Components
      BY <2>1 DEF Components
    <3>4. PICK f, c : f = Components /\ c = LastOf(1..n)
      OBVIOUS
    <3>5. PICK g : AddsUp(g, f, c, 1..n) /\ Repaid = g[1..n]
      BY <3>1, <3>2, <3>4 DEF RepaidAddsUp
    <3>6. PICK h : AddsUp(h, f, c, 1..n) /\ Repaid' = h[1..n]
      BY <2>1, <3>1, <3>2, <3>3, <3>4 DEF RepaidAddsUp
    <3>7. IsFiniteSet(1..n) /\ Picks(c, 1..n)
      BY <3>4, FS_Interval, LastIsPicked
    <3>8. h[1..n] = g[1..n]
      BY ONLY <3>5, <3>6, <3>7, SameSum
    <3>9. QED
      BY <3>5, <3>6, <3>8
  <2>4. QED
    BY <1>1, <2>1, <2>2, <2>3 DEF AmortizationInv, PrincipalIsRepaid
<1>4. QED
  BY <1>1, <1>2, <1>3 DEF AmortizationNext

(* The principal components of a schedule add up, row by row, to what was  *)
(* repaid, and once it is complete to the principal, for every loan, rate  *)
(* and tenure it is made for (generateSchedule, the last row).             *)
THEOREM PrincipalComesBack == AmortizationSpec => []PrincipalIsRepaid
<1>1. AmortizationInv => PrincipalIsRepaid
  BY DEF AmortizationInv
<1>2. QED
  BY AmortizationInits, RowKeepsAmortization, <1>1, PTL DEF AmortizationSpec

(* The schedule's states are of the declared types, for every loan, rate   *)
(* and tenure (generateSchedule).                                          *)
THEOREM ScheduleTypeCorrect == AmortizationSpec => []AmortizationTypeOK
<1>1. AmortizationInv => AmortizationTypeOK
  <2>1. SUFFICES ASSUME AmortizationInv PROVE AmortizationTypeOK
    OBVIOUS
  <2>2. LoanIsSound /\ LoanOfTerms /\ RowsAreNumbers
    BY <2>1 DEF AmortizationInv
  <2>3. loan.installments \in Nat \ {0} /\ Len(rows) \in 0..loan.installments
    BY <2>2 DEF LoanIsSound, RowsAreNumbers
  <2>4. QED
    BY <2>2, <2>3 DEF AmortizationTypeOK, LoanOfTerms, RowsAreNumbers
<1>2. QED
  BY AmortizationInits, RowKeepsAmortization, <1>1, PTL DEF AmortizationSpec

-------------------------------------------------------------------------------
(* Rounding, through the schedule.                                         *)

(* Where a balance O after k rows is off the formula's, which is           *)
(* P(1+r)^k - E((1+r)^k - 1)/r with r = a/d, B = (d + a)^k and D = d^k:    *)
(* the difference, times a * D.                                            *)
Drift(O, P, E, a, d, B, D) == (O * a) * D - (a * P) * B + (E * d) * (B - D)

(* That is half a paisa of rounding in every row so far, compounded.       *)
WithinRounding(O, k) ==
    LET drift == Drift(O, loan.principal, MonthlyEmi(loan),
                       loan.rate.num, loan.rate.den, Above(k), Below(k))
        most == loan.rate.den * (Above(k) - Below(k))
    IN  2 * drift <= most /\ -most <= 2 * drift

DriftBounded ==
    Len(rows) < loan.installments => WithinRounding(outstanding, Len(rows))

(* With an installment above the first interest, no row adds to the debt.  *)
NeverGrows == OutweighsRounding(loan) => outstanding <= loan.principal

ScheduleInv == AmortizationInv /\ DriftBounded /\ NeverGrows /\ ScheduleAddsUp

(* The drift after one more row.                                           *)
LEMMA DriftOfRow ==
    ASSUME LoanIsSound, RowsAreNumbers, DriftBounded,
           NEW interest \in Int, Len(rows) < loan.installments,
           interest = Round(outstanding * loan.rate.num, loan.rate.den)
    PROVE  WithinRounding(outstanding - (MonthlyEmi(loan) - interest),
                          Len(rows) + 1)
<1>1. PICK k \in Nat : k = Len(rows)
  BY DEF RowsAreNumbers
<1>2. PICK a \in Nat, d \in Nat, P \in Nat, E \in Nat, O \in Int :
        /\ a = loan.rate.num /\ d = loan.rate.den /\ P = loan.principal
        /\ E = MonthlyEmi(loan) /\ O = outstanding /\ d > 0
  BY EmiIsNumber DEF LoanIsSound, RowsAreNumbers
<1>3. PICK B \in Nat, D \in Nat :
        /\ B = Above(k) /\ D = Below(k)
        /\ Above(k + 1) = (d + a) * B /\ Below(k + 1) = d * D
  BY <1>2, PowersOfLoan
<1>4. PICK X \in Int, J \in Int :
        X = Drift(O, P, E, a, d, B, D) /\ J = interest * d - O * a
  BY DEF Drift
<1>5. 2 * X <= d * (B - D) /\ -(d * (B - D)) <= 2 * X
  BY <1>1, <1>2, <1>3, <1>4 DEF DriftBounded, WithinRounding
<1>6. 2 * J <= d /\ -d <= 2 * J
  <2>1. PICK x \in Int, y \in Int : x = O * a /\ y = interest * d
    OBVIOUS
  <2>2. interest = Round(x, d)
    BY <1>2, <2>1
  <2>3. 2 * y <= 2 * x + d /\ 2 * x - d < 2 * y
    BY <1>2, <2>1, <2>2, RoundIsNear
  <2>4. QED
    BY ONLY <1>4, <2>1, <2>3
<1>7. PICK V \in Int, Bn \in Int, Dn \in Int :
        V = O - (E - interest) /\ Bn = (d + a) * B /\ Dn = d * D
  OBVIOUS
<1>8. PICK b \in Nat, c \in Nat, w \in Int :
        b = d + a /\ c = D * a /\ w = d * (B - D)
  OBVIOUS
<1>9. Drift(V, P, E, a, d, Bn, Dn) = b * X + c * J
  BY ONLY <1>4, <1>7, <1>8 DEF Drift
<1>10. d * (Bn - Dn) = b * w + c * d
  BY <1>7, <1>8
<1>11. b * (2 * X) <= b * w /\ -(b * w) <= b * (2 * X)
  BY <1>5, <1>8
<1>12. c * (2 * J) <= c * d /\ -(c * d) <= c * (2 * J)
  BY <1>6
<1>13. b * (2 * X) = 2 * (b * X) /\ c * (2 * J) = 2 * (c * J)
  OBVIOUS
<1>14. PICK p \in Int, q \in Int, r \in Int, s \in Int :
         p = b * X /\ q = c * J /\ r = b * w /\ s = c * d
  OBVIOUS
<1>15. /\ Drift(V, P, E, a, d, Bn, Dn) \in Int
       /\ 2 * Drift(V, P, E, a, d, Bn, Dn) <= d * (Bn - Dn)
       /\ -(d * (Bn - Dn)) <= 2 * Drift(V, P, E, a, d, Bn, Dn)
  BY ONLY <1>9, <1>10, <1>11, <1>12, <1>13, <1>14
<1>16. QED
  BY <1>1, <1>2, <1>3, <1>7, <1>15 DEF WithinRounding

(* While a row is to come, an installment that outweighs the rounding      *)
(* leaves something for it.                                                *)
LEMMA OwedUntilLast ==
    /\ LoanIsSound /\ RowsAreNumbers /\ DriftBounded
    /\ OutweighsRounding(loan) /\ Len(rows) < loan.installments
    => outstanding > 0
<1>1. SUFFICES ASSUME LoanIsSound, RowsAreNumbers, DriftBounded,
                      OutweighsRounding(loan), Len(rows) < loan.installments
               PROVE  outstanding > 0
  OBVIOUS
<1>2. PICK k \in Nat, m \in Nat :
        k = Len(rows) /\ k <= m /\ loan.installments = m + 1
  <2>1. PICK k \in Nat, n \in Nat : k = Len(rows) /\ n = loan.installments
    BY <1>1 DEF RowsAreNumbers, LoanIsSound
  <2>2. PICK m \in Int : m = n - 1 /\ m >= 0 /\ k <= m /\ n = m + 1
    BY <1>1, <2>1
  <2>3. QED
    BY <2>1, <2>2
<1>3. PICK a \in Nat, d \in Nat, P \in Nat, E \in Nat, O \in Int :
        /\ a = loan.rate.num /\ d = loan.rate.den /\ P = loan.principal
        /\ E = MonthlyEmi(loan) /\ O = outstanding /\ a > 0 /\ d > 0
  BY <1>1, EmiIsNumber DEF LoanIsSound, RowsAreNumbers
<1>4. PICK Bk \in Nat, Dk \in Nat :
        Bk = Above(k) /\ Dk = Below(k) /\ Bk > 0 /\ Dk > 0
  <2>1. /\ Above(k) \in Nat /\ Below(k) \in Nat
        /\ Below(k) >= 1 /\ Above(k) >= Below(k)
    BY <1>1, PowersOfLoan
  <2>2. QED
    BY <2>1
<1>5. PICK B \in Nat, D \in Nat, Bn \in Nat, Dn \in Nat :
        /\ B = Above(m) /\ D = Below(m) /\ D > 0
        /\ Bn = Above(m + 1) /\ Dn = Below(m + 1) /\ Bn > Dn
        /\ Bn = (d + a) * B /\ Dn = d * D
  <2>1. /\ Above(m) \in Nat /\ Below(m) \in Nat /\ Below(m) > 0
        /\ Above(m + 1) = (d + a) * Above(m) /\ Below(m + 1) = d * Below(m)
    <3>1. /\ Above(m) \in Nat /\ Below(m) \in Nat /\ Below(m) >= 1
          /\ Above(m + 1) = (loan.rate.den + loan.rate.num) * Above(m)
          /\ Below(m + 1) = loan.rate.den * Below(m)
      BY <1>1, PowersOfLoan
    <3>2. QED
      BY <1>3, <3>1
  <2>2. PICK n \in Nat : n = m + 1 /\ n > 0
    OBVIOUS
  <2>3. Above(n) \in Nat /\ Below(n) \in Nat /\ Above(n) > Below(n)
    BY <1>1, <2>2, PowersOfLoan
  <2>4. QED
    BY <2>1, <2>2, <2>3
<1>6. Dk * B >= Bk * D
  <2>1. PICK b \in Nat : b = d + a /\ 0 < d /\ d < b
    BY <1>3
  <2>2. Power(d, k) * Power(b, m) >= Power(b, k) * Power(d, m)
    BY <1>2, <2>1, PowersKeepOrder
  <2>3. QED
    BY <1>3, <1>4, <1>5, <2>1, <2>2 DEF Above, Below
<1>7. PICK X \in Int : /\ X = Drift(O, P, E, a, d, Bk, Dk)
                       /\ -(d * (Bk - Dk)) <= 2 * X
  <2>1. Drift(O, P, E, a, d, Bk, Dk) \in Int
    BY DEF Drift
  <2>2. -(d * (Bk - Dk)) <= 2 * Drift(O, P, E, a, d, Bk, Dk)
    BY <1>1, <1>2, <1>3, <1>4 DEF DriftBounded, WithinRounding
  <2>3. QED
    BY <2>1, <2>2
<1>8. 2 * (E * (d * (Bn - Dn))) <= 2 * ((P * a) * Bn) + d * (Bn - Dn)
  BY <1>1, <1>2, <1>3, <1>5, EmiIsNear
<1>9. E * (a * D) > Bn - Dn
  BY <1>1, <1>2, <1>3, <1>5 DEF OutweighsRounding, Unit, Grown, Above, Below
<1>10. PICK G \in Int : G = Dk * Bn - Bk * Dn
  OBVIOUS
<1>11. G >= Bk * (a * D) /\ G >= 0
  <2>1. PICK x \in Nat, y \in Nat : x = Dk * B /\ y = Bk * D
    OBVIOUS
  <2>2. (d + a) * x >= (d + a) * y
    BY <1>6, <2>1
  <2>3. G = (d + a) * x - d * y
    BY <1>5, <1>10, <2>1
  <2>4. Bk * (a * D) = (d + a) * y - d * y /\ Bk * (a * D) >= 0
    BY <2>1
  <2>5. QED
    BY <2>2, <2>3, <2>4
<1>12. E * G > Bk * (Bn - Dn)
  <2>1. E * G >= E * (Bk * (a * D))
    BY <1>11
  <2>2. E * (Bk * (a * D)) = Bk * (E * (a * D))
    OBVIOUS
  <2>3. Bk * (E * (a * D)) > Bk * (Bn - Dn)
    BY <1>4, <1>9
  <2>4. QED
    BY <2>1, <2>2, <2>3
<1>13. ((O * a) * Dk) * Bn > 0
  <2>1. (2 * X) * Bn >= (-(d * (Bk - Dk))) * Bn
    BY <1>7
  <2>2. Bk * (2 * (E * (d * (Bn - Dn)))) <= Bk * (2 * ((P * a) * Bn) + d * (Bn - Dn))
    BY <1>8
  <2>3. Bk * (2 * ((P * a) * Bn) + d * (Bn - Dn))
        = Bk * (2 * ((P * a) * Bn)) + Bk * (d * (Bn - Dn))
    OBVIOUS
  <2>4. (2 * X) * Bn = 2 * (((O * a) * Dk) * Bn) - Bk * (2 * ((P * a) * Bn))
                        + 2 * ((E * d) * ((Bk - Dk) * Bn))
    BY <1>7 DEF Drift
  <2>5. PICK w \in Int : w = 2 * (E * G) - 2 * (Bk * (Bn - Dn)) + G
    OBVIOUS
  <2>6. d * w = Bk * (2 * (E * (d * (Bn - Dn)))) - Bk * (d * (Bn - Dn))
                - 2 * ((E * d) * ((Bk - Dk) * Bn)) + (-(d * (Bk - Dk))) * Bn
    BY <1>10, <2>5
  <2>7. 2 * (((O * a) * Dk) * Bn) >= d * w
    BY <2>1, <2>2, <2>3, <2>4, <2>6
  <2>8. w > 0
    BY <1>11, <1>12, <2>5
  <2>9. d * w > 0
    BY <1>3, <2>8
  <2>10. QED
    BY <2>7, <2>9
<1>14. O > 0
  <2>1. SUFFICES ASSUME O <= 0 PROVE FALSE
    OBVIOUS
  <2>2. PICK c \in Nat : c = (a * Dk) * Bn
    OBVIOUS
  <2>3. ((O * a) * Dk) * Bn = O * c
    BY <2>2
  <2>4. O * c <= 0
    BY <2>1
  <2>5. QED
    BY <1>13, <2>3, <2>4
<1>15. QED
  BY <1>3, <1>14

(* Every row repays something, if the installment is above the interest on *)
(* the principal.                                                          *)
LEMMA RowRepays ==
    ASSUME ScheduleInv, OutweighsRounding(loan),
           NEW interest \in Int, NEW principal \in Int,
           RowAdded(interest, principal)
    PROVE  principal > 0
<1>1. /\ LoanIsSound /\ RowsAreNumbers /\ DriftBounded
      /\ outstanding <= loan.principal
  BY DEF ScheduleInv, AmortizationInv, NeverGrows
<1>2. /\ Len(rows) < loan.installments
      /\ interest = Round(outstanding * loan.rate.num, loan.rate.den)
      /\ principal = PrincipalComponent(Len(rows) + 1, MonthlyEmi(loan) - interest)
  BY DEF RowAdded
<1>3. PICK a \in Nat, d \in Nat, P \in Nat, E \in Nat, O \in Int :
        /\ a = loan.rate.num /\ d = loan.rate.den /\ P = loan.principal
        /\ E = MonthlyEmi(loan) /\ O = outstanding /\ d > 0
  BY <1>1, EmiIsNumber DEF LoanIsSound, RowsAreNumbers
<1>4. O > 0
  BY <1>1, <1>2, <1>3, OwedUntilLast
<1>5. E > Round(P * a, d)
  BY <1>3 DEF OutweighsRounding
<1>6. interest <= Round(P * a, d)
  <2>1. PICK x \in Int, y \in Int : x = O * a /\ y = P * a
    OBVIOUS
  <2>2. x <= y
    BY <1>1, <1>3, <2>1
  <2>3. Round(x, d) <= Round(y, d)
    BY <1>3, <2>2, RoundKeepsOrder
  <2>4. QED
    BY <1>2, <1>3, <2>1, <2>3
<1>7. PICK i \in Int : i = Round(P * a, d)
  <2>1. PICK y \in Int : y = P * a
    OBVIOUS
  <2>2. Round(y, d) \in Int
    BY <1>3, <2>1, RoundIsNear
  <2>3. QED
    BY <2>1, <2>2
<1>8. E - interest > 0
  BY <1>5, <1>6, <1>7
<1>9. QED
  BY <1>2, <1>3, <1>4, <1>8 DEF PrincipalComponent

(* The last row leaves the rounding of all rows.                           *)
LEMMA LastRowIsNear ==
    ASSUME ScheduleInv, NEW interest \in Int, NEW principal \in Int,
           RowAdded(interest, principal), Len(rows) + 1 = loan.installments
    PROVE  LET difference == MonthlyEmi(loan) - principal - interest
           IN  /\ difference * Unit(loan) <= Grown(loan)
               /\ (-difference) * Unit(loan) <= Grown(loan)
<1>1. LoanIsSound /\ RowsAreNumbers /\ DriftBounded
  BY DEF ScheduleInv, AmortizationInv
<1>2. /\ interest = Round(outstanding * loan.rate.num, loan.rate.den)
      /\ principal = outstanding
  BY DEF RowAdded, PrincipalComponent
<1>3. PICK m \in Nat : m = Len(rows) /\ loan.installments = m + 1
  BY <1>1 DEF RowsAreNumbers
<1>4. PICK a \in Nat, d \in Nat, P \in Nat, E \in Nat, O \in Int :
        /\ a = loan.rate.num /\ d = loan.rate.den /\ P = loan.principal
        /\ E = MonthlyEmi(loan) /\ O = outstanding /\ d > 0
  BY <1>1, EmiIsNumber DEF LoanIsSound, RowsAreNumbers
<1>5. PICK B \in Nat, D \in Nat, Dn \in Int :
        /\ B = Above(m + 1) /\ D = Below(m) /\ Dn = Below(m + 1)
        /\ Dn = d * D
  <2>1. Below(m) \in Nat /\ Below(m + 1) = d * Below(m)
    BY <1>1, <1>4, PowersOfLoan
  <2>2. PICK n \in Nat : n = m + 1
    OBVIOUS
  <2>3. Above(n) \in Nat /\ Below(n) \in Nat
    BY <1>1, <2>2, PowersOfLoan
  <2>4. QED
    BY <2>1, <2>2, <2>3
<1>6. PICK V \in Int, G \in Int : V = O - (E - interest) /\ G = B - Dn
  OBVIOUS
<1>7. PICK Y \in Int : /\ Y = Drift(V, P, E, a, d, B, Dn)
                       /\ 2 * Y <= d * G /\ -(d * G) <= 2 * Y
  <2>1. WithinRounding(V, m + 1)
    BY <1>1, <1>2, <1>3, <1>4, <1>6, DriftOfRow
  <2>2. Drift(V, P, E, a, d, B, Dn) \in Int
    BY DEF Drift
  <2>3. QED
    BY <1>4, <1>5, <1>6, <2>1, <2>2 DEF WithinRounding
<1>8. /\ 2 * (E * (d * G)) <= 2 * ((P * a) * B) + d * G
      /\ 2 * ((P * a) * B) - d * G <= 2 * (E * (d * G))
  BY <1>1, <1>3, <1>4, <1>5, <1>6, EmiIsNear
<1>9. PICK v \in Int : v = V * (a * D)
  OBVIOUS
<1>10. d * v <= d * G /\ -(d * G) <= d * v
  <2>1. Y = d * v - (P * a) * B + E * (d * G)
    BY ONLY <1>5, <1>6, <1>7, <1>9 DEF Drift
  <2>2. PICK e \in Int, p \in Int, g \in Int, u \in Int :
          e = E * (d * G) /\ p = (P * a) * B /\ g = d * G /\ u = d * v
    OBVIOUS
  <2>3. Y = u - p + e /\ 2 * Y <= g /\ -g <= 2 * Y
    BY <1>7, <2>1, <2>2
  <2>4. 2 * e <= 2 * p + g /\ 2 * p - g <= 2 * e
    BY <1>8, <2>2
  <2>5. u <= g /\ -g <= u
    BY ONLY <2>3, <2>4
  <2>6. QED
    BY <2>2, <2>5
<1>11. v <= G /\ -v <= G
  <2>1. ASSUME v > G PROVE FALSE
    <3>1. d * v > d * G
      BY <1>4, <2>1
    <3>2. QED
      BY <1>10, <3>1
  <2>2. ASSUME v + G < 0 PROVE FALSE
    <3>1. d * (v + G) < 0
      BY <1>4, <2>2
    <3>2. d * (v + G) = d * v + d * G
      BY ONLY <1>9
    <3>3. QED
      BY <1>10, <3>1, <3>2
  <2>3. QED
    BY <2>1, <2>2
<1>12. Unit(loan) = a * D /\ Grown(loan) = G
  <2>1. loan.installments - 1 = m
    BY <1>3
  <2>2. Unit(loan) = a * Below(m)
    BY <1>4, <2>1 DEF Unit, Below
  <2>3. Grown(loan) = Above(m + 1) - Below(m + 1)
    BY <1>3 DEF Grown, Above, Below
  <2>4. QED
    BY <1>5, <1>6, <2>2, <2>3
<1>13. PICK w \in Int : w = MonthlyEmi(loan) - principal - interest /\ w = 0 - V
  <2>1. MonthlyEmi(loan) = E /\ principal = O
    BY <1>2, <1>4
  <2>2. PICK w \in Int : w = E - O - interest
    OBVIOUS
  <2>3. w = 0 - V
    BY ONLY <1>6, <2>2
  <2>4. QED
    BY <2>1, <2>2, <2>3
<1>14. w * (a * D) = 0 - v /\ (-w) * (a * D) = v
  <2>1. PICK c \in Int : c = a * D /\ v = V * c
    BY <1>9
  <2>2. w * c = 0 - V * c /\ (-w) * c = V * c
    BY ONLY <1>13
  <2>3. QED
    BY <2>1, <2>2
<1>15. QED
  BY <1>11, <1>12, <1>13, <1>14

(* Every row keeps the bounds.                                             *)
LEMMA RowKeepsBounds ==
    ASSUME ScheduleInv, NEW interest \in Int, NEW principal \in Int,
           RowAdded(interest, principal)
    PROVE  DriftBounded' /\ NeverGrows'
<1>1. /\ LoanIsSound /\ RowsAreNumbers /\ DriftBounded /\ NeverGrows
  BY DEF ScheduleInv, AmortizationInv
<1>2. PICK n \in Nat, k \in Nat :
        n = loan.installments /\ k = Len(rows) /\ k < n
  <2>1. Len(rows) \in Nat /\ loan.installments \in Nat
    BY <1>1 DEF LoanIsSound, RowsAreNumbers
  <2>2. Len(rows) < loan.installments
    BY DEF RowAdded
  <2>3. QED
    BY <2>1, <2>2
<1>3. /\ loan' = loan /\ Len(rows') = k + 1
      /\ outstanding' = outstanding - principal
      /\ interest = Round(outstanding * loan.rate.num, loan.rate.den)
      /\ k + 1 # n => principal = MonthlyEmi(loan) - interest
  BY <1>2 DEF RowAdded, PrincipalComponent
<1>4. DriftBounded'
  <2>1. SUFFICES ASSUME k + 1 < n
                 PROVE  WithinRounding(outstanding, Len(rows))'
    BY <1>2, <1>3 DEF DriftBounded
  <2>2. WithinRounding(outstanding - (MonthlyEmi(loan) - interest), k + 1)
    BY <1>1, <1>2, <1>3, DriftOfRow
  <2>3. outstanding' = outstanding - (MonthlyEmi(loan) - interest)
    BY <1>3, <2>1
  <2>4. QED
    BY <1>3, <2>2, <2>3 DEF WithinRounding, Above, Below
<1>5. NeverGrows'
  <2>1. SUFFICES ASSUME OutweighsRounding(loan) PROVE outstanding' <= loan'.principal
    BY <1>3 DEF NeverGrows
  <2>2. principal > 0
    BY <2>1, RowRepays
  <2>3. QED
    BY <1>1, <1>3, <2>1, <2>2 DEF NeverGrows, RowsAreNumbers, LoanIsSound
<1>6. QED
  BY <1>4, <1>5

(* Every row keeps the properties.                                         *)
LEMMA RowKeepsProperties ==
    ASSUME ScheduleInv, NEW interest \in Int, NEW principal \in Int,
           RowAdded(interest, principal),
           LoanIsSound', RowsAreNumbers', DriftBounded'
    PROVE  NoRowIsNegative' /\ LastRowCloses'
<1>1. /\ LoanIsSound /\ RowsAreNumbers /\ NoRowIsNegative
  BY DEF ScheduleInv, AmortizationInv, ScheduleAddsUp
<1>2. PICK k \in Nat : k = Len(rows) /\ k < loan.installments
  BY <1>1 DEF RowsAreNumbers, RowAdded
<1>3. PICK row \in Row :
        /\ row.emiAmount = MonthlyEmi(loan)
        /\ row.interest = interest /\ row.principal = principal
        /\ rows' = Append(rows, row)
  BY <1>1, EmiIsNumber DEF RowAdded, Row
<1>4. loan' = loan /\ Len(rows') = k + 1 /\ rows \in Seq(Row)
  BY <1>1, <1>2 DEF RowAdded, RowsAreNumbers
<1>5. rows'[k + 1] = row /\ \A i \in 1..k : rows'[i] = rows[i]
  BY <1>2, <1>3, <1>4, AppendProperties
<1>6. DOMAIN rows = 1..k /\ DOMAIN rows' = 1..(k + 1)
  BY <1>1, <1>2, <1>4 DEF RowsAreNumbers
<1>7. NoRowIsNegative'
  <2>1. SUFFICES ASSUME OutweighsRounding(loan)
                 PROVE  /\ \A i \in DOMAIN rows' : rows'[i].principal > 0
                        /\ Len(rows') < loan'.installments => outstanding' > 0
    BY <1>4 DEF NoRowIsNegative
  <2>2. ASSUME NEW i \in DOMAIN rows' PROVE rows'[i].principal > 0
    <3>1. CASE i = k + 1
      <4>1. principal > 0
        BY <2>1, RowRepays
      <4>2. QED
        BY <1>3, <1>5, <3>1, <4>1
    <3>2. CASE i \in 1..k
      BY <1>1, <1>5, <1>6, <2>1, <3>2 DEF NoRowIsNegative
    <3>3. QED
      BY <1>6, <2>2, <3>1, <3>2
  <2>3. (LoanIsSound /\ RowsAreNumbers /\ DriftBounded /\ OutweighsRounding(loan))'
    BY <1>4, <2>1
  <2>4. Len(rows') < loan'.installments => outstanding' > 0
    <3>1. (/\ LoanIsSound /\ RowsAreNumbers /\ DriftBounded
           /\ OutweighsRounding(loan) /\ Len(rows) < loan.installments
           => outstanding > 0)'
      BY OwedUntilLast, PTL
    <3>2. QED
      BY <2>3, <3>1
  <2>5. QED
    BY <2>2, <2>4
<1>8. LastRowCloses'
  <2>1. SUFFICES ASSUME k + 1 = loan.installments PROVE LastRowCloses'
    BY <1>4 DEF LastRowCloses
  <2>2. LET difference == MonthlyEmi(loan) - principal - interest
        IN  /\ difference * Unit(loan) <= Grown(loan)
            /\ (-difference) * Unit(loan) <= Grown(loan)
    BY <1>2, <2>1, LastRowIsNear
  <2>3. QED
    BY <1>3, <1>4, <1>5, <2>1, <2>2 DEF LastRowCloses
<1>9. QED
  BY <1>7, <1>8

(* Before its first row a loan is off by nothing.                          *)
LEMMA ScheduleInits == AmortizationInit => ScheduleInv
<1>1. SUFFICES ASSUME AmortizationInit PROVE ScheduleInv
  OBVIOUS
<1>2. AmortizationInv /\ LoanIsSound
  BY <1>1, AmortizationInits DEF AmortizationInv
<1>3. rows = <<>> /\ outstanding = loan.principal /\ Len(rows) = 0
  BY <1>1 DEF AmortizationInit
<1>4. PICK a \in Nat, d \in Nat, P \in Nat, E \in Nat, n \in Nat :
        /\ a = loan.rate.num /\ d = loan.rate.den /\ P = loan.principal
        /\ E = MonthlyEmi(loan) /\ n = loan.installments /\ n > 0 /\ P > 0
  BY <1>2, EmiIsNumber DEF LoanIsSound
<1>5. DriftBounded
  <2>1. Above(0) = 1 /\ Below(0) = 1
    BY <1>2, PowersOfLoan
  <2>2. Drift(P, P, E, a, d, 1, 1) = 0
    BY DEF Drift
  <2>3. QED
    BY <1>3, <1>4, <2>1, <2>2 DEF DriftBounded, WithinRounding
<1>6. NeverGrows /\ NoRowIsNegative /\ LastRowCloses
  BY <1>3, <1>4 DEF NeverGrows, NoRowIsNegative, LastRowCloses
<1>7. QED
  BY <1>2, <1>5, <1>6 DEF ScheduleInv, ScheduleAddsUp, AmortizationInv

LEMMA RowKeepsSchedule ==
    ScheduleInv /\ [AmortizationNext]_amortization => ScheduleInv'
<1>1. SUFFICES ASSUME ScheduleInv, [AmortizationNext]_amortization
               PROVE  ScheduleInv'
  OBVIOUS
<1>2. AmortizationInv /\ AmortizationInv'
  BY <1>1, RowKeepsAmortization DEF ScheduleInv
<1>3. CASE AddRow
  <2>1. PICK interest \in Int, principal \in Int : RowAdded(interest, principal)
    BY <1>2, <1>3, RowIsAdded DEF AmortizationInv
  <2>2. DriftBounded' /\ NeverGrows'
    BY <1>1, <2>1, RowKeepsBounds
  <2>3. NoRowIsNegative' /\ LastRowCloses'
    BY <1>1, <1>2, <2>1, <2>2, RowKeepsProperties DEF AmortizationInv
  <2>4. QED
    BY <1>2, <2>2, <2>3 DEF ScheduleInv, ScheduleAddsUp, AmortizationInv
<1>4. CASE UNCHANGED amortization
  <2>1. UNCHANGED <<loan, outstanding, rows>>
    BY <1>4 DEF amortization
  <2>2. DriftBounded' /\ NeverGrows'
    BY <1>1, <2>1 DEF ScheduleInv, DriftBounded, WithinRounding, Above, Below, NeverGrows
  <2>3. NoRowIsNegative' /\ LastRowCloses'
    BY <1>1, <2>1 DEF ScheduleInv, ScheduleAddsUp, NoRowIsNegative, LastRowCloses
  <2>4. QED
    BY <1>2, <2>2, <2>3 DEF ScheduleInv, ScheduleAddsUp, AmortizationInv
<1>5. QED
  BY <1>1, <1>3, <1>4 DEF AmortizationNext

(* For every loan, rate and tenure: rounding, compounded over all rows,    *)
(* comes to no more than the annuity of one paisa, so that the last row's  *)
(* installment differs from its principal and interest by no more than     *)
(* that, and a loan whose installment is more than that repays something   *)
(* in every row and owes something until the last (generateSchedule).      *)
THEOREM ScheduleStaysSound == AmortizationSpec => []ScheduleAddsUp
<1>1. ScheduleInv => ScheduleAddsUp
  BY DEF ScheduleInv
<1>2. QED
  BY ScheduleInits, RowKeepsSchedule, <1>1, PTL DEF AmortizationSpec

===============================================================================
