-------------------------- MODULE FeeLedgerProofs --------------------------
(***************************************************************************)
(* Theorems about the fee desk run one handler at a time, for any number   *)
(* of invoices and receipts and any amounts and bills: lemmas about sums   *)
(* and about the arithmetic of one invoice row, then the ledger.           *)
(***************************************************************************)
EXTENDS FeeLedger, FiniteSetTheorems, WellFoundedInduction, TLAPS

---------------------------------------------------------------------------
(* Sums.                                                                   *)

Less == {ss \in Nat \X Nat : ss[1] < ss[2]}

\* Every non-empty set of naturals has a least element.
LEMMA LeastElement ==
    ASSUME NEW T \in SUBSET Nat, T # {}
    PROVE  \E n \in T : \A m \in T : n <= m
<1>1. IsWellFoundedOn(Less, Nat)
  BY NatLessThanWellFounded DEF OpToRel, Less
<1>2. PICK n \in T : \A m \in T : <<m, n>> \notin Less
  BY <1>1, WFMin
<1>3. ASSUME NEW m \in T PROVE n <= m
  <2>1. <<m, n>> \in Nat \X Nat /\ ~(<<m, n>>[1] < <<m, n>>[2])
    BY <1>2 DEF Less
  <2>2. QED
    BY <2>1
<1>4. QED
  BY <1>3

\* A least counterexample: what holds of a subset of S whenever it holds of the
\* subsets with fewer elements holds of all of them.
LEMMA SmallestSubset ==
    ASSUME NEW S, IsFiniteSet(S), NEW Bad \in SUBSET SUBSET S, Bad # {}
    PROVE  \E s \in Bad : \A t \in SUBSET S : Cardinality(t) < Cardinality(s) => t \notin Bad
<1>1. \A s \in SUBSET S : IsFiniteSet(s) /\ Cardinality(s) \in Nat
  BY FS_Subset, FS_CardinalityType
<1> DEFINE T == {Cardinality(s) : s \in Bad}
<1>2. T \in SUBSET Nat /\ T # {}
  BY <1>1
<1>3. PICK n \in T : \A m \in T : n <= m
  BY <1>2, LeastElement
<1>4. PICK s \in Bad : Cardinality(s) = n
  BY <1>3
<1>5. ASSUME NEW t \in SUBSET S, Cardinality(t) < Cardinality(s), t \in Bad
      PROVE  FALSE
  <2>1. Cardinality(t) \in T /\ Cardinality(t) \in Nat /\ Cardinality(s) \in Nat
    BY <1>1, <1>5
  <2>2. Cardinality(s) <= Cardinality(t)
    BY <1>3, <1>4, <2>1
  <2>3. QED
    BY <1>5, <2>1, <2>2
<1>6. QED
  BY <1>5

Pick(s) == CHOOSE x \in s : TRUE
Step(it, f, s) == IF s = {} THEN 0 ELSE f[Pick(s)] + it[s \ {Pick(s)}]
Iter(f, S) == CHOOSE it : it = [s \in SUBSET S |-> Step(it, f, s)]

LEMMA Picked ==
    ASSUME NEW S, IsFiniteSet(S), NEW s \in SUBSET S, NEW x \in s
    PROVE  /\ Pick(s) \in s
           /\ s \ {x} \in SUBSET S
           /\ Cardinality(s \ {x}) \in Nat /\ Cardinality(s) \in Nat
           /\ Cardinality(s) = Cardinality(s \ {x}) + 1
           /\ Cardinality(s \ {x}) < Cardinality(s)
<1>1. IsFiniteSet(s)
  BY FS_Subset
<1>2. Cardinality(s) \in Nat /\ IsFiniteSet(s \ {x}) /\ Cardinality(s \ {x}) = Cardinality(s) - 1
  BY <1>1, FS_CardinalityType, FS_RemoveElement
<1>3. Cardinality(s \ {x}) \in Nat
  BY <1>2, FS_CardinalityType
<1>4. Pick(s) \in s
  BY DEF Pick
<1>5. QED
  BY <1>2, <1>3, <1>4

\* There is a function that sums f over the subsets of S.
LEMMA SumsExist ==
    ASSUME NEW S, IsFiniteSet(S), NEW f
    PROVE  \E it : it = [s \in SUBSET S |-> Step(it, f, s)]
<1> DEFINE Upto(it, n) == \A s \in SUBSET S : Cardinality(s) < n => it[s] = Step(it, f, s)
           Missing == {n \in Nat : ~\E it : Upto(it, n)}
<1>1. \A s \in SUBSET S : Cardinality(s) \in Nat /\ Cardinality(s) <= Cardinality(S)
  BY FS_Subset, FS_CardinalityType
<1>2. ASSUME NEW it, NEW n \in Nat, Upto(it, n)
      PROVE  Upto([s \in SUBSET S |-> Step(it, f, s)], n + 1)
  <2> DEFINE new == [s \in SUBSET S |-> Step(it, f, s)]
  <2> SUFFICES ASSUME NEW s \in SUBSET S, Cardinality(s) < n + 1
               PROVE  new[s] = Step(new, f, s)
    OBVIOUS
  <2>1. CASE s = {}
    BY <2>1 DEF Step
  <2>2. CASE s # {}
    <3>1. /\ s \ {Pick(s)} \in SUBSET S
          /\ Cardinality(s \ {Pick(s)}) < n
      <4>1. Pick(s) \in s
        BY <2>2 DEF Pick
      <4>2. /\ s \ {Pick(s)} \in SUBSET S
            /\ Cardinality(s \ {Pick(s)}) \in Nat /\ Cardinality(s) \in Nat
            /\ Cardinality(s) = Cardinality(s \ {Pick(s)}) + 1
        BY <4>1, Picked
      <4>3. QED
        BY <4>2
    <3>2. it[s \ {Pick(s)}] = new[s \ {Pick(s)}]
      BY <1>2, <3>1
    <3>3. QED
      BY <3>2, <2>2 DEF Step
  <2>3. QED
    BY <2>1, <2>2
<1>3. Missing = {}
  <2> SUFFICES ASSUME Missing # {} PROVE FALSE
    OBVIOUS
  <2>1. PICK n \in Missing : \A m \in Missing : n <= m
    BY LeastElement
  <2>2. Upto([s \in SUBSET S |-> 0], 0)
    BY <1>1
  <2>3. n \in Nat /\ n # 0
    BY <2>1, <2>2
  <2> HIDE DEF Upto
  <2>4. n - 1 \in Nat /\ n - 1 \notin Missing
    <3> HIDE DEF Missing
    <3>1. QED
      BY <2>1, <2>3
  <2>5. PICK it : Upto(it, n - 1)
    BY <2>4
  <2>6. Upto([s \in SUBSET S |-> Step(it, f, s)], n)
    <3>1. Upto([s \in SUBSET S |-> Step(it, f, s)], (n - 1) + 1)
      BY <1>2, <2>4, <2>5
    <3>2. (n - 1) + 1 = n
      BY <2>3
    <3>3. QED
      BY <3>1, <3>2
  <2>7. QED
    BY <2>6
<1>4. PICK it : Upto(it, Cardinality(S) + 1)
  <2>1. Cardinality(S) + 1 \in Nat
    BY <1>1
  <2> HIDE DEF Upto
  <2>2. QED
    BY <1>3, <2>1
<1>5. ASSUME NEW s \in SUBSET S PROVE it[s] = Step(it, f, s)
  BY <1>1, <1>4
<1> DEFINE new == [s \in SUBSET S |-> it[s]]
<1>6. ASSUME NEW s \in SUBSET S PROVE Step(it, f, s) = Step(new, f, s)
  BY DEF Step
<1>7. new = [s \in SUBSET S |-> Step(new, f, s)]
  BY <1>5, <1>6
<1>8. QED
  BY <1>7

\* ... and SumFunctionOnSet takes its value from one.
LEMMA TotalSums ==
    ASSUME NEW S, IsFiniteSet(S), NEW f
    PROVE  /\ SumFunctionOnSet(f, S) = Iter(f, S)[S]
           /\ \A s \in SUBSET S : Iter(f, S)[s] = Step(Iter(f, S), f, s)
<1>1. Iter(f, S) = [s \in SUBSET S |-> Step(Iter(f, S), f, s)]
  BY SumsExist DEF Iter
<1>2. \A s \in SUBSET S : Iter(f, S)[s] = Step(Iter(f, S), f, s)
  BY <1>1
<1>3. QED
  BY <1>2 DEF SumFunctionOnSet, FoldFunctionOnSet, MapThenFoldSet, Iter, Pick, Step

Summing(it, f, S) == \A s \in SUBSET S : it[s] = Step(it, f, s)

\* Such a function is a natural number everywhere when f is, and the element that
\* is taken out first makes no difference.
LEMMA SummingAny ==
    ASSUME NEW S, IsFiniteSet(S), NEW f, \A x \in S : f[x] \in Nat,
           NEW it, Summing(it, f, S)
    PROVE  \A s \in SUBSET S : /\ it[s] \in Nat
                               /\ \A x \in s : it[s] = f[x] + it[s \ {x}]
<1> DEFINE Good(s) == /\ it[s] \in Nat
                      /\ \A x \in s : it[s] = f[x] + it[s \ {x}]
           Bad == {s \in SUBSET S : ~Good(s)}
<1>1. ASSUME NEW s \in SUBSET S,
             \A t \in SUBSET S : Cardinality(t) < Cardinality(s) => Good(t)
      PROVE  Good(s)
  <2>1. CASE s = {}
    <3>1. it[s] = 0
      BY <2>1 DEF Summing, Step
    <3>2. QED
      BY <2>1, <3>1
  <2>2. CASE s # {}
    <3> DEFINE p == Pick(s)
    <3>1. p \in s /\ s \ {p} \in SUBSET S /\ Cardinality(s \ {p}) < Cardinality(s)
      <4>1. p \in s
        BY <2>2 DEF Pick
      <4>2. QED
        BY <4>1, Picked
    <3>2. it[s] = f[p] + it[s \ {p}]
      BY <2>2 DEF Summing, Step
    <3> HIDE DEF p
    <3>3. it[s \ {p}] \in Nat /\ \A x \in s \ {p} : it[s \ {p}] = f[x] + it[(s \ {p}) \ {x}]
      BY <1>1, <3>1
    <3>4. it[s] \in Nat
      BY <3>1, <3>2, <3>3
    <3>5. ASSUME NEW x \in s, x # p
          PROVE  it[s] = f[x] + it[s \ {x}]
      <4>1. s \ {x} \in SUBSET S /\ Cardinality(s \ {x}) < Cardinality(s)
        BY Picked
      <4>2. it[s \ {x}] = f[p] + it[(s \ {x}) \ {p}]
        BY <1>1, <3>1, <3>5, <4>1
      <4>3. it[s \ {x}] = f[p] + it[(s \ {p}) \ {x}]
        <5>1. (s \ {x}) \ {p} = (s \ {p}) \ {x}
          OBVIOUS
        <5>2. QED
          BY <4>2, <5>1
      <4>4. it[s \ {p}] = f[x] + it[(s \ {p}) \ {x}]
        BY <3>3, <3>5
      <4>5. it[(s \ {p}) \ {x}] \in Nat
        <5>1. /\ (s \ {p}) \ {x} \in SUBSET S
              /\ Cardinality((s \ {p}) \ {x}) < Cardinality(s \ {p})
              /\ Cardinality((s \ {p}) \ {x}) \in Nat
              /\ Cardinality(s \ {p}) \in Nat /\ Cardinality(s) \in Nat
          BY <3>1, <3>5, Picked
        <5>2. Cardinality((s \ {p}) \ {x}) < Cardinality(s)
          BY <3>1, <5>1
        <5>3. QED
          BY <1>1, <5>1, <5>2
      <4>6. f[x] \in Nat /\ f[p] \in Nat
        BY <3>1
      <4> DEFINE rest == it[(s \ {p}) \ {x}]
      <4> HIDE DEF rest
      <4>7. f[p] + (f[x] + rest) = f[x] + (f[p] + rest)
        BY <4>5, <4>6 DEF rest
      <4>8. QED
        BY <3>2, <4>3, <4>4, <4>7 DEF rest
    <3>6. QED
      BY <3>2, <3>4, <3>5
  <2>3. QED
    BY <2>1, <2>2
<1>2. Bad = {}
  <2> SUFFICES ASSUME Bad # {} PROVE FALSE
    OBVIOUS
  <2>1. Bad \in SUBSET SUBSET S
    OBVIOUS
  <2> HIDE DEF Good
  <2>2. PICK s \in Bad : \A t \in SUBSET S : Cardinality(t) < Cardinality(s) => t \notin Bad
    <3> HIDE DEF Bad
    <3>1. QED
      BY <2>1, SmallestSubset
  <2>3. QED
    BY <1>1, <2>2
<1>3. QED
  BY <1>2

\* Two such functions agree where the functions they sum do.
LEMMA SummingSame ==
    ASSUME NEW S, IsFiniteSet(S), NEW T \in SUBSET S, NEW f, NEW g,
           \A x \in T : f[x] = g[x],
           NEW it, Summing(it, f, S), NEW ti, Summing(ti, g, T)
    PROVE  it[T] = ti[T]
<1> DEFINE Bad == {s \in SUBSET T : it[s] # ti[s]}
<1>1. ASSUME NEW s \in SUBSET T,
             \A t \in SUBSET T : Cardinality(t) < Cardinality(s) => it[t] = ti[t]
      PROVE  it[s] = ti[s]
  <2>1. s \in SUBSET S
    OBVIOUS
  <2>2. CASE s = {}
    BY <2>1, <2>2 DEF Summing, Step
  <2>3. CASE s # {}
    <3>1. Pick(s) \in s
      BY <2>3 DEF Pick
    <3>2. s \ {Pick(s)} \in SUBSET T /\ Cardinality(s \ {Pick(s)}) < Cardinality(s)
      BY <2>1, <3>1, Picked
    <3>3. it[s \ {Pick(s)}] = ti[s \ {Pick(s)}] /\ f[Pick(s)] = g[Pick(s)]
      BY <1>1, <3>1, <3>2
    <3>4. it[s] = f[Pick(s)] + it[s \ {Pick(s)}]
      BY <2>1, <2>3 DEF Summing, Step
    <3>5. ti[s] = g[Pick(s)] + ti[s \ {Pick(s)}]
      BY <2>3 DEF Summing, Step
    <3>6. QED
      BY <3>3, <3>4, <3>5
  <2>4. QED
    BY <2>2, <2>3
<1>2. Bad = {}
  <2> SUFFICES ASSUME Bad # {} PROVE FALSE
    OBVIOUS
  <2>1. IsFiniteSet(T) /\ Bad \in SUBSET SUBSET T
    BY FS_Subset
  <2>2. PICK s \in Bad : \A t \in SUBSET T : Cardinality(t) < Cardinality(s) => t \notin Bad
    <3> HIDE DEF Bad
    <3>1. QED
      BY <2>1, SmallestSubset
  <2>3. QED
    BY <1>1, <2>2
<1>3. QED
  BY <1>2

\* A sum of naturals over a finite set is a natural number; nothing sums to 0; one
\* element may be taken out; only the values on the set count.
LEMMA Totals ==
    ASSUME NEW S, IsFiniteSet(S), NEW f, \A x \in S : f[x] \in Nat
    PROVE  /\ SumFunctionOnSet(f, S) \in Nat
           /\ S = {} => SumFunctionOnSet(f, S) = 0
           /\ \A x \in S : SumFunctionOnSet(f, S) = f[x] + SumFunctionOnSet(f, S \ {x})
           /\ \A g : (\A x \in S : g[x] = f[x]) => SumFunctionOnSet(g, S) = SumFunctionOnSet(f, S)
<1>1. PICK it : Summing(it, f, S) /\ SumFunctionOnSet(f, S) = it[S]
  <2>1. Summing(Iter(f, S), f, S) /\ SumFunctionOnSet(f, S) = Iter(f, S)[S]
    BY TotalSums DEF Summing
  <2>2. QED
    BY <2>1
<1>2. it[S] \in Nat /\ \A x \in S : it[S] = f[x] + it[S \ {x}]
  <2>1. \A s \in SUBSET S : /\ it[s] \in Nat
                             /\ \A x \in s : it[s] = f[x] + it[s \ {x}]
    BY <1>1, SummingAny, Z3
  <2>2. QED
    BY <2>1
<1>3. ASSUME NEW T \in SUBSET S, NEW g, \A x \in T : g[x] = f[x]
      PROVE  SumFunctionOnSet(g, T) = it[T]
  <2>1. IsFiniteSet(T)
    BY FS_Subset
  <2>2. Summing(Iter(g, T), g, T) /\ SumFunctionOnSet(g, T) = Iter(g, T)[T]
    BY <2>1, TotalSums DEF Summing
  <2>3. \A x \in T : f[x] = g[x]
    BY <1>3
  <2>4. it[T] = Iter(g, T)[T]
    BY <1>1, <2>2, <2>3, SummingSame
  <2>5. QED
    BY <2>2, <2>4
<1>4. S = {} => SumFunctionOnSet(f, S) = 0
  BY <1>1 DEF Summing, Step
<1>5. ASSUME NEW x \in S
      PROVE  SumFunctionOnSet(f, S) = f[x] + SumFunctionOnSet(f, S \ {x})
  <2>1. S \ {x} \in SUBSET S
    OBVIOUS
  <2>2. SumFunctionOnSet(f, S \ {x}) = it[S \ {x}]
    BY <1>3, <2>1
  <2>3. QED
    BY <1>1, <1>2, <2>2
<1>6. QED
  BY <1>1, <1>2, <1>3, <1>4, <1>5

---------------------------------------------------------------------------
(* One invoice row.                                                        *)

\* Math.max(0, a - b) is a natural number no larger than a.
LEMMA MinusNat ==
    ASSUME NEW a \in Nat, NEW b \in Nat
    PROVE  Minus(a, b) \in Nat /\ Minus(a, b) <= a
BY DEF Minus

\* invoiceStatus answers one of the three statuses an invoice in force has.
LEMMA StatusCases ==
    ASSUME NEW total \in Nat, NEW paid \in Nat
    PROVE  InvoiceStatus(total, paid) \in {"UNPAID", "PARTIAL", "PAID"}
BY DEF InvoiceStatus

\* A row with its total, balance and status written over is a row in force, and
\* coherent when the balance is what the total leaves unpaid.
LEMMA PricedRow ==
    ASSUME NEW row \in Row, NEW total \in Nat, NEW balance \in Nat, NEW paid \in Nat
    PROVE  /\ Priced(row, total, balance, paid) \in Row
           /\ Priced(row, total, balance, paid).paid = row.paid
           /\ Priced(row, total, balance, paid).status \in {"UNPAID", "PARTIAL", "PAID"}
<1>1. InvoiceStatus(total, paid) \in {"UNPAID", "PARTIAL", "PAID"}
  BY StatusCases
<1>2. QED
  BY <1>1 DEF Priced, Row, InvoiceStatuses

LEMMA PricedCoherent ==
    ASSUME NEW row \in Row, NEW total \in Nat, NEW balance \in Nat,
           balance = Minus(total, row.paid)
    PROVE  RowCoherent(Priced(row, total, balance, row.paid))
<1>1. /\ Priced(row, total, balance, row.paid).total = total
      /\ Priced(row, total, balance, row.paid).balance = balance
      /\ Priced(row, total, balance, row.paid).paid = row.paid
      /\ Priced(row, total, balance, row.paid).status = InvoiceStatus(total, row.paid)
  BY DEF Priced, Row
<1>2. QED
  BY <1>1 DEF RowCoherent

\* The shape of what a fine, an adjustment and a waiver write: the row with some
\* other columns changed, but not the paid amount, priced anew.
Repriced(new, row, total, balance, paid) ==
    \E mid \in Row : mid.paid = row.paid /\ new = Priced(mid, total, balance, paid)

LEMMA RowShapes ==
    ASSUME NEW row \in Row, NEW seen \in Row, NEW n \in Nat
    PROVE  /\ Repriced(Fined(row, seen, n), row,
                       seen.total + n, seen.balance + n, seen.paid)
           /\ LET t == Minus(seen.subtotal, seen.discount + n)
              IN  Repriced(Discounted(row, seen, n), row,
                           t, Minus(t, seen.paid), seen.paid)
           /\ LET t == Minus(seen.subtotal + n, seen.discount)
              IN  Repriced(Charged(row, seen, n), row,
                           t, Minus(t, seen.paid), seen.paid)
           /\ LET t == Minus(seen.total, seen.fine)
              IN  Repriced(FineWaived(row, seen), row,
                           t, Minus(t, seen.paid), seen.paid)
<1>1. /\ seen.subtotal + n \in Nat /\ seen.discount + n \in Nat
      /\ row.fineItems + n \in Nat /\ row.discountItems + n \in Nat
      /\ row.chargeItems + n \in Nat
  BY DEF Row
<1>2. Repriced(Fined(row, seen, n), row,
               seen.total + n, seen.balance + n, seen.paid)
  <2>1. [row EXCEPT !.fineItems = @ + n, !.subtotal = seen.subtotal + n,
                    !.fine = n] \in Row
    BY <1>1 DEF Row
  <2>2. [row EXCEPT !.fineItems = @ + n, !.subtotal = seen.subtotal + n,
                    !.fine = n].paid = row.paid
    BY DEF Row
  <2>3. QED
    BY <2>1, <2>2 DEF Fined, Repriced
<1>3. Repriced(Discounted(row, seen, n), row,
               Minus(seen.subtotal, seen.discount + n),
               Minus(Minus(seen.subtotal, seen.discount + n), seen.paid), seen.paid)
  <2>1. [row EXCEPT !.discountItems = @ + n, !.discount = seen.discount + n] \in Row
    BY <1>1 DEF Row
  <2>2. [row EXCEPT !.discountItems = @ + n,
                    !.discount = seen.discount + n].paid = row.paid
    BY DEF Row
  <2>3. QED
    BY <2>1, <2>2 DEF Discounted, Repriced
<1>4. Repriced(Charged(row, seen, n), row,
               Minus(seen.subtotal + n, seen.discount),
               Minus(Minus(seen.subtotal + n, seen.discount), seen.paid), seen.paid)
  <2>1. [row EXCEPT !.chargeItems = @ + n, !.subtotal = seen.subtotal + n] \in Row
    BY <1>1 DEF Row
  <2>2. [row EXCEPT !.chargeItems = @ + n,
                    !.subtotal = seen.subtotal + n].paid = row.paid
    BY DEF Row
  <2>3. QED
    BY <2>1, <2>2 DEF Charged, Repriced
<1>5. Repriced(FineWaived(row, seen), row,
               Minus(seen.total, seen.fine),
               Minus(Minus(seen.total, seen.fine), seen.paid), seen.paid)
  <2>1. [row EXCEPT !.fineItems = 0, !.fine = 0, !.waived = TRUE] \in Row
    BY DEF Row
  <2>2. [row EXCEPT !.fineItems = 0, !.fine = 0, !.waived = TRUE].paid = row.paid
    BY DEF Row
  <2>3. QED
    BY <2>1, <2>2 DEF FineWaived, Repriced
<1>6. QED
  BY <1>2, <1>3, <1>4, <1>5

\* Every row a handler writes has the type of a row, whichever row it had read;
\* fines, adjustments and waivers keep the paid amount and put the row in force.
LEMMA RowTypes ==
    ASSUME NEW row \in Row, NEW seen \in Row, NEW n \in Nat
    PROVE  /\ \A new \in {Fined(row, seen, n), Discounted(row, seen, n),
                          Charged(row, seen, n), FineWaived(row, seen)} :
                /\ new \in Row
                /\ new.paid = row.paid
                /\ new.status \in {"UNPAID", "PARTIAL", "PAID"}
           /\ Settled(row, seen, n) \in Row
           /\ Settled(row, seen, n).paid = n
           /\ Settled(row, seen, n).total = row.total
           /\ Settled(row, seen, n).status \in {"UNPAID", "PARTIAL", "PAID"}
           /\ Cancelled(row) \in Row
<1>1. /\ seen.total + n \in Nat /\ seen.balance + n \in Nat
      /\ seen.subtotal + n \in Nat /\ seen.discount + n \in Nat
      /\ seen.paid \in Nat /\ seen.fine \in Nat /\ seen.total \in Nat
      /\ seen.subtotal \in Nat /\ seen.discount \in Nat
  BY DEF Row
<1>2. ASSUME NEW new, NEW total \in Nat, NEW balance \in Nat, NEW paid \in Nat,
             Repriced(new, row, total, balance, paid)
      PROVE  /\ new \in Row
             /\ new.paid = row.paid
             /\ new.status \in {"UNPAID", "PARTIAL", "PAID"}
  <2>1. PICK mid \in Row : mid.paid = row.paid /\ new = Priced(mid, total, balance, paid)
    BY <1>2 DEF Repriced
  <2>2. /\ Priced(mid, total, balance, paid) \in Row
        /\ Priced(mid, total, balance, paid).paid = mid.paid
        /\ Priced(mid, total, balance, paid).status \in {"UNPAID", "PARTIAL", "PAID"}
    BY PricedRow
  <2>3. QED
    BY <2>1, <2>2
<1>3. /\ Minus(seen.subtotal, seen.discount + n) \in Nat
      /\ Minus(seen.subtotal + n, seen.discount) \in Nat
      /\ Minus(seen.total, seen.fine) \in Nat
      /\ Minus(seen.total, n) \in Nat
  BY <1>1, MinusNat
<1>4. /\ Minus(Minus(seen.subtotal, seen.discount + n), seen.paid) \in Nat
      /\ Minus(Minus(seen.subtotal + n, seen.discount), seen.paid) \in Nat
      /\ Minus(Minus(seen.total, seen.fine), seen.paid) \in Nat
  BY <1>1, <1>3, MinusNat
<1>5. InvoiceStatus(seen.total, n) \in {"UNPAID", "PARTIAL", "PAID"}
  BY <1>1, StatusCases
<1>6. /\ Settled(row, seen, n) \in Row
      /\ Settled(row, seen, n).paid = n
      /\ Settled(row, seen, n).total = row.total
      /\ Settled(row, seen, n).status \in {"UNPAID", "PARTIAL", "PAID"}
  BY <1>3, <1>5 DEF Settled, Row, InvoiceStatuses
<1>7. Cancelled(row) \in Row
  BY DEF Cancelled, Row, InvoiceStatuses
<1>8. ASSUME NEW new \in {Fined(row, seen, n), Discounted(row, seen, n),
                          Charged(row, seen, n), FineWaived(row, seen)}
      PROVE  /\ new \in Row
             /\ new.paid = row.paid
             /\ new.status \in {"UNPAID", "PARTIAL", "PAID"}
  <2>1. \E total, balance \in Nat : Repriced(new, row, total, balance, seen.paid)
    BY <1>1, <1>3, <1>4, RowShapes
  <2>2. QED
    BY <1>1, <1>2, <2>1
<1>9. QED
  BY <1>6, <1>7, <1>8

\* Every handler of one invoice writes a row in existence.
LEMMA WrittenRow ==
    ASSUME NEW row \in Row, NEW seen \in Row, NEW n \in Nat,
           NEW new \in {Fined(row, seen, n), Discounted(row, seen, n),
                        Charged(row, seen, n), FineWaived(row, seen),
                        Cancelled(row)}
    PROVE  new \in Row /\ Exists(new)
<1>1. CASE new = Cancelled(row)
  BY <1>1 DEF Cancelled, Row, InvoiceStatuses, Exists
<1>2. CASE new # Cancelled(row)
  <2>1. \A any \in {Fined(row, seen, n), Discounted(row, seen, n),
                    Charged(row, seen, n), FineWaived(row, seen)} :
            /\ any \in Row
            /\ any.paid = row.paid
            /\ any.status \in {"UNPAID", "PARTIAL", "PAID"}
    BY RowTypes
  <2>2. new \in Row /\ new.status \in {"UNPAID", "PARTIAL", "PAID"}
    BY <1>2, <2>1
  <2>3. QED
    BY <2>2 DEF Exists
<1>3. QED
  BY <1>1, <1>2

\* Run alone (seen = row), the handlers leave the amounts of the row agreeing.
\* A late fine adds to the old balance, so it needs an open, coherent row; the
\* others compute the balance afresh.
LEMMA RowsCoherent ==
    ASSUME NEW row \in Row, NEW n \in Nat
    PROVE  /\ Open(row) /\ RowCoherent(row) => RowCoherent(Fined(row, row, n))
           /\ RowCoherent(Discounted(row, row, n))
           /\ RowCoherent(Charged(row, row, n))
           /\ RowCoherent(FineWaived(row, row))
           /\ RowCoherent(Settled(row, row, n))
           /\ RowCoherent(Cancelled(row))
<1>1. /\ row.total + n \in Nat /\ row.balance + n \in Nat
      /\ row.subtotal + n \in Nat /\ row.discount + n \in Nat
      /\ row.paid \in Nat /\ row.fine \in Nat /\ row.total \in Nat
      /\ row.subtotal \in Nat /\ row.discount \in Nat
  BY DEF Row
<1>2. ASSUME NEW new, NEW total \in Nat, NEW balance \in Nat,
             balance = Minus(total, row.paid),
             Repriced(new, row, total, balance, row.paid)
      PROVE  RowCoherent(new)
  <2>1. PICK mid \in Row :
            mid.paid = row.paid /\ new = Priced(mid, total, balance, row.paid)
    BY <1>2 DEF Repriced
  <2>2. QED
    BY <1>2, <2>1, PricedCoherent
<1>3. ASSUME Open(row), RowCoherent(row)
      PROVE  row.balance + n = Minus(row.total + n, row.paid)
  BY <1>3 DEF RowCoherent, Row, Open, InvoiceStatus, Minus
<1>4. /\ Minus(row.subtotal, row.discount + n) \in Nat
      /\ Minus(row.subtotal + n, row.discount) \in Nat
      /\ Minus(row.total, row.fine) \in Nat
  BY <1>1, MinusNat
<1>5. /\ Minus(Minus(row.subtotal, row.discount + n), row.paid) \in Nat
      /\ Minus(Minus(row.subtotal + n, row.discount), row.paid) \in Nat
      /\ Minus(Minus(row.total, row.fine), row.paid) \in Nat
  BY <1>1, <1>4, MinusNat
<1>6. Open(row) /\ RowCoherent(row) => RowCoherent(Fined(row, row, n))
  BY <1>1, <1>2, <1>3, RowShapes
<1>7. RowCoherent(Discounted(row, row, n)) /\ RowCoherent(Charged(row, row, n))
      /\ RowCoherent(FineWaived(row, row))
  BY <1>1, <1>2, <1>4, <1>5, RowShapes
<1>8. RowCoherent(Settled(row, row, n))
  BY DEF Settled, RowCoherent, Row
<1>9. RowCoherent(Cancelled(row))
  BY DEF Cancelled, RowCoherent, Open, Row
<1>10. QED
  BY <1>6, <1>7, <1>8, <1>9

\* A bill makes a well-typed, coherent row in force that nobody has paid.
LEMMA GeneratedRow ==
    ASSUME NEW bill \in Bill
    PROVE  /\ Generated(bill) \in Row
           /\ RowCoherent(Generated(bill))
           /\ Generated(bill).status \in {"UNPAID", "PAID"}
           /\ Generated(bill).paid = 0
<1>1. /\ bill.charge \in Nat /\ bill.fine \in Nat /\ bill.discount \in Nat
      /\ bill.charge + bill.fine \in Nat
  BY DEF Bill
<1>2. Minus(bill.charge + bill.fine, bill.discount) \in Nat
  BY <1>1, MinusNat
<1>3. Generated(bill) \in Row
  BY <1>1, <1>2 DEF Generated, Row, InvoiceStatuses
<1>4. RowCoherent(Generated(bill))
  BY <1>2 DEF Generated, RowCoherent, Open, InvoiceStatus, Minus
<1>5. QED
  BY <1>3, <1>4 DEF Generated

---------------------------------------------------------------------------
(* The allocation loop.                                                    *)

\* An allocation never exceeds the balance of its invoice, invoices that are not
\* a target get none, and what is left over is a natural number.
LEMMA SpendingShares ==
    ASSUME NEW rows \in [Invoices -> Row], NEW targets \in SUBSET Invoices,
           NEW amount \in Nat, NEW left \in Spending(rows, targets, amount)
    PROVE  /\ Share(left) \in [Invoices -> Nat]
           /\ left[InvoiceCount] \in Nat
           /\ \A i \in Invoices : /\ Share(left)[i] <= rows[i].balance
                                  /\ Share(left)[i] > 0 => i \in targets
<1>1. left \in [0 .. InvoiceCount -> 0 .. amount]
  BY DEF Spending
<1>2. ASSUME NEW i \in Invoices
      PROVE  /\ left[i - 1] - left[i] \in Nat
             /\ left[i - 1] - left[i] <= rows[i].balance
             /\ left[i - 1] - left[i] > 0 => i \in targets
  <2>1. i - 1 \in 0 .. InvoiceCount /\ i \in 0 .. InvoiceCount
    BY CountAssumption DEF Invoices
  <2>2. left[i - 1] \in Nat /\ left[i] \in Nat
    BY <1>1, <2>1
  <2>3. rows[i].balance \in Nat
    BY DEF Row
  <2>4. left[i] = IF i \in targets THEN Minus(left[i - 1], rows[i].balance)
                                   ELSE left[i - 1]
    BY DEF Spending
  <2>5. QED
    BY <2>2, <2>3, <2>4 DEF Minus
<1>3. left[InvoiceCount] \in Nat
  BY <1>1, CountAssumption
<1>4. QED
  BY <1>2, <1>3 DEF Share

---------------------------------------------------------------------------
(* The invariant.                                                          *)

IInv == TypeOK /\ Coherent /\ CancelledUnpaid

\* A handler that writes one row keeps the invariant when the row is coherent and
\* is cancelled only without money on it.
LEMMA UpdateKeepsIInv ==
    ASSUME IInv, NEW i \in Invoices, NEW row \in Row, RowCoherent(row),
           row.status = "CANCELLED" =>
               row.paid = 0 /\ row.balance = 0 /\ ~Allocated(i),
           Update(i, row)
    PROVE  IInv'
<1> USE DEF IInv
<1>1. invoice' = [invoice EXCEPT ![i] = row] /\ payment' = payment /\ advance' = advance
  BY DEF Update
<1>2. \A j \in Invoices : invoice'[j] = IF j = i THEN row ELSE invoice[j]
  BY <1>1 DEF TypeOK
<1>3. TypeOK'
  BY <1>1 DEF TypeOK
<1>4. Coherent'
  BY <1>2 DEF Coherent
<1>5. \A j \in Invoices : Allocated(j)' <=> Allocated(j)
  BY <1>1 DEF Allocated
<1>6. CancelledUnpaid'
  BY <1>2, <1>5 DEF CancelledUnpaid
<1>7. QED
  BY <1>3, <1>4, <1>6

\* The same for a step that writes the paid amount of several invoices, none of
\* them cancelled, and one payment.
LEMMA SettleKeepsIInv ==
    ASSUME IInv, NEW set \in SUBSET Invoices, NEW paid \in [Invoices -> Nat],
           NEW r \in Receipts, NEW p \in Payment, NEW n \in Nat,
           \A i \in set : invoice[i].status # "CANCELLED",
           \A i \in Invoices : p.alloc[i] > 0 => i \in set,
           invoice' = [i \in Invoices |->
                        IF i \in set THEN Settled(invoice[i], invoice[i], paid[i])
                                     ELSE invoice[i]],
           payment' = [payment EXCEPT ![r] = p],
           advance' = n
    PROVE  IInv'
<1> USE DEF IInv
<1>1. ASSUME NEW i \in Invoices
      PROVE  /\ invoice[i] \in Row
             /\ Settled(invoice[i], invoice[i], paid[i]) \in Row
             /\ RowCoherent(Settled(invoice[i], invoice[i], paid[i]))
             /\ Settled(invoice[i], invoice[i], paid[i]).status # "CANCELLED"
  <2>1. invoice[i] \in Row /\ paid[i] \in Nat
    BY DEF TypeOK
  <2>2. /\ Settled(invoice[i], invoice[i], paid[i]) \in Row
        /\ Settled(invoice[i], invoice[i], paid[i]).status \in {"UNPAID", "PARTIAL", "PAID"}
    BY <2>1, RowTypes
  <2>3. RowCoherent(Settled(invoice[i], invoice[i], paid[i]))
    BY <2>1, RowsCoherent
  <2>4. QED
    BY <2>1, <2>2, <2>3
<1>2. TypeOK'
  BY <1>1 DEF TypeOK
<1>3. Coherent'
  BY <1>1 DEF Coherent
<1>4. CancelledUnpaid'
  <2> SUFFICES ASSUME NEW i \in Invoices, invoice'[i].status = "CANCELLED"
               PROVE  /\ invoice'[i].paid = 0 /\ invoice'[i].balance = 0
                      /\ ~Allocated(i)'
    BY DEF CancelledUnpaid
  <2>1. i \notin set /\ invoice'[i] = invoice[i]
    BY <1>1
  <2>2. invoice[i].paid = 0 /\ invoice[i].balance = 0 /\ ~Allocated(i)
    BY <2>1 DEF CancelledUnpaid
  <2>3. ~(p.alloc[i] > 0)
    BY <2>1
  <2>4. ~Allocated(i)'
    BY <2>2, <2>3 DEF Allocated, TypeOK
  <2>5. QED
    BY <2>1, <2>2, <2>4
<1>5. QED
  BY <1>2, <1>3, <1>4

\* Every handler, run alone, keeps the invariant.
LEMMA StepKeepsIInv == IInv /\ Next => IInv'
<1> SUFFICES ASSUME IInv, Next PROVE IInv'
  OBVIOUS
<1>1. \A i \in Invoices : /\ invoice[i] \in Row
                          /\ RowCoherent(invoice[i])
  BY DEF IInv, TypeOK, Coherent
<1>2. ASSUME NEW i \in Invoices, NEW bill \in Bills, Generate(i, bill)
      PROVE  IInv'
  <2>1. bill \in Bill
    BY BillsAssumption
  <2>2. Generated(bill) \in Row /\ RowCoherent(Generated(bill))
        /\ Generated(bill).status # "CANCELLED"
    BY <2>1, GeneratedRow
  <2>3. QED
    BY <1>2, <2>2, UpdateKeepsIInv DEF Generate
<1>3. ASSUME NEW i \in Invoices, NEW amount \in Amounts, ApplyLateFine(i, amount)
      PROVE  IInv'
  <2> DEFINE new == Fined(invoice[i], invoice[i], amount)
  <2>1. amount \in Nat
    BY AmountsAssumption
  <2>2. new \in Row /\ new.status # "CANCELLED"
    BY <1>1, <2>1, RowTypes
  <2>3. RowCoherent(new)
    BY <1>1, <1>3, <2>1, RowsCoherent DEF ApplyLateFine, MayFine
  <2>4. QED
    BY <1>3, <2>2, <2>3, UpdateKeepsIInv DEF ApplyLateFine
<1>4. ASSUME NEW i \in Invoices, NEW amount \in Amounts, AdjustDiscount(i, amount)
      PROVE  IInv'
  <2> DEFINE new == Discounted(invoice[i], invoice[i], amount)
  <2>1. amount \in Nat
    BY AmountsAssumption
  <2>2. new \in Row /\ new.status # "CANCELLED"
    BY <1>1, <2>1, RowTypes
  <2>3. RowCoherent(new)
    BY <1>1, <2>1, RowsCoherent
  <2>4. QED
    BY <1>4, <2>2, <2>3, UpdateKeepsIInv DEF AdjustDiscount
<1>5. ASSUME NEW i \in Invoices, NEW amount \in Amounts, AdjustCharge(i, amount)
      PROVE  IInv'
  <2> DEFINE new == Charged(invoice[i], invoice[i], amount)
  <2>1. amount \in Nat
    BY AmountsAssumption
  <2>2. new \in Row /\ new.status # "CANCELLED"
    BY <1>1, <2>1, RowTypes
  <2>3. RowCoherent(new)
    BY <1>1, <2>1, RowsCoherent
  <2>4. QED
    BY <1>5, <2>2, <2>3, UpdateKeepsIInv DEF AdjustCharge
<1>6. ASSUME NEW i \in Invoices, WaiveFine(i)
      PROVE  IInv'
  <2> DEFINE new == FineWaived(invoice[i], invoice[i])
  <2>1. 0 \in Nat
    OBVIOUS
  <2>2. new \in Row /\ new.status # "CANCELLED"
    BY <1>1, <2>1, RowTypes
  <2>3. RowCoherent(new)
    BY <1>1, <2>1, RowsCoherent
  <2>4. QED
    BY <1>6, <2>2, <2>3, UpdateKeepsIInv DEF WaiveFine
<1>7. ASSUME NEW i \in Invoices, Cancel(i)
      PROVE  IInv'
  <2> DEFINE new == Cancelled(invoice[i])
  <2>1. 0 \in Nat
    OBVIOUS
  <2>2. new \in Row
    BY <1>1, <2>1, RowTypes
  <2>3. RowCoherent(new)
    BY <1>1, <2>1, RowsCoherent
  <2>4. new.paid = 0 /\ new.balance = 0 /\ ~Allocated(i)
    BY <1>1, <1>7 DEF Cancel, MayCancel, Cancelled, Row
  <2>5. QED
    BY <1>7, <2>2, <2>3, <2>4, UpdateKeepsIInv DEF Cancel
<1>8. ASSUME NEW r \in Receipts, NEW targets \in SUBSET OpenInvoices,
             NEW amount \in Amounts, Collect(r, amount, targets)
      PROVE  IInv'
  <2>1. amount \in Nat /\ targets \in SUBSET Invoices
    BY AmountsAssumption DEF OpenInvoices
  <2>2. PICK left \in Spending(invoice, targets, amount) :
            /\ payment' = [payment EXCEPT
                            ![r] = [status |-> "COMPLETED", amount |-> amount,
                                    alloc |-> Share(left)]]
            /\ invoice' = Settle(invoice, invoice, Share(left))
            /\ advance' = advance + left[InvoiceCount]
    BY <1>8 DEF Collect
  <2>3. /\ Share(left) \in [Invoices -> Nat]
        /\ left[InvoiceCount] \in Nat
        /\ \A i \in Invoices : Share(left)[i] > 0 => i \in targets
    BY <2>1, SpendingShares DEF IInv, TypeOK
  <2> DEFINE set == {i \in Invoices : Share(left)[i] # 0}
             paid == [i \in Invoices |-> invoice[i].paid + Share(left)[i]]
             p == [status |-> "COMPLETED", amount |-> amount, alloc |-> Share(left)]
  <2>4. set \in SUBSET Invoices /\ \A i \in Invoices : p.alloc[i] > 0 => i \in set
    BY <2>3
  <2>5. paid \in [Invoices -> Nat]
    BY <1>1, <2>3 DEF Row
  <2>6. p \in Payment
    BY <2>1, <2>3 DEF Payment
  <2>7. \A i \in set : invoice[i].status # "CANCELLED"
    BY <2>3 DEF OpenInvoices, Open
  <2>8. invoice' = [i \in Invoices |->
                      IF i \in set THEN Settled(invoice[i], invoice[i], paid[i])
                                   ELSE invoice[i]]
    BY <2>2 DEF Settle
  <2>9. advance' \in Nat
    BY <2>2, <2>3 DEF IInv, TypeOK
  <2> HIDE DEF set, paid, p
  <2>10. payment' = [payment EXCEPT ![r] = p]
    BY <2>2 DEF p
  <2>11. QED
    BY <2>4, <2>5, <2>6, <2>7, <2>8, <2>9, <2>10, SettleKeepsIInv
<1>9. ASSUME NEW r \in Receipts, Void(r)
      PROVE  IInv'
  <2>1. payment[r] \in Payment
    BY DEF IInv, TypeOK
  <2> DEFINE alloc == payment[r].alloc
             set == {i \in Invoices : alloc[i] # 0}
             paid == [i \in Invoices |-> Minus(invoice[i].paid, alloc[i])]
             p == [payment[r] EXCEPT !.status = "VOIDED"]
  <2>2. alloc \in [Invoices -> Nat] /\ p \in Payment /\ p.alloc = alloc
    BY <2>1 DEF Payment
  <2>3. set \in SUBSET Invoices /\ \A i \in Invoices : p.alloc[i] > 0 => i \in set
    BY <2>2
  <2>4. paid \in [Invoices -> Nat]
    BY <1>1, <2>2, MinusNat DEF Row
  <2>5. \A i \in set : invoice[i].status # "CANCELLED"
    BY <2>2 DEF IInv, CancelledUnpaid, Allocated
  <2>6. invoice' = [i \in Invoices |->
                      IF i \in set THEN Settled(invoice[i], invoice[i], paid[i])
                                   ELSE invoice[i]]
    BY <1>9 DEF Void, Restore
  <2>7. payment' = [payment EXCEPT ![r] = p]
    BY <1>9 DEF Void, IInv, TypeOK
  <2>8. PICK left \in Unspent(payment[r]) : advance' = Minus(advance, left[InvoiceCount])
    BY <1>9 DEF Void
  <2>9. left[InvoiceCount] \in Nat
    <3>1. payment[r].amount \in Nat
      BY <2>1 DEF Payment
    <3>2. QED
      BY <3>1, CountAssumption DEF Unspent
  <2>10. Minus(advance, left[InvoiceCount]) \in Nat
    BY <2>9, MinusNat DEF IInv, TypeOK
  <2> HIDE DEF alloc, set, paid, p
  <2>11. QED
    BY <2>2, <2>3, <2>4, <2>5, <2>6, <2>7, <2>8, <2>10, SettleKeepsIInv
<1>10. \A requested \in SUBSET Invoices : \A targets \in Targets(requested) :
          targets \in SUBSET OpenInvoices
  BY DEF Targets
<1>11. QED
  BY <1>2, <1>3, <1>4, <1>5, <1>6, <1>7, <1>8, <1>9, <1>10 DEF Next

---------------------------------------------------------------------------
(* The theorems.                                                           *)

\* The invariant holds in every state of the ledger.
LEMMA Invariance == Spec => []IInv
<1>1. Init => IInv
  <2> SUFFICES ASSUME Init PROVE IInv
    OBVIOUS
  <2>1. NoRow \in Row /\ RowCoherent(NoRow) /\ NoRow.status # "CANCELLED"
    BY DEF NoRow, Row, InvoiceStatuses, RowCoherent, Open
  <2>2. NoPayment \in Payment
    BY DEF NoPayment, Payment
  <2>3. QED
    BY <2>1, <2>2 DEF Init, IInv, TypeOK, Coherent, CancelledUnpaid
<1>2. IInv /\ [Next]_vars => IInv'
  <2>1. IInv /\ Next => IInv'
    BY StepKeepsIInv
  <2>2. IInv /\ UNCHANGED vars => IInv'
    BY DEF vars, IInv, TypeOK, Coherent, CancelledUnpaid, Allocated
  <2>3. QED
    BY <2>1, <2>2
<1>3. QED
  BY <1>1, <1>2, PTL DEF Spec

\* Every column keeps its type: no amount ever becomes negative, whatever is
\* fined, discounted, paid, voided or waived.
THEOREM TypeCorrect == Spec => []TypeOK
<1>1. IInv => TypeOK
  BY DEF IInv
<1>2. QED
  BY <1>1, Invariance, PTL

\* Balance, total, paid amount and status of every invoice always agree.
THEOREM AlwaysCoherent == Spec => []Coherent
<1>1. IInv => Coherent
  BY DEF IInv
<1>2. QED
  BY <1>1, Invariance, PTL

\* A cancelled invoice never carries a paid amount, a balance or an allocation.
THEOREM CancelledNeverPaid == Spec => []CancelledUnpaid
<1>1. IInv => CancelledUnpaid
  BY DEF IInv
<1>2. QED
  BY <1>1, Invariance, PTL

\* A handler that writes one row overpays nothing when it does not raise the paid
\* amount of the row.
LEMMA UpdateOverpaysNothing ==
    ASSUME IInv, NEW i \in Invoices, NEW row \in Row,
           row.paid <= invoice[i].paid, Update(i, row),
           NEW j \in Invoices, invoice'[j].paid > invoice[j].paid
    PROVE  FALSE
<1>1. invoice[i].paid \in Nat /\ invoice[j].paid \in Nat /\ row.paid \in Nat
  BY DEF IInv, TypeOK, Row
<1>2. invoice'[j] = IF j = i THEN row ELSE invoice[j]
  BY DEF Update, IInv, TypeOK
<1>3. QED
  BY <1>1, <1>2

\* No collection pays an invoice beyond its total, for any amounts.
THEOREM CollectNeverOverpays == Spec => NeverOverpays
<1>1. ASSUME IInv, Next, NEW j \in Invoices, invoice'[j].paid > invoice[j].paid
      PROVE  invoice'[j].paid <= invoice'[j].total
  <2>1. \A i \in Invoices : invoice[i] \in Row /\ invoice[i].paid \in Nat
    BY <1>1 DEF IInv, TypeOK, Row
  <2>2. ASSUME NEW i \in Invoices, NEW bill \in Bills, Generate(i, bill)
        PROVE  FALSE
    <3>1. Generated(bill) \in Row /\ Generated(bill).paid = 0
      BY BillsAssumption, GeneratedRow
    <3>2. QED
      BY <1>1, <2>1, <2>2, <3>1, UpdateOverpaysNothing DEF Generate
  <2>3. ASSUME NEW i \in Invoices, NEW amount \in Amounts,
               \/ ApplyLateFine(i, amount)
               \/ AdjustDiscount(i, amount)
               \/ AdjustCharge(i, amount)
        PROVE  FALSE
    <3>1. amount \in Nat /\ invoice[i] \in Row
      BY <2>1, AmountsAssumption
    <3>2. \A new \in {Fined(invoice[i], invoice[i], amount),
                      Discounted(invoice[i], invoice[i], amount),
                      Charged(invoice[i], invoice[i], amount),
                      FineWaived(invoice[i], invoice[i])} :
            new \in Row /\ new.paid = invoice[i].paid
      BY <3>1, RowTypes
    <3>3. PICK new \in {Fined(invoice[i], invoice[i], amount),
                        Discounted(invoice[i], invoice[i], amount),
                        Charged(invoice[i], invoice[i], amount)} : Update(i, new)
      BY <2>3 DEF ApplyLateFine, AdjustDiscount, AdjustCharge
    <3>4. new \in Row /\ new.paid <= invoice[i].paid
      BY <2>1, <3>2
    <3>5. QED
      BY <1>1, <3>3, <3>4, UpdateOverpaysNothing
  <2>4. ASSUME NEW i \in Invoices, WaiveFine(i)
        PROVE  FALSE
    <3>1. 0 \in Nat
      OBVIOUS
    <3>2. FineWaived(invoice[i], invoice[i]) \in Row
          /\ FineWaived(invoice[i], invoice[i]).paid <= invoice[i].paid
      BY <2>1, <3>1, RowTypes
    <3>3. QED
      BY <1>1, <2>4, <3>2, UpdateOverpaysNothing DEF WaiveFine
  <2>5. ASSUME NEW i \in Invoices, Cancel(i)
        PROVE  FALSE
    <3>1. Cancelled(invoice[i]) \in Row /\ Cancelled(invoice[i]).paid = invoice[i].paid
      BY <2>1 DEF Cancelled, Row, InvoiceStatuses
    <3>2. Cancelled(invoice[i]).paid <= invoice[i].paid
      BY <2>1, <3>1
    <3>3. QED
      BY <1>1, <2>5, <3>1, <3>2, UpdateOverpaysNothing DEF Cancel
  <2>6. ASSUME NEW r \in Receipts, NEW targets \in SUBSET OpenInvoices,
               NEW amount \in Amounts, Collect(r, amount, targets)
        PROVE  invoice'[j].paid <= invoice'[j].total
    <3>1. amount \in Nat /\ targets \in SUBSET Invoices
      BY AmountsAssumption DEF OpenInvoices
    <3>2. PICK left \in Spending(invoice, targets, amount) :
              invoice' = Settle(invoice, invoice, Share(left))
      BY <2>6 DEF Collect
    <3>3. /\ Share(left)[j] \in Nat
          /\ Share(left)[j] <= invoice[j].balance
          /\ Share(left)[j] > 0 => j \in targets
      BY <1>1, <3>1, SpendingShares DEF IInv, TypeOK
    <3>4. /\ Share(left)[j] # 0
          /\ invoice'[j] = Settled(invoice[j], invoice[j],
                                   invoice[j].paid + Share(left)[j])
      BY <1>1, <2>1, <3>2 DEF Settle
    <3>5. invoice[j].balance = Minus(invoice[j].total, invoice[j].paid)
          /\ invoice[j].total \in Nat
      BY <1>1, <3>3, <3>4 DEF IInv, Coherent, RowCoherent, OpenInvoices, TypeOK, Row
    <3>6. invoice[j].paid + Share(left)[j] <= invoice[j].total
      BY <2>1, <3>3, <3>4, <3>5 DEF Minus
    <3>7. invoice'[j].paid = invoice[j].paid + Share(left)[j]
          /\ invoice'[j].total = invoice[j].total
      BY <2>1, <3>3, <3>4, RowTypes
    <3>8. QED
      BY <3>6, <3>7
  <2>7. ASSUME NEW r \in Receipts, Void(r)
        PROVE  FALSE
    <3>1. payment[r].alloc[j] \in Nat
      BY <1>1 DEF IInv, TypeOK, Payment
    <3>2. Minus(invoice[j].paid, payment[r].alloc[j]) \in Nat
          /\ Minus(invoice[j].paid, payment[r].alloc[j]) <= invoice[j].paid
      BY <2>1, <3>1, MinusNat
    <3>3. Settled(invoice[j], invoice[j],
                  Minus(invoice[j].paid, payment[r].alloc[j])).paid
            = Minus(invoice[j].paid, payment[r].alloc[j])
      BY <2>1, <3>2, RowTypes
    <3>4. \/ invoice'[j].paid = invoice[j].paid
          \/ invoice'[j].paid = Minus(invoice[j].paid, payment[r].alloc[j])
      BY <2>7, <3>3 DEF Void, Restore
    <3>5. QED
      BY <1>1, <2>1, <3>2, <3>4
  <2>8. \A requested \in SUBSET Invoices : \A targets \in Targets(requested) :
            targets \in SUBSET OpenInvoices
    BY DEF Targets
  <2>9. QED
    BY <1>1, <2>2, <2>3, <2>4, <2>5, <2>6, <2>7, <2>8 DEF Next
<1>2. IInv /\ [Next]_vars =>
        [\A i \in Invoices : invoice'[i].paid > invoice[i].paid
                                => invoice'[i].paid <= invoice'[i].total]_vars
  BY <1>1
<1>3. QED
  BY <1>2, Invariance, PTL DEF Spec, NeverOverpays

\* A recorded payment is only ever voided, and a voided one never changes.
THEOREM PaymentsAreFinal == Spec => PaymentsFinal
<1> DEFINE Final(r) ==
        /\ payment[r].status = "COMPLETED" =>
            payment'[r] \in {payment[r], [payment[r] EXCEPT !.status = "VOIDED"]}
        /\ payment[r].status = "VOIDED" => payment'[r] = payment[r]
<1>1. ASSUME IInv, Next, NEW r \in Receipts
      PROVE  Final(r)
  <2>1. ASSUME payment' = payment
        PROVE  Final(r)
    BY <2>1
  <2>2. ASSUME NEW q \in Receipts, NEW amount, NEW targets, Collect(q, amount, targets)
        PROVE  Final(r)
    BY <1>1, <2>2 DEF Collect, NextReceipt, IInv, TypeOK
  <2>3. ASSUME NEW q \in Receipts, Void(q)
        PROVE  Final(r)
    BY <1>1, <2>3 DEF Void, IInv, TypeOK
  <2>4. QED
    BY <1>1, <2>1, <2>2, <2>3
    DEF Next, Update, Generate, ApplyLateFine, AdjustDiscount, AdjustCharge,
        WaiveFine, Cancel
<1>2. IInv /\ [Next]_vars => [\A r \in Receipts : Final(r)]_vars
  BY <1>1
<1>3. QED
  BY <1>2, Invariance, PTL DEF Spec, PaymentsFinal

---------------------------------------------------------------------------
(* What the loops over the invoices leave.                                 *)

\* One more element at the end of an interval.
LEMMA TotalUpto ==
    ASSUME NEW f \in [Invoices -> Nat], NEW k \in Invoices
    PROVE  /\ SumFunctionOnSet(f, 1 .. k) = f[k] + SumFunctionOnSet(f, 1 .. k - 1)
           /\ SumFunctionOnSet(f, 1 .. k) \in Nat /\ SumFunctionOnSet(f, 1 .. k - 1) \in Nat
           /\ f[k] \in Nat
<1>1. k \in Nat /\ k >= 1 /\ 1 .. k \subseteq Invoices /\ 1 .. k - 1 \subseteq Invoices
  BY CountAssumption DEF Invoices
<1>2. IsFiniteSet(1 .. k) /\ IsFiniteSet(1 .. k - 1)
  BY <1>1, FS_Interval
<1>3. k \in 1 .. k /\ (1 .. k) \ {k} = 1 .. k - 1
  BY <1>1
<1>4. \A x \in 1 .. k : f[x] \in Nat
  BY <1>1
<1>5. \A x \in 1 .. k - 1 : f[x] \in Nat
  BY <1>1
<1>6. SumFunctionOnSet(f, 1 .. k) \in Nat /\ SumFunctionOnSet(f, 1 .. k) = f[k] + SumFunctionOnSet(f, (1 .. k) \ {k})
  BY <1>2, <1>3, <1>4, Totals
<1>7. SumFunctionOnSet(f, 1 .. k - 1) \in Nat
  BY <1>2, <1>5, Totals
<1>8. QED
  BY <1>3, <1>6, <1>7

\* The loop of voidFeePayment ends with the part of the amount that the allocations
\* leave.
LEMMA UnspentIsExcess ==
    ASSUME NEW p \in Payment, NEW left \in Unspent(p)
    PROVE  left[InvoiceCount] = Excess(p) /\ left[InvoiceCount] \in Nat
<1>1. p.amount \in Nat /\ p.alloc \in [Invoices -> Nat]
  BY DEF Payment
<1>2. /\ left \in [0 .. InvoiceCount -> 0 .. p.amount] /\ left[0] = p.amount
      /\ \A i \in Invoices : left[i] = Minus(left[i - 1], p.alloc[i])
  BY DEF Unspent
<1> DEFINE Bad == {k \in 0 .. InvoiceCount :
                     left[k] # Minus(p.amount, SumFunctionOnSet(p.alloc, 1 .. k))}
<1>3. Bad = {}
  <2> SUFFICES ASSUME Bad # {} PROVE FALSE
    OBVIOUS
  <2>1. Bad \in SUBSET Nat
    BY CountAssumption
  <2>2. PICK k \in Bad : \A m \in Bad : k <= m
    BY <2>1, LeastElement
  <2>3. k # 0
    <3>1. 1 .. 0 = {} /\ IsFiniteSet({})
      BY FS_EmptySet
    <3>2. SumFunctionOnSet(p.alloc, {}) = 0
      BY <3>1, Totals
    <3>3. QED
      BY <1>1, <1>2, <3>1, <3>2 DEF Minus
  <2>4. k \in Invoices /\ k - 1 \in 0 .. InvoiceCount /\ k - 1 \notin Bad
    <3>1. k \in 0 .. InvoiceCount
      OBVIOUS
    <3> HIDE DEF Bad
    <3>2. QED
      BY <2>2, <2>3, <3>1, CountAssumption DEF Invoices
  <2>5. left[k - 1] = Minus(p.amount, SumFunctionOnSet(p.alloc, 1 .. k - 1))
    BY <2>4
  <2>6. left[k] = Minus(left[k - 1], p.alloc[k])
    BY <1>2, <2>4
  <2>7. /\ SumFunctionOnSet(p.alloc, 1 .. k) = p.alloc[k] + SumFunctionOnSet(p.alloc, 1 .. k - 1)
        /\ SumFunctionOnSet(p.alloc, 1 .. k - 1) \in Nat /\ p.alloc[k] \in Nat
    BY <1>1, <2>4, TotalUpto
  <2>8. left[k] = Minus(p.amount, SumFunctionOnSet(p.alloc, 1 .. k))
    BY <1>1, <2>5, <2>6, <2>7 DEF Minus
  <2>9. QED
    BY <2>8
<1>4. InvoiceCount \in 0 .. InvoiceCount
  BY CountAssumption
<1>5. left[InvoiceCount] = Minus(p.amount, SumFunctionOnSet(p.alloc, Invoices))
  BY <1>3, <1>4 DEF Invoices
<1>6. QED
  BY <1>2, <1>4, <1>5 DEF Excess, AllocatedSum

\* The loop of collectFeePayment ends with the part of the amount that the shares
\* leave.
LEMMA SpendingLeavesExcess ==
    ASSUME NEW rows \in [Invoices -> Row], NEW targets \in SUBSET Invoices,
           NEW amount \in Nat, NEW left \in Spending(rows, targets, amount),
           NEW p, p.amount = amount, p.alloc = Share(left)
    PROVE  left[InvoiceCount] = Excess(p)
<1>1. /\ left \in [0 .. InvoiceCount -> 0 .. amount] /\ left[0] = amount
      /\ Share(left) \in [Invoices -> Nat]
  BY SpendingShares DEF Spending
<1> DEFINE Bad == {k \in 0 .. InvoiceCount :
                     SumFunctionOnSet(Share(left), 1 .. k) # amount - left[k]}
<1>2. Bad = {}
  <2> SUFFICES ASSUME Bad # {} PROVE FALSE
    OBVIOUS
  <2>1. Bad \in SUBSET Nat
    BY CountAssumption
  <2>2. PICK k \in Bad : \A m \in Bad : k <= m
    BY <2>1, LeastElement
  <2>3. k # 0
    <3>1. 1 .. 0 = {} /\ IsFiniteSet({})
      BY FS_EmptySet
    <3>2. SumFunctionOnSet(Share(left), {}) = 0
      BY <3>1, Totals
    <3>3. QED
      BY <1>1, <3>1, <3>2
  <2>4. k \in Invoices /\ k - 1 \in 0 .. InvoiceCount /\ k \in 0 .. InvoiceCount /\ k - 1 \notin Bad
    <3>1. k \in 0 .. InvoiceCount
      OBVIOUS
    <3> HIDE DEF Bad
    <3>2. QED
      BY <2>2, <2>3, <3>1, CountAssumption DEF Invoices
  <2>5. SumFunctionOnSet(Share(left), 1 .. k - 1) = amount - left[k - 1]
    BY <2>4
  <2>6. /\ SumFunctionOnSet(Share(left), 1 .. k) = Share(left)[k] + SumFunctionOnSet(Share(left), 1 .. k - 1)
        /\ Share(left)[k] = left[k - 1] - left[k]
    BY <1>1, <2>4, TotalUpto DEF Share
  <2>7. left[k] \in Nat /\ left[k - 1] \in Nat
    BY <1>1, <2>4
  <2>8. SumFunctionOnSet(Share(left), 1 .. k) = amount - left[k]
    BY <2>5, <2>6, <2>7
  <2>9. QED
    BY <2>8
<1>3. InvoiceCount \in 0 .. InvoiceCount
  BY CountAssumption
<1>4. SumFunctionOnSet(Share(left), Invoices) = amount - left[InvoiceCount]
  BY <1>2, <1>3 DEF Invoices
<1>5. left[InvoiceCount] \in Nat /\ left[InvoiceCount] <= amount
  BY <1>1, <1>3
<1>6. Excess(p) = Minus(amount, SumFunctionOnSet(Share(left), Invoices))
  BY DEF Excess, AllocatedSum
<1>7. QED
  BY <1>4, <1>5, <1>6 DEF Minus

\* The money that remains never grows from one invoice to the next.
LEMMA SpendingFalls ==
    ASSUME NEW rows \in [Invoices -> Row], NEW targets \in SUBSET Invoices,
           NEW amount \in Nat, NEW left \in Spending(rows, targets, amount),
           NEW i \in 0 .. InvoiceCount
    PROVE  \A k \in 0 .. InvoiceCount : i <= k => left[k] <= left[i]
<1>1. left \in [0 .. InvoiceCount -> 0 .. amount]
  BY DEF Spending
<1> DEFINE Bad == {k \in 0 .. InvoiceCount : i <= k /\ ~(left[k] <= left[i])}
<1> SUFFICES ASSUME Bad # {} PROVE FALSE
  OBVIOUS
<1>2. Bad \in SUBSET Nat
  BY CountAssumption
<1>3. PICK k \in Bad : \A m \in Bad : k <= m
  BY <1>2, LeastElement
<1>4. k \in 0 .. InvoiceCount /\ i <= k /\ ~(left[k] <= left[i])
  OBVIOUS
<1>5. i # k
  BY <1>1, <1>4
<1>6. k \in Invoices /\ k - 1 \in 0 .. InvoiceCount /\ i <= k - 1 /\ k - 1 \notin Bad
  <2> HIDE DEF Bad
  <2>1. QED
    BY <1>3, <1>4, <1>5, CountAssumption DEF Invoices
<1>7. left[k - 1] <= left[i]
  BY <1>6
<1>8. left[k - 1] - left[k] \in Nat
  <2>1. Share(left)[k] \in Nat
    BY <1>6, SpendingShares
  <2>2. QED
    BY <1>6, <2>1 DEF Share
<1>9. left[k] \in Nat /\ left[k - 1] \in Nat /\ left[i] \in Nat
  BY <1>1, <1>4, <1>6
<1>10. QED
  BY <1>4, <1>7, <1>8, <1>9

---------------------------------------------------------------------------
(* The books: what invoices, payments and the advance balance add up to.   *)

\* Nothing is paid on a period without an invoice, and a receipt that is not issued
\* allocates nothing.
NothingYet ==
    /\ \A i \in Invoices : ~Exists(invoice[i]) => invoice[i].paid = 0
    /\ \A r \in Receipts, i \in Invoices :
        payment[r].status = "NONE" => payment[r].alloc[i] = 0

Books == NothingYet /\ PaidIsAllocated /\ AdvanceIsExcess

Allocation(i) == [r \in Receipts |-> payment[r].alloc[i]]
Excesses == [r \in Receipts |-> Excess(payment[r])]

\* What is summed over the payments are natural numbers.
LEMMA ExcessNat ==
    ASSUME NEW p \in Payment
    PROVE  Excess(p) \in Nat /\ \A i \in Invoices : p.alloc[i] \in Nat
<1>1. IsFiniteSet(Invoices)
  BY FS_Interval, CountAssumption DEF Invoices
<1>2. p.amount \in Nat /\ \A i \in Invoices : p.alloc[i] \in Nat
  BY DEF Payment
<1>3. SumFunctionOnSet(p.alloc, Invoices) \in Nat
  BY <1>1, <1>2, Totals
<1>4. QED
  BY <1>2, <1>3, MinusNat DEF Excess, AllocatedSum

LEMMA ExcessTotal ==
    ASSUME TypeOK
    PROVE  SumFunctionOnSet(Excesses, Live) \in Nat
<1>1. IsFiniteSet(Receipts)
  BY FS_Interval, CountAssumption DEF Receipts
<1>2. IsFiniteSet(Live) /\ Live \in SUBSET Receipts
  BY <1>1, FS_Subset DEF Live
<1>3. \A r \in Live : Excesses[r] \in Nat
  BY <1>2, ExcessNat DEF Excesses, TypeOK
<1>4. QED
  BY <1>2, <1>3, Totals

\* A step that leaves payments, paid amounts and advance alone leaves the books right.
LEMMA BooksKept ==
    ASSUME Books, payment' = payment, advance' = advance,
           \A i \in Invoices : /\ invoice'[i].paid = invoice[i].paid
                               /\ Exists(invoice[i]) => Exists(invoice'[i])
    PROVE  Books'
<1>1. NothingYet'
  BY DEF Books, NothingYet
<1>2. Live' = Live
  BY DEF Live
<1>3. PaidIsAllocated'
  BY <1>2 DEF Books, PaidIsAllocated
<1>4. AdvanceIsExcess'
  BY <1>2 DEF Books, AdvanceIsExcess
<1>5. QED
  BY <1>1, <1>3, <1>4 DEF Books

\* One handler of one invoice.
LEMMA UpdateKeepsBooks ==
    ASSUME TypeOK, Books, NEW i \in Invoices, NEW row, Update(i, row),
           row.paid = invoice[i].paid, Exists(row)
    PROVE  Books'
<1>1. invoice' = [invoice EXCEPT ![i] = row] /\ payment' = payment /\ advance' = advance
  BY DEF Update
<1>2. \A j \in Invoices : invoice'[j] = IF j = i THEN row ELSE invoice[j]
  BY <1>1 DEF TypeOK
<1>3. QED
  BY <1>1, <1>2, BooksKept

\* A payment comes into force: every sum over the payments gains what it adds.
LEMMA LiveGains ==
    ASSUME TypeOK, NEW r \in Receipts, payment[r].status # "COMPLETED",
           NEW p \in Payment, p.status = "COMPLETED",
           payment' = [payment EXCEPT ![r] = p], TypeOK'
    PROVE  /\ \A i \in Invoices : SumFunctionOnSet(Allocation(i)', Live')
                                    = p.alloc[i] + SumFunctionOnSet(Allocation(i), Live)
           /\ SumFunctionOnSet(Excesses', Live')
                = Excess(p) + SumFunctionOnSet(Excesses, Live)
<1>1. \A q \in Receipts : payment'[q] = IF q = r THEN p ELSE payment[q]
  BY DEF TypeOK
<1>2. r \notin Live /\ r \in Live' /\ Live' \ {r} = Live
  BY <1>1 DEF Live
<1>3. IsFiniteSet(Live) /\ IsFiniteSet(Live') /\ Live \in SUBSET Receipts
      /\ Live' \in SUBSET Receipts
  <2>1. IsFiniteSet(Receipts)
    BY FS_Interval, CountAssumption DEF Receipts
  <2>2. QED
    BY <2>1, FS_Subset DEF Live
<1>4. \A q \in Receipts :
        /\ Excesses[q] = Excess(payment[q]) /\ Excess(payment[q]) \in Nat
        /\ Excesses'[q] = Excess(payment'[q]) /\ Excess(payment'[q]) \in Nat
        /\ \A i \in Invoices :
            /\ Allocation(i)[q] = payment[q].alloc[i] /\ payment[q].alloc[i] \in Nat
            /\ Allocation(i)'[q] = payment'[q].alloc[i] /\ payment'[q].alloc[i] \in Nat
  BY ExcessNat DEF Excesses, Allocation, TypeOK
<1>5. ASSUME NEW i \in Invoices
      PROVE  SumFunctionOnSet(Allocation(i)', Live')
                = p.alloc[i] + SumFunctionOnSet(Allocation(i), Live)
  <2>1. \A q \in Live' : Allocation(i)'[q] \in Nat
    BY <1>3, <1>4
  <2>2. SumFunctionOnSet(Allocation(i)', Live')
            = Allocation(i)'[r] + SumFunctionOnSet(Allocation(i)', Live)
    BY <1>2, <1>3, <2>1, Totals
  <2>3. \A q \in Live : Allocation(i)[q] \in Nat /\ Allocation(i)'[q] = Allocation(i)[q]
    BY <1>1, <1>2, <1>3, <1>4
  <2>4. SumFunctionOnSet(Allocation(i)', Live) = SumFunctionOnSet(Allocation(i), Live)
    BY <1>3, <2>3, Totals
  <2>5. Allocation(i)'[r] = p.alloc[i]
    BY <1>1, <1>4
  <2>6. QED
    BY <2>2, <2>4, <2>5
<1>6. SumFunctionOnSet(Excesses', Live') = Excess(p) + SumFunctionOnSet(Excesses, Live)
  <2>1. \A q \in Live' : Excesses'[q] \in Nat
    BY <1>3, <1>4
  <2>2. SumFunctionOnSet(Excesses', Live') = Excesses'[r] + SumFunctionOnSet(Excesses', Live)
    BY <1>2, <1>3, <2>1, Totals
  <2>3. \A q \in Live : Excesses[q] \in Nat /\ Excesses'[q] = Excesses[q]
    BY <1>1, <1>2, <1>3, <1>4
  <2>4. SumFunctionOnSet(Excesses', Live) = SumFunctionOnSet(Excesses, Live)
    BY <1>3, <2>3, Totals
  <2>5. Excesses'[r] = Excess(p)
    BY <1>1, <1>4
  <2>6. QED
    BY <2>2, <2>4, <2>5
<1>7. QED
  BY <1>5, <1>6

\* A payment is voided: every sum over the payments loses what it added.
LEMMA LiveLoses ==
    ASSUME TypeOK, NEW r \in Live,
           payment' = [payment EXCEPT ![r].status = "VOIDED"], TypeOK'
    PROVE  /\ \A i \in Invoices : SumFunctionOnSet(Allocation(i), Live)
                = payment[r].alloc[i] + SumFunctionOnSet(Allocation(i)', Live')
           /\ SumFunctionOnSet(Excesses, Live)
                = Excess(payment[r]) + SumFunctionOnSet(Excesses', Live')
           /\ \A i \in Invoices : SumFunctionOnSet(Allocation(i)', Live') \in Nat
           /\ SumFunctionOnSet(Excesses', Live') \in Nat
<1>1. /\ r \in Receipts /\ payment'[r].status = "VOIDED"
      /\ \A q \in Receipts \ {r} : payment'[q] = payment[q]
  BY DEF TypeOK, Live, Payment
<1>2. Live \ {r} = Live' /\ r \notin Live'
  BY <1>1 DEF Live
<1>3. IsFiniteSet(Live) /\ IsFiniteSet(Live') /\ Live \in SUBSET Receipts
      /\ Live' \in SUBSET Receipts
  <2>1. IsFiniteSet(Receipts)
    BY FS_Interval, CountAssumption DEF Receipts
  <2>2. QED
    BY <2>1, FS_Subset DEF Live
<1>4. \A q \in Receipts :
        /\ Excesses[q] = Excess(payment[q]) /\ Excess(payment[q]) \in Nat
        /\ Excesses'[q] = Excess(payment'[q]) /\ Excess(payment'[q]) \in Nat
        /\ \A i \in Invoices :
            /\ Allocation(i)[q] = payment[q].alloc[i] /\ payment[q].alloc[i] \in Nat
            /\ Allocation(i)'[q] = payment'[q].alloc[i] /\ payment'[q].alloc[i] \in Nat
  BY ExcessNat DEF Excesses, Allocation, TypeOK
<1>5. ASSUME NEW i \in Invoices
      PROVE  /\ SumFunctionOnSet(Allocation(i), Live)
                = payment[r].alloc[i] + SumFunctionOnSet(Allocation(i)', Live')
             /\ SumFunctionOnSet(Allocation(i)', Live') \in Nat
  <2>1. \A q \in Live : Allocation(i)[q] \in Nat
    BY <1>3, <1>4
  <2>2. SumFunctionOnSet(Allocation(i), Live)
            = Allocation(i)[r] + SumFunctionOnSet(Allocation(i), Live')
    BY <1>2, <1>3, <2>1, Totals
  <2>3. \A q \in Live' : Allocation(i)'[q] \in Nat /\ Allocation(i)[q] = Allocation(i)'[q]
    BY <1>1, <1>2, <1>3, <1>4
  <2>4. /\ SumFunctionOnSet(Allocation(i), Live') = SumFunctionOnSet(Allocation(i)', Live')
        /\ SumFunctionOnSet(Allocation(i)', Live') \in Nat
    BY <1>3, <2>3, Totals
  <2>5. Allocation(i)[r] = payment[r].alloc[i]
    BY <1>1, <1>4
  <2>6. QED
    BY <2>2, <2>4, <2>5
<1>6. /\ SumFunctionOnSet(Excesses, Live)
            = Excess(payment[r]) + SumFunctionOnSet(Excesses', Live')
      /\ SumFunctionOnSet(Excesses', Live') \in Nat
  <2>1. \A q \in Live : Excesses[q] \in Nat
    BY <1>3, <1>4
  <2>2. SumFunctionOnSet(Excesses, Live) = Excesses[r] + SumFunctionOnSet(Excesses, Live')
    BY <1>2, <1>3, <2>1, Totals
  <2>3. \A q \in Live' : Excesses'[q] \in Nat /\ Excesses[q] = Excesses'[q]
    BY <1>1, <1>2, <1>3, <1>4
  <2>4. /\ SumFunctionOnSet(Excesses, Live') = SumFunctionOnSet(Excesses', Live')
        /\ SumFunctionOnSet(Excesses', Live') \in Nat
    BY <1>3, <2>3, Totals
  <2>5. Excesses[r] = Excess(payment[r])
    BY <1>1, <1>4
  <2>6. QED
    BY <2>2, <2>4, <2>5
<1>7. QED
  BY <1>5, <1>6

\* Collecting a payment: the invoices gain what it allocates, the advance the rest.
LEMMA CollectKeepsBooks ==
    ASSUME IInv, IInv', Books, NEW r \in Receipts, NEW targets \in SUBSET OpenInvoices,
           NEW amount \in Amounts, Collect(r, amount, targets)
    PROVE  Books'
<1>1. amount \in Nat /\ targets \in SUBSET Invoices /\ invoice \in [Invoices -> Row]
  BY AmountsAssumption DEF OpenInvoices, IInv, TypeOK
<1>2. PICK left \in Spending(invoice, targets, amount) :
        /\ payment' = [payment EXCEPT
                        ![r] = [status |-> "COMPLETED", amount |-> amount,
                                alloc |-> Share(left)]]
        /\ invoice' = Settle(invoice, invoice, Share(left))
        /\ advance' = advance + left[InvoiceCount]
  BY DEF Collect
<1>3. Share(left) \in [Invoices -> Nat]
  BY <1>1, SpendingShares
<1> DEFINE p == [status |-> "COMPLETED", amount |-> amount, alloc |-> Share(left)]
<1>4. p \in Payment /\ p.status = "COMPLETED" /\ p.amount = amount /\ p.alloc = Share(left)
  BY <1>1, <1>3 DEF Payment
<1>5. payment[r].status = "NONE"
  BY DEF Collect, NextReceipt
<1>6. payment' = [payment EXCEPT ![r] = p]
  BY <1>2
<1> HIDE DEF p
<1>7. /\ \A i \in Invoices : SumFunctionOnSet(Allocation(i)', Live')
                                = p.alloc[i] + SumFunctionOnSet(Allocation(i), Live)
      /\ SumFunctionOnSet(Excesses', Live') = Excess(p) + SumFunctionOnSet(Excesses, Live)
  BY <1>4, <1>5, <1>6, LiveGains DEF IInv
<1>8. left[InvoiceCount] = Excess(p) /\ Excess(p) \in Nat
  BY <1>1, <1>4, SpendingLeavesExcess, ExcessNat
<1>9. ASSUME NEW i \in Invoices
      PROVE  /\ invoice'[i].paid = invoice[i].paid + p.alloc[i]
             /\ invoice[i].paid \in Nat
             /\ ~Exists(invoice'[i]) => invoice'[i].paid = 0
  <2>1. invoice[i] \in Row /\ invoice[i].paid \in Nat /\ p.alloc[i] \in Nat
        /\ p.alloc[i] = Share(left)[i]
    BY <1>1, <1>3, <1>4 DEF Row
  <2>2. CASE p.alloc[i] = 0
    <3>1. invoice'[i] = invoice[i]
      BY <1>2, <2>1, <2>2 DEF Settle
    <3>2. QED
      BY <2>1, <2>2, <3>1 DEF Books, NothingYet
  <2>3. CASE p.alloc[i] # 0
    <3> DEFINE paid == invoice[i].paid + p.alloc[i]
    <3>1. invoice'[i] = Settled(invoice[i], invoice[i], paid) /\ paid \in Nat
      BY <1>2, <2>1, <2>3 DEF Settle
    <3> HIDE DEF paid
    <3>2. /\ Settled(invoice[i], invoice[i], paid).paid = paid
          /\ Settled(invoice[i], invoice[i], paid).status \in {"UNPAID", "PARTIAL", "PAID"}
      BY <2>1, <3>1, RowTypes
    <3>3. invoice'[i].paid = paid /\ Exists(invoice'[i])
      BY <3>1, <3>2 DEF Exists
    <3>4. QED
      BY <2>1, <3>3 DEF paid
  <2>4. QED
    BY <2>2, <2>3
<1>10. PaidIsAllocated'
  <2> SUFFICES ASSUME NEW i \in Invoices
               PROVE  invoice'[i].paid = SumFunctionOnSet(Allocation(i)', Live')
    BY DEF PaidIsAllocated, Allocation
  <2>1. invoice[i].paid = SumFunctionOnSet(Allocation(i), Live)
    BY DEF Books, PaidIsAllocated, Allocation
  <2>2. p.alloc[i] \in Nat
    BY <1>3, <1>4
  <2>3. QED
    BY <1>7, <1>9, <2>1, <2>2
<1>11. AdvanceIsExcess'
  <2>1. advance = SumFunctionOnSet(Excesses, Live) /\ advance \in Nat
    BY DEF Books, AdvanceIsExcess, Excesses, IInv, TypeOK
  <2>2. advance' = SumFunctionOnSet(Excesses', Live')
    BY <1>2, <1>7, <1>8, <2>1
  <2>3. QED
    BY <2>2 DEF AdvanceIsExcess, Excesses
<1>12. NothingYet'
  <2>1. \A q \in Receipts : payment'[q] = IF q = r THEN p ELSE payment[q]
    BY <1>6 DEF IInv, TypeOK
  <2>2. QED
    BY <1>4, <1>9, <2>1 DEF Books, NothingYet
<1>13. QED
  BY <1>10, <1>11, <1>12 DEF Books

\* Voiding one: they lose exactly that, and Math.max hides nothing.
LEMMA VoidKeepsBooks ==
    ASSUME IInv, IInv', Books, NEW r \in Receipts, Void(r)
    PROVE  Books'
<1>1. /\ r \in Live /\ payment[r] \in Payment
      /\ payment' = [payment EXCEPT ![r].status = "VOIDED"]
      /\ invoice' = Restore(invoice, invoice, payment[r].alloc)
  BY DEF Void, Live, IInv, TypeOK
<1>2. PICK left \in Unspent(payment[r]) : advance' = Minus(advance, left[InvoiceCount])
  BY DEF Void
<1>3. left[InvoiceCount] = Excess(payment[r]) /\ Excess(payment[r]) \in Nat
  BY <1>1, UnspentIsExcess, ExcessNat
<1>4. /\ \A i \in Invoices : SumFunctionOnSet(Allocation(i), Live)
                = payment[r].alloc[i] + SumFunctionOnSet(Allocation(i)', Live')
      /\ SumFunctionOnSet(Excesses, Live)
                = Excess(payment[r]) + SumFunctionOnSet(Excesses', Live')
      /\ \A i \in Invoices : SumFunctionOnSet(Allocation(i)', Live') \in Nat
      /\ SumFunctionOnSet(Excesses', Live') \in Nat
  BY <1>1, LiveLoses DEF IInv
<1>5. ASSUME NEW i \in Invoices
      PROVE  /\ invoice'[i].paid = SumFunctionOnSet(Allocation(i)', Live')
             /\ ~Exists(invoice'[i]) => invoice'[i].paid = 0
  <2> DEFINE rest == SumFunctionOnSet(Allocation(i)', Live')
             part == payment[r].alloc[i]
  <2>1. invoice[i] \in Row /\ invoice[i].paid \in Nat /\ part \in Nat /\ rest \in Nat
    BY <1>1, <1>4, ExcessNat DEF IInv, TypeOK, Row
  <2>2. invoice[i].paid = part + rest
    BY <1>4 DEF Books, PaidIsAllocated, Allocation
  <2>3. invoice'[i] = IF part = 0 THEN invoice[i]
                      ELSE Settled(invoice[i], invoice[i], Minus(invoice[i].paid, part))
    BY <1>1 DEF Restore
  <2> HIDE DEF rest, part
  <2>4. Minus(invoice[i].paid, part) = rest
    BY <2>1, <2>2 DEF Minus
  <2>5. CASE part = 0
    <3>1. invoice'[i] = invoice[i] /\ invoice[i].paid = rest
      BY <2>1, <2>2, <2>3, <2>5
    <3>2. QED
      BY <3>1 DEF rest, Books, NothingYet
  <2>6. CASE part # 0
    <3>1. invoice'[i] = Settled(invoice[i], invoice[i], rest)
      BY <2>3, <2>4, <2>6
    <3>2. invoice'[i].paid = rest /\ Exists(invoice'[i])
      BY <2>1, <3>1, RowTypes DEF Exists
    <3>3. QED
      BY <3>2 DEF rest
  <2>7. QED
    BY <2>5, <2>6
<1>6. PaidIsAllocated'
  BY <1>5 DEF PaidIsAllocated, Allocation
<1>7. AdvanceIsExcess'
  <2>1. advance = SumFunctionOnSet(Excesses, Live)
    BY DEF Books, AdvanceIsExcess, Excesses
  <2>2. advance' = SumFunctionOnSet(Excesses', Live')
    BY <1>2, <1>3, <1>4, <2>1 DEF Minus
  <2>3. QED
    BY <2>2 DEF AdvanceIsExcess, Excesses
<1>8. NothingYet'
  <2>1. \A q \in Receipts : payment'[q].status = "NONE" => payment'[q] = payment[q]
    BY <1>1 DEF IInv, TypeOK, Payment
  <2>2. QED
    BY <1>5, <2>1 DEF Books, NothingYet
<1>9. QED
  BY <1>6, <1>7, <1>8 DEF Books

\* Every handler, run alone, keeps the books.
LEMMA StepKeepsBooks == IInv /\ Books /\ Next => Books'
<1> SUFFICES ASSUME IInv, Books, Next PROVE Books'
  OBVIOUS
<1>1. IInv' /\ TypeOK /\ \A i \in Invoices : invoice[i] \in Row
  BY StepKeepsIInv DEF IInv, TypeOK
<1>2. ASSUME NEW i \in Invoices, NEW bill \in Bills, Generate(i, bill)
      PROVE  Books'
  <2>1. Generated(bill).paid = 0 /\ Exists(Generated(bill))
    BY BillsAssumption DEF Generated, Exists
  <2>2. invoice[i].paid = 0 /\ Update(i, Generated(bill))
    BY <1>2 DEF Generate, Books, NothingYet
  <2>3. QED
    BY <1>1, <2>1, <2>2, UpdateKeepsBooks
<1>3. ASSUME NEW i \in Invoices, NEW amount \in Amounts,
             NEW new \in {Fined(invoice[i], invoice[i], amount),
                          Discounted(invoice[i], invoice[i], amount),
                          Charged(invoice[i], invoice[i], amount),
                          FineWaived(invoice[i], invoice[i])},
             Update(i, new)
      PROVE  Books'
  <2>1. amount \in Nat
    BY AmountsAssumption
  <2>2. new.paid = invoice[i].paid /\ new.status \in {"UNPAID", "PARTIAL", "PAID"}
    BY <1>1, <2>1, RowTypes
  <2>3. Exists(new)
    BY <2>2 DEF Exists
  <2>4. QED
    BY <1>1, <1>3, <2>2, <2>3, UpdateKeepsBooks
<1>4. ASSUME NEW i \in Invoices, WaiveFine(i)
      PROVE  Books'
  <2>1. FineWaived(invoice[i], invoice[i]).paid = invoice[i].paid
        /\ Exists(FineWaived(invoice[i], invoice[i]))
    <3>1. 0 \in Nat
      OBVIOUS
    <3>2. QED
      BY <1>1, <3>1, RowTypes DEF Exists
  <2>2. QED
    BY <1>1, <1>4, <2>1, UpdateKeepsBooks DEF WaiveFine
<1>5. ASSUME NEW i \in Invoices, Cancel(i)
      PROVE  Books'
  <2>1. Cancelled(invoice[i]).paid = invoice[i].paid /\ Exists(Cancelled(invoice[i]))
    BY <1>1 DEF Cancelled, Row, Exists
  <2>2. QED
    BY <1>1, <1>5, <2>1, UpdateKeepsBooks DEF Cancel
<1>6. ASSUME NEW r \in Receipts, NEW requested \in SUBSET Invoices,
             NEW targets \in Targets(requested), NEW amount \in Amounts,
             Collect(r, amount, targets)
      PROVE  Books'
  <2>1. targets \in SUBSET OpenInvoices
    BY DEF Targets
  <2>2. QED
    BY <1>1, <1>6, <2>1, CollectKeepsBooks
<1>7. ASSUME NEW r \in Receipts, Void(r)
      PROVE  Books'
  BY <1>1, <1>7, VoidKeepsBooks
<1>8. QED
  BY <1>2, <1>3, <1>4, <1>5, <1>6, <1>7
  DEF Next, ApplyLateFine, AdjustDiscount, AdjustCharge

\* Nothing is owed and nothing in force before the first invoice.
LEMMA InitBooks == Init => Books
<1> SUFFICES ASSUME Init PROVE Books
  OBVIOUS
<1>1. Live = {} /\ IsFiniteSet({})
  BY FS_EmptySet DEF Init, Live, NoPayment
<1>2. \A f : SumFunctionOnSet(f, {}) = 0
  BY <1>1, Totals
<1>3. PaidIsAllocated /\ AdvanceIsExcess
  BY <1>1, <1>2 DEF Init, NoRow, PaidIsAllocated, AdvanceIsExcess
<1>4. NothingYet
  BY DEF Init, NoRow, NoPayment, NothingYet
<1>5. QED
  BY <1>3, <1>4 DEF Books

\* The books are right in every state of the ledger.
LEMMA BooksInvariance == Spec => [](IInv /\ Books)
<1>1. Init => Books
  BY InitBooks
<1>2. IInv /\ Books /\ [Next]_vars => Books'
  <2>1. IInv /\ Books /\ Next => Books'
    BY StepKeepsBooks
  <2>2. ASSUME Books, UNCHANGED vars PROVE Books'
    BY <2>2, BooksKept DEF vars
  <2>3. QED
    BY <2>1, <2>2
<1>3. QED
  BY <1>1, <1>2, Invariance, PTL DEF Spec

\* An invoice's paid amount is at all times the sum of what the payments in force
\* allocate to it, over any series of payments and voids: voidFeePayment restores
\* exactly what collectFeePayment took, and its Math.max(0, ...) never hides money.
THEOREM PaidIsWhatWasAllocated == Spec => []PaidIsAllocated
<1>1. Books => PaidIsAllocated
  BY DEF Books
<1>2. QED
  BY <1>1, BooksInvariance, PTL

\* The advance balance is at all times the sum of what the payments in force left
\* over, whatever was collected and voided in between.
THEOREM AdvanceIsWhatWasLeft == Spec => []AdvanceIsExcess
<1>1. Books => AdvanceIsExcess
  BY DEF Books
<1>2. QED
  BY <1>1, BooksInvariance, PTL

\* A payment that reaches an invoice has settled every older one it was meant for,
\* and one that leaves an advance has settled all of them.
LEMMA CollectOldestFirst ==
    ASSUME IInv, NEW r \in Receipts, NEW targets \in SUBSET OpenInvoices,
           NEW amount \in Amounts, Collect(r, amount, targets),
           NEW i \in targets, NEW j \in Invoices,
           payment'[r].alloc[j] > 0, i < j \/ advance' > advance
    PROVE  invoice'[i].balance = 0
<1>1. /\ amount \in Nat /\ targets \in SUBSET Invoices
      /\ invoice \in [Invoices -> Row] /\ advance \in Nat /\ i \in Invoices
  BY AmountsAssumption DEF OpenInvoices, IInv, TypeOK
<1>2. PICK left \in Spending(invoice, targets, amount) :
        /\ payment' = [payment EXCEPT
                        ![r] = [status |-> "COMPLETED", amount |-> amount,
                                alloc |-> Share(left)]]
        /\ invoice' = Settle(invoice, invoice, Share(left))
        /\ advance' = advance + left[InvoiceCount]
  BY DEF Collect
<1>3. payment'[r].alloc = Share(left)
  BY <1>2 DEF IInv, TypeOK
<1>4. Share(left) \in [Invoices -> Nat]
  BY <1>1, <1>3, SpendingShares
<1>5. /\ i \in 0 .. InvoiceCount /\ j - 1 \in 0 .. InvoiceCount
      /\ i - 1 \in 0 .. InvoiceCount /\ j \in 0 .. InvoiceCount
      /\ InvoiceCount \in 0 .. InvoiceCount /\ i <= InvoiceCount
      /\ i < j => i <= j - 1
  BY <1>1, CountAssumption DEF Invoices
<1>6. left \in [0 .. InvoiceCount -> 0 .. amount]
      /\ left[i] = Minus(left[i - 1], invoice[i].balance)
  BY <1>1 DEF Spending
<1>7. left[i] \in Nat /\ left[i - 1] \in Nat /\ left[j] \in Nat /\ left[j - 1] \in Nat
      /\ left[InvoiceCount] \in Nat
  BY <1>5, <1>6
<1>8. left[i] > 0
  <2>1. CASE i < j
    <3>1. left[j - 1] <= left[i]
      BY <1>1, <1>5, <2>1, SpendingFalls
    <3>2. left[j - 1] - left[j] > 0
      BY <1>3 DEF Share
    <3>3. QED
      BY <1>7, <3>1, <3>2
  <2>2. CASE advance' > advance
    <3>1. left[InvoiceCount] <= left[i]
      BY <1>1, <1>5, SpendingFalls
    <3>2. left[InvoiceCount] > 0
      BY <1>1, <1>2, <1>7, <2>2
    <3>3. QED
      BY <1>7, <3>1, <3>2
  <2>3. QED
    BY <2>1, <2>2
<1>9. invoice[i] \in Row /\ invoice[i].balance \in Nat /\ invoice[i].paid \in Nat
      /\ invoice[i].total \in Nat
  BY <1>1 DEF Row
<1>10. Share(left)[i] = invoice[i].balance
  <2>1. Share(left)[i] = left[i - 1] - left[i]
    BY <1>1 DEF Share
  <2>2. left[i] = left[i - 1] - invoice[i].balance
    BY <1>6, <1>7, <1>8, <1>9 DEF Minus
  <2>3. QED
    BY <1>7, <1>9, <2>1, <2>2
<1>11. CASE invoice[i].balance = 0
  BY <1>1, <1>2, <1>10, <1>11 DEF Settle
<1>12. CASE invoice[i].balance # 0
  <2>1. invoice[i].balance = Minus(invoice[i].total, invoice[i].paid)
    BY DEF IInv, Coherent, RowCoherent, OpenInvoices
  <2>2. invoice'[i] = Settled(invoice[i], invoice[i], invoice[i].paid + invoice[i].balance)
    BY <1>1, <1>2, <1>10, <1>12 DEF Settle
  <2>3. invoice'[i].balance = Minus(invoice[i].total, invoice[i].paid + invoice[i].balance)
    BY <1>9, <2>2 DEF Settled, Row
  <2>4. QED
    BY <1>9, <2>1, <2>3 DEF Minus
<1>13. QED
  BY <1>11, <1>12

\* A payment is spent oldest invoice first, for any number of invoices: of those it
\* was meant for, none is passed over or left partly paid when it reaches a newer
\* one, and none is owed anything when some of it becomes advance.
THEOREM CollectsOldestFirst == Spec => OldestFirst
<1>1. ASSUME IInv, NEW r \in Receipts, NEW requested \in SUBSET Invoices,
             NEW amount \in Amounts, NEW targets \in Targets(requested),
             Collect(r, amount, targets), NEW i \in Invoices, NEW j \in Invoices,
             Meant(i, requested), payment'[r].alloc[j] > 0, i < j \/ advance' > advance
      PROVE  invoice'[i].balance = 0
  <2>1. targets \in SUBSET OpenInvoices
    BY DEF Targets
  <2>2. PICK left \in Spending(invoice, targets, amount) :
          payment' = [payment EXCEPT
                        ![r] = [status |-> "COMPLETED", amount |-> amount,
                                alloc |-> Share(left)]]
    BY <1>1 DEF Collect
  <2>3. Share(left)[j] > 0
    BY <1>1, <2>2 DEF IInv, TypeOK
  <2>4. amount \in Nat /\ targets \in SUBSET Invoices /\ invoice \in [Invoices -> Row]
    BY <1>1, <2>1, AmountsAssumption DEF OpenInvoices, IInv, TypeOK
  <2>5. j \in targets
    BY <2>3, <2>4, SpendingShares
  <2>6. i \in targets
    BY <1>1, <2>5 DEF Targets, Meant
  <2>7. QED
    BY <1>1, <2>1, <2>6, CollectOldestFirst
<1>2. IInv /\ [Next]_vars =>
        [\A r \in Receipts, requested \in SUBSET Invoices, amount \in Amounts :
            (\E targets \in Targets(requested) : Collect(r, amount, targets)) =>
                \A i, j \in Invoices :
                    /\ Meant(i, requested)
                    /\ payment'[r].alloc[j] > 0
                    /\ i < j \/ advance' > advance
                    => invoice'[i].balance = 0]_vars
  BY <1>1
<1>3. QED
  BY <1>2, Invariance, PTL DEF Spec, OldestFirst

=============================================================================
