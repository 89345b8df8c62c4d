--------------------------- MODULE PlazosTeoremas ---------------------------
(***************************************************************************)
(* What the two functions of the calendar return for every date, and from  *)
(* it that the deadlines of Plazos are right whatever the number of days,  *)
(* the dates and the bounds.                                               *)
(*                                                                         *)
(* Both functions are the working days of an interval.  A recursive        *)
(* function is a CHOOSE of a function that satisfies its equation, so each *)
(* of them takes three steps: a closed form satisfies the equation, hence  *)
(* the chosen function does; two functions that satisfy it agree wherever  *)
(* the loop ends, or there would be a first point where they do not; so    *)
(* the result is the closed form.                                          *)
(***************************************************************************)
EXTENDS Plazos, FiniteSets, FiniteSetTheorems, WellFoundedInduction, TLAPS

\* A set of naturals that is not empty has a least element.
LEMMA MinimoNat ==
    ASSUME NEW S, S \subseteq Nat, S # {}
    PROVE  \E n \in S : \A k \in S : n <= k
<1>1. PICK n \in S : \A k \in S : <<k, n>> \notin OpToRel(<, Nat)
  BY WFMin, NatLessThanWellFounded
<1>2. ASSUME NEW k \in S PROVE n <= k
  <2>1. <<k, n>> \notin OpToRel(<, Nat)
    BY <1>1
  <2>2. ~(k < n)
    BY <2>1 DEF OpToRel
  <2>3. QED
    BY <2>2
<1>3. QED
  BY <1>2

----------------------------------------------------------------------------
(* The working days of an interval *)

Habiles(a, b) == {d \in a..b : EsDiaHabil(d)}

\* How many there are, and what one day adds.
Cuantos(a, b) == Cardinality(Habiles(a, b))
Uno(d) == IF EsDiaHabil(d) THEN 1 ELSE 0

\* There are finitely many, at most one for each day.
LEMMA HabilesFinito ==
    ASSUME NEW a \in Int, NEW b \in Int
    PROVE  /\ IsFiniteSet(Habiles(a, b)) /\ Cuantos(a, b) \in Nat
           /\ a <= b + 1 => Cuantos(a, b) <= b - a + 1
<1>1. Habiles(a, b) \subseteq a..b
  BY DEF Habiles
<1>2. IsFiniteSet(a..b) /\ Cardinality(a..b) = IF a > b THEN 0 ELSE b - a + 1
  BY FS_Interval
<1>3. /\ IsFiniteSet(Habiles(a, b)) /\ Cardinality(Habiles(a, b)) <= Cardinality(a..b)
  BY <1>1, <1>2, FS_Subset
<1>4. QED
  BY <1>2, <1>3, FS_CardinalityType DEF Cuantos

\* An interval that ends before it starts has none.
LEMMA CuantosVacio ==
    ASSUME NEW a \in Int, NEW b \in Int, b < a
    PROVE  Cuantos(a, b) = 0
<1>1. Habiles(a, b) = {}
  BY DEF Habiles
<1>2. QED
  BY <1>1, FS_EmptySet DEF Cuantos

\* The last day of an interval adds itself when it is a working day.
LEMMA CuantosUltimo ==
    ASSUME NEW a \in Int, NEW b \in Int, a <= b
    PROVE  Cuantos(a, b) = Cuantos(a, b - 1) + Uno(b)
<1>1. IsFiniteSet(Habiles(a, b - 1)) /\ b \notin Habiles(a, b - 1)
  <2>1. b - 1 \in Int /\ b \notin a..(b - 1)
    OBVIOUS
  <2>2. IsFiniteSet(Habiles(a, b - 1))
    BY <2>1, HabilesFinito
  <2>3. QED
    BY <2>1, <2>2 DEF Habiles
<1>2. CASE EsDiaHabil(b)
  <2>1. Habiles(a, b) = Habiles(a, b - 1) \cup {b}
    BY <1>2 DEF Habiles
  <2>2. QED
    BY <1>1, <1>2, <2>1, FS_AddElement DEF Cuantos, Uno
<1>3. CASE ~EsDiaHabil(b)
  <2>1. Habiles(a, b) = Habiles(a, b - 1)
    BY <1>3 DEF Habiles
  <2>2. QED
    BY <1>3, <2>1, HabilesFinito DEF Cuantos, Uno
<1>4. QED
  BY <1>2, <1>3

\* So does the first one.
LEMMA CuantosPrimero ==
    ASSUME NEW a \in Int, NEW b \in Int, a <= b
    PROVE  Cuantos(a, b) = Cuantos(a + 1, b) + Uno(a)
<1>1. IsFiniteSet(Habiles(a + 1, b)) /\ a \notin Habiles(a + 1, b)
  <2>1. a + 1 \in Int /\ a \notin (a + 1)..b
    OBVIOUS
  <2>2. IsFiniteSet(Habiles(a + 1, b))
    BY <2>1, HabilesFinito
  <2>3. QED
    BY <2>1, <2>2 DEF Habiles
<1>2. CASE EsDiaHabil(a)
  <2>1. Habiles(a, b) = Habiles(a + 1, b) \cup {a}
    BY <1>2 DEF Habiles
  <2>2. QED
    BY <1>1, <1>2, <2>1, FS_AddElement DEF Cuantos, Uno
<1>3. CASE ~EsDiaHabil(a)
  <2>1. Habiles(a, b) = Habiles(a + 1, b)
    BY <1>3 DEF Habiles
  <2>2. QED
    BY <1>3, <2>1, HabilesFinito DEF Cuantos, Uno
<1>4. QED
  BY <1>2, <1>3

\* A longer interval has no fewer of them.
LEMMA CuantosMonotono ==
    ASSUME NEW a \in Int, NEW b \in Int, NEW c \in Int, b <= c
    PROVE  Cuantos(a, b) <= Cuantos(a, c)
<1>1. Habiles(a, b) \subseteq Habiles(a, c)
  BY DEF Habiles
<1>2. QED
  BY <1>1, HabilesFinito, FS_Subset DEF Cuantos

\* A working day of an interval is counted.
LEMMA CuantosPositivo ==
    ASSUME NEW a \in Int, NEW b \in Int, NEW d \in a..b, EsDiaHabil(d)
    PROVE  Cuantos(a, b) >= 1
<1> d \in Int /\ d - 1 \in Int /\ a <= d /\ d <= b
  OBVIOUS
<1>1. Cuantos(a, d) = Cuantos(a, d - 1) + 1
  BY CuantosUltimo DEF Uno
<1>2. Cuantos(a, d - 1) \in Nat /\ Cuantos(a, b) \in Nat
  BY HabilesFinito
<1>2a. Cuantos(a, d) <= Cuantos(a, b)
  BY CuantosMonotono
<1>3. QED
  BY <1>1, <1>2, <1>2a

----------------------------------------------------------------------------
(* There is always a working day ahead *)

\* The holidays of the migration end in 2026.
LEMMA FestivosAcotados == mov_festivos_colombia \subseteq 0..1100
<1>1. \A m \in 1..12 : Acumulado[m] \in 0..334
  BY DEF Acumulado
<1>2. ASSUME NEW a, NEW m, NEW d, a \in {2024, 2025, 2026} /\ m \in 1..12 /\ d \in 1..31
      PROVE  Dia(a, m, d) \in 0..1100
  <2> DEFINE x == Acumulado[m]
             y == IF a > 2024 \/ m > 2 THEN 1 ELSE 0
             z == (a - 2024) * 365
  <2>1. x \in 0..334 /\ y \in 0..1
    BY <1>1, <1>2
  <2>2. z \in 0..730
    BY <1>2
  <2>3. Dia(a, m, d) = z + x + d - 1 + y
    BY DEF Dia
  <2> HIDE DEF x, y, z
  <2>4. QED
    BY <1>2, <2>1, <2>2, <2>3
<1>3. \A f \in Festivos2024 : f[1] \in 1..12 /\ f[2] \in 1..31
  BY DEF Festivos2024
<1>4. \A f \in Festivos2025 : f[1] \in 1..12 /\ f[2] \in 1..31
  BY DEF Festivos2025
<1>5. \A f \in Festivos2026 : f[1] \in 1..12 /\ f[2] \in 1..31
  BY DEF Festivos2026
<1>6. ASSUME NEW f \in Festivos2024 PROVE Dia(2024, f[1], f[2]) \in 0..1100
  BY <1>2, <1>3, SMT
<1>7. ASSUME NEW f \in Festivos2025 PROVE Dia(2025, f[1], f[2]) \in 0..1100
  BY <1>2, <1>4, SMT
<1>8. ASSUME NEW f \in Festivos2026 PROVE Dia(2026, f[1], f[2]) \in 0..1100
  BY <1>2, <1>5, SMT
<1>9. ASSUME NEW d \in mov_festivos_colombia PROVE d \in 0..1100
  <2>1. \/ \E f \in Festivos2024 : d = Dia(2024, f[1], f[2])
        \/ \E f \in Festivos2025 : d = Dia(2025, f[1], f[2])
        \/ \E f \in Festivos2026 : d = Dia(2026, f[1], f[2])
    BY DEF mov_festivos_colombia
  <2>2. CASE \E f \in Festivos2024 : d = Dia(2024, f[1], f[2])
    BY <1>6, <2>2
  <2>3. CASE \E f \in Festivos2025 : d = Dia(2025, f[1], f[2])
    BY <1>7, <2>3
  <2>4. CASE \E f \in Festivos2026 : d = Dia(2026, f[1], f[2])
    BY <1>8, <2>4
  <2>5. QED
    BY <2>1, <2>2, <2>3, <2>4
<1>10. QED
  BY <1>9

\* After every date comes a working day.
LEMMA HayHabil ==
    ASSUME NEW d \in Nat
    PROVE  \E e \in Nat : e > d /\ EsDiaHabil(e)
<1> DEFINE e == 7 * (d + 200)
<1>1. e \in Nat /\ e > d /\ e > 1100 /\ e % 7 = 0
  OBVIOUS
<1>2. EsDiaHabil(e)
  BY <1>1, FestivosAcotados DEF EsDiaHabil
<1>3. QED
  BY <1>1, <1>2

----------------------------------------------------------------------------
(* contar_dias_habiles *)

\* f satisfies the equation of the loop that walks to fin by steps of s.
Contador(f, fin, s) ==
    f = [d \in Int |-> IF d = fin THEN 0 ELSE f[d + s] + (IF EsDiaHabil(d + s) THEN s ELSE 0)]

\* The closed forms of the two directions, also on the side from where the loop
\* never ends, so that they satisfy the equation everywhere.
HaciaDelante(fin) ==
    [d \in Int |-> IF d <= fin THEN Cuantos(d + 1, fin) ELSE -Cuantos(fin + 1, d)]
HaciaAtras(fin) ==
    [d \in Int |-> IF d <= fin THEN Cuantos(d, fin - 1) ELSE -Cuantos(fin, d - 1)]

\* The closed form of the way forward satisfies the equation.
LEMMA ContadorDelante ==
    ASSUME NEW fin \in Int
    PROVE  Contador(HaciaDelante(fin), fin, 1)
<1> DEFINE g == HaciaDelante(fin)
           R(d) == IF d = fin THEN 0 ELSE g[d + 1] + (IF EsDiaHabil(d + 1) THEN 1 ELSE 0)
<1>1. ASSUME NEW d \in Int PROVE g[d] = R(d)
  <2>1. CASE d = fin
    BY <2>1, CuantosVacio DEF HaciaDelante
  <2>2. CASE d < fin
    <3>1. g[d] = Cuantos(d + 1, fin) /\ g[d + 1] = Cuantos((d + 1) + 1, fin)
      BY <2>2 DEF HaciaDelante
    <3>2. Cuantos(d + 1, fin) = Cuantos((d + 1) + 1, fin) + Uno(d + 1)
      BY <2>2, CuantosPrimero
    <3>3. QED
      BY <2>2, <3>1, <3>2 DEF Uno
  <2>3. CASE d > fin
    <3>1. g[d] = -Cuantos(fin + 1, d) /\ g[d + 1] = -Cuantos(fin + 1, d + 1)
      BY <2>3 DEF HaciaDelante
    <3>2. Cuantos(fin + 1, d + 1) = Cuantos(fin + 1, (d + 1) - 1) + Uno(d + 1)
      BY <2>3, CuantosUltimo
    <3>3. Cuantos(fin + 1, d) \in Nat /\ (d + 1) - 1 = d
      BY HabilesFinito
    <3>4. QED
      BY <2>3, <3>1, <3>2, <3>3 DEF Uno
  <2>4. QED
    BY <2>1, <2>2, <2>3
<1>2. g = [d \in Int |-> g[d]]
  BY DEF HaciaDelante
<1> HIDE DEF g
<1>3. g = [d \in Int |-> R(d)]
  BY <1>1, <1>2
<1>4. QED
  BY <1>3 DEF g, Contador

\* So does that of the way back.
LEMMA ContadorAtras ==
    ASSUME NEW fin \in Int
    PROVE  Contador(HaciaAtras(fin), fin, -1)
<1> DEFINE g == HaciaAtras(fin)
           R(d) == IF d = fin THEN 0 ELSE g[d + -1] + (IF EsDiaHabil(d + -1) THEN -1 ELSE 0)
<1>1. ASSUME NEW d \in Int PROVE g[d] = R(d)
  <2>0. d + -1 = d - 1
    OBVIOUS
  <2>1. CASE d = fin
    BY <2>1, CuantosVacio DEF HaciaAtras
  <2>2. CASE d < fin
    <3>1. g[d] = Cuantos(d, fin - 1) /\ g[d - 1] = Cuantos(d - 1, fin - 1)
      BY <2>2 DEF HaciaAtras
    <3>2. Cuantos(d - 1, fin - 1) = Cuantos((d - 1) + 1, fin - 1) + Uno(d - 1)
      BY <2>2, CuantosPrimero
    <3>3. Cuantos(d, fin - 1) \in Nat /\ (d - 1) + 1 = d
      BY HabilesFinito
    <3>4. QED
      BY <2>0, <2>2, <3>1, <3>2, <3>3 DEF Uno
  <2>3. CASE d > fin
    <3>1. g[d] = -Cuantos(fin, d - 1)
      BY <2>3 DEF HaciaAtras
    <3>2. g[d - 1] = -Cuantos(fin, (d - 1) - 1)
      <4>1. CASE d - 1 = fin
        <5>1. Cuantos(fin, fin - 1) = 0
          BY CuantosVacio
        <5>2. g[d - 1] = Cuantos(fin, fin - 1)
          BY <4>1 DEF HaciaAtras
        <5>3. QED
          BY <4>1, <5>1, <5>2
      <4>2. CASE d - 1 > fin
        BY <4>2 DEF HaciaAtras
      <4>3. QED
        BY <2>3, <4>1, <4>2
    <3>3. Cuantos(fin, d - 1) = Cuantos(fin, (d - 1) - 1) + Uno(d - 1)
      BY <2>3, CuantosUltimo
    <3>4. Cuantos(fin, (d - 1) - 1) \in Nat
      BY HabilesFinito
    <3>5. QED
      BY <2>0, <2>3, <3>1, <3>2, <3>3, <3>4 DEF Uno
  <2>4. QED
    BY <2>1, <2>2, <2>3
<1>2. g = [d \in Int |-> g[d]]
  BY DEF HaciaAtras
<1> HIDE DEF g
<1>3. g = [d \in Int |-> R(d)]
  BY <1>1, <1>2
<1>4. QED
  BY <1>3 DEF g, Contador

\* Functions that satisfy the equation agree wherever the loop reaches its end:
\* at the point nearest to the end where they did not, the next one would not either.
LEMMA ContadorUnico ==
    ASSUME NEW fin \in Int, NEW s \in {1, -1}, NEW f, NEW g,
           Contador(f, fin, s), Contador(g, fin, s), NEW k \in Nat, NEW e, e = fin - s * k
    PROVE  f[e] = g[e]
<1> DEFINE Malos == {i \in Nat : f[fin - s * i] # g[fin - s * i]}
<1>1. SUFFICES ASSUME Malos # {} PROVE FALSE
  OBVIOUS
<1>2. PICK i \in Malos : \A j \in Malos : i <= j
  <2>1. Malos \subseteq Nat
    OBVIOUS
  <2> HIDE DEF Malos
  <2>2. QED
    BY <1>1, <2>1, MinimoNat
<1> DEFINE d == fin - s * i
<1>3. i \in Nat /\ d \in Int /\ f[d] # g[d]
  BY <1>2
<1>4. /\ f[d] = IF d = fin THEN 0 ELSE f[d + s] + (IF EsDiaHabil(d + s) THEN s ELSE 0)
      /\ g[d] = IF d = fin THEN 0 ELSE g[d + s] + (IF EsDiaHabil(d + s) THEN s ELSE 0)
  <2> HIDE DEF d
  <2> QED
    BY <1>3 DEF Contador
<1>5. d # fin /\ f[d + s] # g[d + s]
  <2> HIDE DEF d
  <2> QED
    BY <1>3, <1>4
<1>6. i # 0 /\ d + s = fin - s * (i - 1)
  <2>1. CASE s = 1
    BY <1>3, <1>5, <2>1
  <2>2. CASE s = -1
    BY <1>3, <1>5, <2>2
  <2>3. QED
    BY <2>1, <2>2
<1>7. i - 1 \in Malos
  BY <1>3, <1>5, <1>6
<1>8. QED
  BY <1>2, <1>3, <1>7

\* contar_dias_habiles counts the days after the first one up to the last one or,
\* below zero, those before the first one down to the last one.
LEMMA ValorContar ==
    ASSUME NEW inicio \in Int, NEW fin \in Int
    PROVE  ContarDiasHabiles(inicio, fin) =
             IF inicio <= fin THEN Cuantos(inicio + 1, fin) ELSE -Cuantos(fin, inicio - 1)
<1> DEFINE s == IF fin >= inicio THEN 1 ELSE -1
           F == CHOOSE f : Contador(f, fin, s)
<1>1. ContarDiasHabiles(inicio, fin) = F[inicio]
  BY DEF ContarDiasHabiles, Contador
<1>2. CASE inicio <= fin
  <2> DEFINE k == fin - inicio
  <2>1. s \in {1, -1} /\ s = 1 /\ k \in Nat /\ inicio = fin - s * k
    BY <1>2
  <2> HIDE DEF s, k
  <2>2. Contador(HaciaDelante(fin), fin, s)
    BY <2>1, ContadorDelante
  <2>3. Contador(F, fin, s)
    BY <2>2
  <2> HIDE DEF F
  <2>4. F[inicio] = HaciaDelante(fin)[inicio]
    BY <2>1, <2>2, <2>3, ContadorUnico
  <2>5. QED
    BY <1>1, <1>2, <2>1, <2>4 DEF HaciaDelante
<1>3. CASE inicio > fin
  <2> DEFINE k == inicio - fin
  <2>1. s \in {1, -1} /\ s = -1 /\ k \in Nat /\ inicio = fin - s * k
    BY <1>3
  <2> HIDE DEF s, k
  <2>2. Contador(HaciaAtras(fin), fin, s)
    BY <2>1, ContadorAtras
  <2>3. Contador(F, fin, s)
    BY <2>2
  <2> HIDE DEF F
  <2>4. F[inicio] = HaciaAtras(fin)[inicio]
    BY <2>1, <2>2, <2>3, ContadorUnico
  <2>5. QED
    BY <1>1, <1>3, <2>1, <2>4 DEF HaciaAtras
<1>4. QED
  BY <1>2, <1>3

\* Counted a day later, what is left is one less when the day that comes is a
\* working day or, past the end, when the day that went was one.
LEMMA PasoContar ==
    ASSUME NEW d \in Int, NEW fin \in Int
    PROVE  ContarDiasHabiles(d + 1, fin)
             = ContarDiasHabiles(d, fin) - Uno(IF d + 1 <= fin THEN d + 1 ELSE d)
<1>1. CASE d + 1 <= fin
  <2>1. ContarDiasHabiles(d, fin) = Cuantos(d + 1, fin)
    BY <1>1, ValorContar
  <2>2. ContarDiasHabiles(d + 1, fin) = Cuantos((d + 1) + 1, fin)
    BY <1>1, ValorContar
  <2>3. Cuantos(d + 1, fin) = Cuantos((d + 1) + 1, fin) + Uno(d + 1)
    BY <1>1, CuantosPrimero
  <2>4. Cuantos((d + 1) + 1, fin) \in Nat
    BY HabilesFinito
  <2>5. QED
    BY <1>1, <2>1, <2>2, <2>3, <2>4 DEF Uno
<1>2. CASE d + 1 > fin
  <2>1. ContarDiasHabiles(d + 1, fin) = -Cuantos(fin, d)
    BY <1>2, ValorContar
  <2>2. ContarDiasHabiles(d, fin) = -Cuantos(fin, d - 1)
    <3>1. CASE d = fin
      <4>1. ContarDiasHabiles(d, fin) = Cuantos(d + 1, fin)
        BY <3>1, ValorContar
      <4>2. Cuantos(d + 1, fin) = 0 /\ Cuantos(fin, d - 1) = 0
        BY <3>1, CuantosVacio
      <4>3. QED
        BY <4>1, <4>2
    <3>2. CASE d > fin
      BY <3>2, ValorContar
    <3>3. QED
      BY <1>2, <3>1, <3>2
  <2>3. Cuantos(fin, d) = Cuantos(fin, d - 1) + Uno(d)
    BY <1>2, CuantosUltimo
  <2>4. Cuantos(fin, d - 1) \in Nat
    BY HabilesFinito
  <2>5. QED
    BY <1>2, <2>1, <2>2, <2>3, <2>4 DEF Uno
<1>3. QED
  BY <1>1, <1>2

\* When the end is a working day the count is above zero before it, zero on it and
\* below zero after it, and never more than the calendar days.
LEMMA SignoContar ==
    ASSUME NEW d \in Int, NEW fin \in Int, EsDiaHabil(fin)
    PROVE  LET c == ContarDiasHabiles(d, fin)
           IN  /\ c \in Int
               /\ d < fin => c > 0 /\ c <= fin - d
               /\ d = fin => c = 0
               /\ d > fin => c < 0
<1>1. CASE d < fin
  <2>1. ContarDiasHabiles(d, fin) = Cuantos(d + 1, fin)
    BY <1>1, ValorContar
  <2>2. Cuantos(d + 1, fin) >= 1
    BY <1>1, CuantosPositivo
  <2>3. d + 1 \in Int /\ d + 1 <= fin + 1
    BY <1>1
  <2>4. Cuantos(d + 1, fin) \in Nat /\ Cuantos(d + 1, fin) <= fin - (d + 1) + 1
    BY <2>3, HabilesFinito
  <2>5. QED
    BY <1>1, <2>1, <2>2, <2>4
<1>2. CASE d = fin
  <2>1. ContarDiasHabiles(d, fin) = Cuantos(d + 1, fin)
    BY <1>2, ValorContar
  <2>2. Cuantos(d + 1, fin) = 0
    BY <1>2, CuantosVacio
  <2>3. QED
    BY <1>2, <2>1, <2>2
<1>3. CASE d > fin
  <2>1. ContarDiasHabiles(d, fin) = -Cuantos(fin, d - 1)
    BY <1>3, ValorContar
  <2>2. Cuantos(fin, d - 1) >= 1
    BY <1>3, CuantosPositivo
  <2>3. d - 1 \in Int
    OBVIOUS
  <2>4. Cuantos(fin, d - 1) \in Nat
    BY <2>3, HabilesFinito
  <2>5. QED
    BY <1>3, <2>1, <2>2, <2>4
<1>4. QED
  BY <1>1, <1>2, <1>3

----------------------------------------------------------------------------
(* sumar_dias_habiles *)

\* f satisfies the equation of the loop, from a date and the days still to count.
Sumador(f) ==
    f = [e \in Nat \X Nat |->
           IF e[2] = 0 THEN e[1]
           ELSE f[<<e[1] + 1, IF EsDiaHabil(e[1] + 1) THEN e[2] - 1 ELSE e[2]>>]]

\* The dates by which n working days have gone by after d, and the first of them.
Pasados(d, n) == {v \in Nat : v >= d /\ Cuantos(d + 1, v) >= n}
Primero(d, n) == CHOOSE v \in Pasados(d, n) : \A k \in Pasados(d, n) : v <= k

\* However many working days are asked for, they go by.
LEMMA HayPasados ==
    ASSUME NEW d \in Nat, NEW n \in Nat
    PROVE  Pasados(d, n) # {}
<1> DEFINE Malos == {i \in Nat : Pasados(d, i) = {}}
<1>1. SUFFICES ASSUME Malos # {} PROVE FALSE
  OBVIOUS
<1>2. PICK i \in Malos : \A j \in Malos : i <= j
  <2>1. Malos \subseteq Nat
    OBVIOUS
  <2> HIDE DEF Malos
  <2>2. QED
    BY <1>1, <2>1, MinimoNat
<1>3. i \in Nat /\ Pasados(d, i) = {}
  BY <1>2
<1>4. i # 0
  <2>1. d + 1 \in Int /\ d \in Int
    OBVIOUS
  <2>2. Cuantos(d + 1, d) >= 0
    BY <2>1, CuantosVacio
  <2>3. d \in Pasados(d, 0)
    BY <2>2 DEF Pasados
  <2>4. QED
    BY <1>3, <2>3
<1>5. PICK v \in Pasados(d, i - 1) : TRUE
  <2>1. i - 1 \in Nat /\ i - 1 \notin Malos
    BY <1>2, <1>3, <1>4
  <2>2. QED
    BY <2>1
<1>6. v \in Nat /\ v >= d /\ Cuantos(d + 1, v) >= i - 1
  BY <1>5 DEF Pasados
<1>7. PICK w \in Nat : w > v /\ EsDiaHabil(w)
  BY <1>6, HayHabil
<1>8. Cuantos(d + 1, w) = Cuantos(d + 1, w - 1) + 1
  BY <1>6, <1>7, CuantosUltimo DEF Uno
<1>9. Cuantos(d + 1, v) <= Cuantos(d + 1, w - 1)
  BY <1>6, <1>7, CuantosMonotono
<1>10. Cuantos(d + 1, v) \in Nat /\ Cuantos(d + 1, w - 1) \in Nat
  <2>1. d + 1 \in Int /\ v \in Int /\ w - 1 \in Int
    BY <1>6, <1>7
  <2>2. QED
    BY <2>1, HabilesFinito
<1>11. w \in Pasados(d, i)
  <2>1. w >= d /\ Cuantos(d + 1, w) >= i
    BY <1>3, <1>6, <1>7, <1>8, <1>9, <1>10
  <2>2. QED
    BY <1>7, <2>1 DEF Pasados
<1>12. QED
  BY <1>3, <1>11

\* Primero is the first of them.
LEMMA EsPrimero ==
    ASSUME NEW d \in Nat, NEW n \in Nat
    PROVE  Primero(d, n) \in Pasados(d, n) /\ \A k \in Pasados(d, n) : Primero(d, n) <= k
<1>1. Pasados(d, n) # {} /\ Pasados(d, n) \subseteq Nat
  BY HayPasados DEF Pasados
<1>2. \E v \in Pasados(d, n) : \A k \in Pasados(d, n) : v <= k
  BY <1>1, MinimoNat
<1>3. QED
  BY <1>2 DEF Primero

\* For no days it is the date itself.
LEMMA PrimeroCero ==
    ASSUME NEW d \in Nat
    PROVE  Primero(d, 0) = d
<1>1. d + 1 \in Int /\ d \in Int
  OBVIOUS
<1>2. Cuantos(d + 1, d) >= 0
  BY <1>1, CuantosVacio
<1>3. d \in Pasados(d, 0)
  BY <1>2 DEF Pasados
<1>4. Primero(d, 0) \in Nat /\ Primero(d, 0) >= d /\ Primero(d, 0) <= d
  BY <1>3, EsPrimero DEF Pasados
<1>5. QED
  BY <1>4

\* For some, it comes after the date, is a working day, and exactly that many have
\* gone by: a day earlier they had not.
LEMMA PrimeroExacto ==
    ASSUME NEW d \in Nat, NEW n \in Nat, n > 0
    PROVE  LET v == Primero(d, n)
           IN  v \in Nat /\ v > d /\ EsDiaHabil(v) /\ Cuantos(d + 1, v) = n
<1> DEFINE v == Primero(d, n)
<1>1. v \in Pasados(d, n) /\ \A k \in Pasados(d, n) : v <= k
  BY EsPrimero
<1> HIDE DEF v
<1>2. v \in Nat /\ v >= d /\ Cuantos(d + 1, v) >= n
  BY <1>1 DEF Pasados
<1>3. v # d
  <2>1. d + 1 \in Int /\ d \in Int /\ d < d + 1
    OBVIOUS
  <2>2. Cuantos(d + 1, d) = 0
    BY <2>1, CuantosVacio
  <2>3. QED
    BY <1>2, <2>2
<1>4. d + 1 \in Int /\ v - 1 \in Nat /\ v - 1 \in Int /\ v - 1 >= d /\ d + 1 <= v
  BY <1>2, <1>3
<1>5. Cuantos(d + 1, v) = Cuantos(d + 1, v - 1) + Uno(v)
  BY <1>2, <1>4, CuantosUltimo
<1>6. Cuantos(d + 1, v - 1) \in Nat
  BY <1>4, HabilesFinito
<1>7. ~(Cuantos(d + 1, v - 1) >= n)
  <2>1. v - 1 \notin Pasados(d, n)
    BY <1>1, <1>2
  <2>2. QED
    BY <1>4, <2>1 DEF Pasados
<1>8. EsDiaHabil(v) /\ Cuantos(d + 1, v) = n
  BY <1>2, <1>5, <1>6, <1>7 DEF Uno
<1>9. v > d
  BY <1>2, <1>3
<1>10. QED
  BY <1>2, <1>8, <1>9 DEF v

\* A day later the first one is the same, for the days that are left.
LEMMA PrimeroSiguiente ==
    ASSUME NEW d \in Nat, NEW n \in Nat, n > 0
    PROVE  Primero(d, n) = Primero(d + 1, IF EsDiaHabil(d + 1) THEN n - 1 ELSE n)
<1> DEFINE m == IF EsDiaHabil(d + 1) THEN n - 1 ELSE n
<1>1. m \in Nat /\ m = n - Uno(d + 1) /\ Uno(d + 1) \in {0, 1}
  BY DEF Uno
<1> HIDE DEF m
<1>2. ASSUME NEW v \in Nat
      PROVE  v \in Pasados(d, n) <=> v \in Pasados(d + 1, m)
  <2>1. CASE v <= d
    <3>1. d + 1 \in Int /\ v \in Int /\ v < d + 1
      BY <2>1
    <3>2. Cuantos(d + 1, v) = 0
      BY <3>1, CuantosVacio
    <3>3. v \notin Pasados(d, n) /\ v \notin Pasados(d + 1, m)
      BY <2>1, <3>2 DEF Pasados
    <3>4. QED
      BY <3>3
  <2>2. CASE v > d
    <3>1. d + 1 \in Int /\ d + 1 <= v /\ (d + 1) + 1 \in Int
      BY <2>2
    <3>2. Cuantos(d + 1, v) = Cuantos((d + 1) + 1, v) + Uno(d + 1)
      BY <3>1, CuantosPrimero
    <3>3. Cuantos((d + 1) + 1, v) \in Nat
      BY <3>1, HabilesFinito
    <3>4. Cuantos(d + 1, v) >= n <=> Cuantos((d + 1) + 1, v) >= m
      BY <1>1, <3>2, <3>3
    <3>5. QED
      BY <2>2, <3>1, <3>4 DEF Pasados
  <2>3. QED
    BY <2>1, <2>2
<1>3. Pasados(d, n) = Pasados(d + 1, m)
  BY <1>2 DEF Pasados
<1>4. QED
  BY <1>3 DEF Primero, m

\* So it satisfies the equation of the loop.
LEMMA SumadorPrimero == Sumador([e \in Nat \X Nat |-> Primero(e[1], e[2])])
<1> DEFINE g == [e \in Nat \X Nat |-> Primero(e[1], e[2])]
           R(e) == IF e[2] = 0 THEN e[1]
                   ELSE g[<<e[1] + 1, IF EsDiaHabil(e[1] + 1) THEN e[2] - 1 ELSE e[2]>>]
<1>1. ASSUME NEW e \in Nat \X Nat PROVE g[e] = R(e)
  <2> e[1] \in Nat /\ e[2] \in Nat
    OBVIOUS
  <2>1. CASE e[2] = 0
    BY <2>1, PrimeroCero
  <2>2. CASE e[2] # 0
    <3> DEFINE m == IF EsDiaHabil(e[1] + 1) THEN e[2] - 1 ELSE e[2]
    <3>1. e[1] + 1 \in Nat /\ m \in Nat
      BY <2>2
    <3>2. Primero(e[1], e[2]) = Primero(e[1] + 1, m)
      BY <2>2, PrimeroSiguiente
    <3> HIDE DEF m
    <3>3. g[<<e[1] + 1, m>>] = Primero(e[1] + 1, m)
      BY <3>1
    <3>4. QED
      BY <2>2, <3>2, <3>3 DEF m
  <2>3. QED
    BY <2>1, <2>2
<1>2. g = [e \in Nat \X Nat |-> g[e]]
  OBVIOUS
<1> HIDE DEF g
<1>3. g = [e \in Nat \X Nat |-> R(e)]
  BY <1>1, <1>2
<1>4. QED
  BY <1>3 DEF g, Sumador

\* And it is the only one that does: where another differs as close to the end of
\* the loop as possible, it would differ in the next step too.
LEMMA SumadorUnico ==
    ASSUME NEW f, Sumador(f), NEW d \in Nat, NEW n \in Nat
    PROVE  f[<<d, n>>] = Primero(d, n)
<1> DEFINE Malos == {i \in Nat : \E a, m \in Nat : /\ f[<<a, m>>] # Primero(a, m)
                                                  /\ Primero(a, m) - a = i}
<1>1. SUFFICES ASSUME f[<<d, n>>] # Primero(d, n) PROVE FALSE
  OBVIOUS
<1>2. \A a, m \in Nat : Primero(a, m) - a \in Nat
  BY EsPrimero DEF Pasados
<1>3. Malos # {} /\ Malos \subseteq Nat
  BY <1>1, <1>2
<1>4. PICK i \in Malos : \A j \in Malos : i <= j
  <2> HIDE DEF Malos
  <2> QED
    BY <1>3, MinimoNat
<1>5. PICK a \in Nat, m \in Nat : f[<<a, m>>] # Primero(a, m) /\ Primero(a, m) - a = i
  BY <1>4
<1> DEFINE k == IF EsDiaHabil(a + 1) THEN m - 1 ELSE m
<1>6. f[<<a, m>>] = IF m = 0 THEN a ELSE f[<<a + 1, k>>]
  BY <1>5 DEF Sumador
<1>7. m # 0
  BY <1>5, <1>6, PrimeroCero
<1>8. a + 1 \in Nat /\ k \in Nat
  BY <1>7
<1>9. Primero(a, m) = Primero(a + 1, k)
  BY <1>7, PrimeroSiguiente
<1> HIDE DEF k
<1>10. f[<<a + 1, k>>] # Primero(a + 1, k) /\ Primero(a + 1, k) - (a + 1) \in Nat
  BY <1>2, <1>5, <1>6, <1>7, <1>8, <1>9
<1>11. Primero(a + 1, k) - (a + 1) \in Malos
  BY <1>8, <1>10
<1>12. Primero(a, m) \in Nat
  BY EsPrimero DEF Pasados
<1>13. Primero(a + 1, k) - (a + 1) < i
  BY <1>5, <1>9, <1>12
<1>14. QED
  <2> HIDE DEF Malos
  <2> QED
    BY <1>4, <1>5, <1>8, <1>9, <1>11, <1>12, <1>13

\* sumar_dias_habiles returns the first date by which the days have gone by.
LEMMA ValorSumar ==
    ASSUME NEW inicio \in Nat, NEW dias \in Nat
    PROVE  SumarDiasHabiles(inicio, dias) = Primero(inicio, dias)
<1> DEFINE F == CHOOSE f : Sumador(f)
<1>1. Sumador(F)
  BY SumadorPrimero
<1>2. SumarDiasHabiles(inicio, dias) = F[<<inicio, dias>>]
  BY DEF SumarDiasHabiles, Sumador
<1> HIDE DEF F
<1>3. QED
  BY <1>1, <1>2, SumadorUnico

\* A deadline is as many working days ahead as were asked for, and no day less: it
\* is a working day itself (sumar_dias_habiles and contar_dias_habiles are inverses
\* of each other, over every date and every number of days).
THEOREM IdaYVuelta ==
    ASSUME NEW inicio \in Nat, NEW dias \in Nat
    PROVE  LET v == SumarDiasHabiles(inicio, dias)
           IN  /\ v \in Nat /\ v >= inicio
               /\ dias > 0 => v > inicio /\ EsDiaHabil(v)
               /\ ContarDiasHabiles(inicio, v) = dias
<1> DEFINE v == SumarDiasHabiles(inicio, dias)
<1>1. v = Primero(inicio, dias)
  BY ValorSumar
<1>2. CASE dias = 0
  <2>1. v = inicio
    BY <1>1, <1>2, PrimeroCero
  <2>2. ContarDiasHabiles(inicio, inicio) = Cuantos(inicio + 1, inicio)
    BY ValorContar
  <2>3. Cuantos(inicio + 1, inicio) = 0
    <3>1. inicio + 1 \in Int /\ inicio < inicio + 1
      OBVIOUS
    <3>2. QED
      BY <3>1, CuantosVacio
  <2> HIDE DEF v
  <2>4. QED
    BY <1>2, <2>1, <2>2, <2>3 DEF v
<1>3. CASE dias > 0
  <2> HIDE DEF v
  <2>1. v \in Nat /\ v > inicio /\ EsDiaHabil(v) /\ Cuantos(inicio + 1, v) = dias
    BY <1>1, <1>3, PrimeroExacto
  <2>2. ContarDiasHabiles(inicio, v) = dias
    BY <2>1, ValorContar
  <2>3. QED
    BY <2>1, <2>2 DEF v
<1>4. QED
  BY <1>2, <1>3

\* Who starts later is not due earlier, weekends and holidays notwithstanding (the
\* triggers give one number of working days to every process of a class).
THEOREM PlazosEnOrden ==
    ASSUME NEW inicio \in Nat, NEW otro \in Nat, inicio <= otro, NEW dias \in Nat
    PROVE  SumarDiasHabiles(inicio, dias) <= SumarDiasHabiles(otro, dias)
<1> DEFINE v == Primero(otro, dias)
<1>1. v \in Pasados(otro, dias)
  BY EsPrimero
<1> HIDE DEF v
<1>2. v \in Nat /\ v >= otro /\ Cuantos(otro + 1, v) >= dias
  BY <1>1 DEF Pasados
<1>3. Cuantos(otro + 1, v) <= Cuantos(inicio + 1, v)
  <2>1. Habiles(otro + 1, v) \subseteq Habiles(inicio + 1, v)
    BY <1>2 DEF Habiles
  <2>2. inicio + 1 \in Int /\ v \in Int
    BY <1>2
  <2>3. IsFiniteSet(Habiles(inicio + 1, v))
    BY <2>2, HabilesFinito
  <2>4. QED
    BY <2>1, <2>3, FS_Subset DEF Cuantos
<1>4. Cuantos(otro + 1, v) \in Nat /\ Cuantos(inicio + 1, v) \in Nat
  <2>1. otro + 1 \in Int /\ inicio + 1 \in Int /\ v \in Int
    BY <1>2
  <2>2. QED
    BY <2>1, HabilesFinito
<1>5. v \in Pasados(inicio, dias)
  <2>1. v >= inicio /\ Cuantos(inicio + 1, v) >= dias
    BY <1>2, <1>3, <1>4
  <2>2. QED
    BY <1>2, <2>1 DEF Pasados
<1>6. Primero(inicio, dias) <= v
  BY <1>5, EsPrimero
<1>7. QED
  BY <1>6, ValorSumar DEF v

----------------------------------------------------------------------------
(* The life of a deadline *)

\* Every deadline is a working day, and the clocks are a midnight apart at most.
IInv ==
    /\ vence = Nada \/ (vence \in Nat /\ EsDiaHabil(vence))
    /\ hoy \in Nat /\ reloj \in Nat /\ reloj - hoy \in -1..1

\* A deadline that a trigger sets.
LEMMA PlazoPuesto ==
    ASSUME hoy \in Nat
    PROVE  LET v == SumarDiasHabiles(hoy, Plazo)
           IN  v \in Nat /\ EsDiaHabil(v) /\ ContarDiasHabiles(hoy, v) = Plazo
BY IdaYVuelta, ConstantesPlazos

\* IInv holds from the start.
LEMMA IInvInicial == Init => IInv
BY ConstantesPlazos DEF Init, IInv

\* Every step keeps it.
LEMMA IInvPaso == IInv /\ [Next]_vars => IInv'
<1> SUFFICES ASSUME IInv, [Next]_vars PROVE IInv'
  OBVIOUS
<1> USE DEF IInv
<1>1. CASE Crear
  BY <1>1, PlazoPuesto DEF Crear
<1>2. CASE Aprobar
  BY <1>2, PlazoPuesto DEF Aprobar
<1>3. CASE CambiarEstado
  BY <1>3 DEF CambiarEstado
<1>4. CASE PasaDiaBD
  BY <1>4 DEF PasaDiaBD
<1>5. CASE PasaDiaApp
  BY <1>5 DEF PasaDiaApp
<1>6. CASE UNCHANGED vars
  BY <1>6 DEF vars
<1>7. QED
  BY <1>1, <1>2, <1>3, <1>4, <1>5, <1>6 DEF Next

\* Hence it always holds.
THEOREM PlazoHabil == Spec => []IInv
BY IInvInicial, IInvPaso, PTL DEF Spec

\* What IInv says of the answers.
LEMMA IInvSigno == IInv => SignoDelPlazo
<1> SUFFICES ASSUME IInv, ConPlazo PROVE SignoDelPlazo
  BY DEF SignoDelPlazo
<1>1. vence \in Nat /\ EsDiaHabil(vence) /\ hoy \in Nat /\ reloj \in Nat /\ reloj - hoy \in -1..1
  BY DEF IInv, ConPlazo
<1> DEFINE h == ContarDiasHabiles(hoy, vence)
           r == ContarDiasHabiles(reloj, vence)
<1>2. /\ h \in Int
      /\ hoy < vence => h > 0 /\ h <= vence - hoy
      /\ hoy = vence => h = 0
      /\ hoy > vence => h < 0
  BY <1>1, SignoContar
<1>3. /\ r \in Int
      /\ reloj < vence => r > 0 /\ r <= vence - reloj
      /\ reloj = vence => r = 0
      /\ reloj > vence => r < 0
  BY <1>1, SignoContar
<1>4. r - h \in -1..1
  <2>1. CASE reloj = hoy
    <3>1. r = h
      BY <2>1
    <3> HIDE DEF r, h
    <3>2. QED
      BY <1>2, <3>1
  <2>2. CASE reloj = hoy + 1
    <3>1. r = h - Uno(IF hoy + 1 <= vence THEN hoy + 1 ELSE hoy)
      BY <1>1, <2>2, PasoContar
    <3> HIDE DEF r, h
    <3>2. QED
      BY <1>2, <3>1 DEF Uno
  <2>3. CASE hoy = reloj + 1
    <3>1. h = r - Uno(IF reloj + 1 <= vence THEN reloj + 1 ELSE reloj)
      BY <1>1, <2>3, PasoContar
    <3> HIDE DEF r, h
    <3>2. QED
      BY <1>3, <3>1 DEF Uno
  <2>4. QED
    BY <1>1, <2>1, <2>2, <2>3
<1> HIDE DEF h, r
<1>5. Vencido <=> h < 0
  BY <1>1, <1>2 DEF Vencido
<1>6. h = 0 <=> hoy = vence
  BY <1>1, <1>2
<1>7. DiasRestantes(reloj) = 0 <=> r <= 0
  BY <1>1, <1>3 DEF DiasRestantes
<1>8. r <= DiasRestantes(reloj)
  BY <1>1, <1>3 DEF DiasRestantes
<1>9. QED
  BY <1>4, <1>5, <1>6, <1>7, <1>8 DEF h, r, SignoDelPlazo, DiasHabilesRestantes

\* The list of overdue processes, the working days left and the calendar days shown
\* agree about every deadline, whatever its length, the date and the clock that
\* answers (the filter `vencidos', consulta_publica and dias_restantes).
THEOREM SignoCorrecto == Spec => []SignoDelPlazo
BY PlazoHabil, IInvSigno, PTL

\* What a step does to the days that are left.
PasoDeCuenta ==
    vence' # Nada =>
      IF vence = Nada \/ (estado' = "aprobado" /\ estado # "aprobado")
      THEN DiasHabilesRestantes(hoy)' = Plazo
      ELSE DiasHabilesRestantes(hoy)' = DiasHabilesRestantes(hoy)
             - (IF /\ hoy' # hoy
                   /\ EsDiaHabil(IF hoy' <= vence THEN hoy' ELSE hoy)
                THEN 1 ELSE 0)

\* A process that is not there has no deadline.
IInvPlazo == IInv /\ (estado = "ausente" => vence = Nada)

\* It takes one away on a working day, and nothing otherwise.
LEMMA CuentaPaso == IInvPlazo /\ [Next]_vars => [PasoDeCuenta]_vars
<1> SUFFICES ASSUME IInvPlazo, Next, vence' # Nada PROVE PasoDeCuenta
  BY DEF PasoDeCuenta
<1>1. hoy \in Nat
  BY DEF IInvPlazo, IInv
<1>2. CASE Crear
  <2>1. vence = Nada
    BY <1>2 DEF Crear, IInvPlazo
  <2>2. hoy' = hoy /\ vence' = SumarDiasHabiles(hoy, Plazo)
    BY <1>2 DEF Crear
  <2>3. ContarDiasHabiles(hoy', vence') = Plazo
    BY <1>1, <2>2, PlazoPuesto
  <2>4. QED
    BY <2>1, <2>3 DEF PasoDeCuenta, DiasHabilesRestantes
<1>3. CASE Aprobar
  <2>1. estado' = "aprobado" /\ estado # "aprobado"
    BY <1>3 DEF Aprobar
  <2>2. hoy' = hoy /\ vence' = SumarDiasHabiles(hoy, Plazo)
    BY <1>3 DEF Aprobar
  <2>3. ContarDiasHabiles(hoy', vence') = Plazo
    BY <1>1, <2>2, PlazoPuesto
  <2>4. QED
    BY <2>1, <2>3 DEF PasoDeCuenta, DiasHabilesRestantes
<1>4. CASE CambiarEstado \/ PasaDiaApp
  <2>1. vence # Nada /\ ~(estado' = "aprobado" /\ estado # "aprobado")
    BY <1>4 DEF CambiarEstado, PasaDiaApp
  <2>2. hoy' = hoy /\ vence' = vence
    BY <1>4 DEF CambiarEstado, PasaDiaApp
  <2>3. vence \in Nat /\ EsDiaHabil(vence)
    BY <2>1 DEF IInvPlazo, IInv
  <2>4. ContarDiasHabiles(hoy, vence) \in Int
    BY <1>1, <2>3, SignoContar
  <2>5. ContarDiasHabiles(hoy', vence') = ContarDiasHabiles(hoy, vence)
    BY <2>2
  <2>6. QED
    BY <2>1, <2>2, <2>4, <2>5 DEF PasoDeCuenta, DiasHabilesRestantes
<1>5. CASE PasaDiaBD
  <2>1. vence # Nada /\ ~(estado' = "aprobado" /\ estado # "aprobado")
    BY <1>5 DEF PasaDiaBD
  <2>2. hoy' = hoy + 1 /\ hoy' # hoy /\ vence' = vence
    BY <1>1, <1>5 DEF PasaDiaBD
  <2>3. vence \in Nat
    BY <2>1 DEF IInvPlazo, IInv
  <2>4. ContarDiasHabiles(hoy + 1, vence)
          = ContarDiasHabiles(hoy, vence) - Uno(IF hoy + 1 <= vence THEN hoy + 1 ELSE hoy)
    BY <1>1, <2>3, PasoContar
  <2>5. ContarDiasHabiles(hoy', vence')
          = ContarDiasHabiles(hoy, vence) - Uno(IF hoy' <= vence THEN hoy' ELSE hoy)
    BY <2>2, <2>4
  <2>6. QED
    BY <2>1, <2>2, <2>5 DEF PasoDeCuenta, DiasHabilesRestantes, Uno
<1>6. QED
  BY <1>2, <1>3, <1>4, <1>5 DEF Next

\* Whatever the number of working days of a deadline, that many are left when it is
\* set, and they go down one by one on working days and never up, before the
\* deadline and after it, over states written from a read that is no longer true
\* (the triggers, and what consulta_publica counts).
THEOREM CuentaCorrecta == Spec => CuentaAtras
<1>1. Init => (estado = "ausente" => vence = Nada)
  BY DEF Init
<1>2. (estado = "ausente" => vence = Nada) /\ [Next]_vars => (estado = "ausente" => vence = Nada)'
  BY DEF Next, Crear, Aprobar, CambiarEstado, PasaDiaBD, PasaDiaApp, vars
<1>3. Spec => [](estado = "ausente" => vence = Nada)
  BY <1>1, <1>2, PTL DEF Spec
<1>4. Spec => []IInvPlazo
  BY <1>3, PlazoHabil, PTL DEF IInvPlazo
<1>5. IInvPlazo /\ [Next]_vars => [PasoDeCuenta]_vars
  BY CuentaPaso
<1>6. Spec => [][PasoDeCuenta]_vars
  BY <1>4, <1>5, PTL DEF Spec
<1>7. QED
  BY <1>6 DEF CuentaAtras, PasoDeCuenta

============================================================================
