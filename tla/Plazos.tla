------------------------------- MODULE Plazos -------------------------------
(***************************************************************************)
(* Working days and legal deadlines.  A radicacion gets its deadline when  *)
(* it is inserted and a traslado when it is approved: sixty working days   *)
(* from the date of PostgreSQL, counted over weekends and the table of     *)
(* holidays.  What is left of it is then computed on every query, some     *)
(* against the date of PostgreSQL, others against that of the process      *)
(* that answers, some in working days and others in calendar days.         *)
(*                                                                         *)
(* A date is the number of days since Monday, 1 January 2024.  Deadlines   *)
(* do not depend on each other, so there is one process.                   *)
(***************************************************************************)
EXTENDS Integers, Sequences

CONSTANTS
    Plazo,       \* working days of a deadline, 60
    PrimerDia,   \* the date at the start
    UltimoDia,   \* bound on the date on which a deadline is set
    MaxRetraso,  \* bound on the days that pass after the deadline
    Nada

ASSUME ConstantesPlazos ==
    /\ PrimerDia \in Nat /\ UltimoDia \in Nat /\ MaxRetraso \in Nat
    /\ Plazo \in Nat \ {0} /\ Nada \notin Nat

VARIABLES
    clase,  \* the process is a traslado or a radicacion
    estado, \* its state, as far as the deadline depends on it
    vence,  \* its column vencimiento
    hoy,    \* CURRENT_DATE of PostgreSQL
    reloj   \* date.today() of the process that answers

vars == <<clase, estado, vence, hoy, reloj>>

----------------------------------------------------------------------------
(* The calendar, as the functions of the database walk it *)

Acumulado == <<0, 31, 59, 90, 120, 151, 181, 212, 243, 273, 304, 334>>

\* The number of a date from 2024, a leap year, to 2027.
Dia(a, m, d) ==
    (a - 2024) * 365 + Acumulado[m] + d - 1
      + (IF a > 2024 \/ m > 2 THEN 1 ELSE 0)

Festivos2024 == {<<1,1>>, <<1,8>>, <<3,25>>, <<3,28>>, <<3,29>>, <<5,1>>, <<5,13>>,
    <<6,3>>, <<6,10>>, <<7,1>>, <<7,20>>, <<8,7>>, <<8,19>>, <<10,14>>, <<11,4>>,
    <<11,11>>, <<12,8>>, <<12,25>>}

Festivos2025 == {<<1,1>>, <<1,6>>, <<3,24>>, <<4,17>>, <<4,18>>, <<5,1>>, <<6,2>>,
    <<6,23>>, <<6,30>>, <<7,20>>, <<8,7>>, <<8,18>>, <<10,13>>, <<11,3>>, <<11,17>>,
    <<12,8>>, <<12,25>>}

Festivos2026 == {<<1,1>>, <<1,12>>, <<3,23>>, <<4,2>>, <<4,3>>, <<5,1>>, <<5,18>>,
    <<6,8>>, <<6,15>>, <<7,6>>, <<7,20>>, <<8,7>>, <<8,17>>, <<10,12>>, <<11,2>>,
    <<11,16>>, <<12,8>>, <<12,25>>}

\* The rows that the migration inserts; no code adds others.
mov_festivos_colombia ==
    {Dia(2024, f[1], f[2]) : f \in Festivos2024}
      \cup {Dia(2025, f[1], f[2]) : f \in Festivos2025}
      \cup {Dia(2026, f[1], f[2]) : f \in Festivos2026}

EsDiaHabil(d) == d % 7 \notin {5, 6} /\ d \notin mov_festivos_colombia

\* Mutant: the day is counted before moving to the next one.
SumarDesdeInicio(inicio, dias) ==
    LET desde[e \in Nat \X Nat] ==
          IF e[2] = 0 THEN e[1]
          ELSE desde[<<e[1] + 1, IF EsDiaHabil(e[1]) THEN e[2] - 1 ELSE e[2]>>]
    IN desde[<<inicio, dias>>]

\* The loop, from a date and the working days still to count.
SumarDiasHabiles(inicio, dias) ==
    LET desde[e \in Nat \X Nat] ==
          IF e[2] = 0 THEN e[1]
          ELSE desde[<<e[1] + 1, IF EsDiaHabil(e[1] + 1) THEN e[2] - 1 ELSE e[2]>>]
    IN desde[<<inicio, dias>>]

\* Mutant: the count takes the first day and leaves the last one out.
ContarDesdeInicio(inicio, fin) ==
    LET signo == IF fin >= inicio THEN 1 ELSE -1
        desde[d \in Int] ==
          IF d = fin THEN 0
          ELSE desde[d + signo] + (IF EsDiaHabil(d) THEN signo ELSE 0)
    IN desde[inicio]

\* The first day is not counted and the last one is, in both directions; only
\* over all integers does the loop back from a passed deadline define a function.
ContarDiasHabiles(inicio, fin) ==
    LET signo == IF fin >= inicio THEN 1 ELSE -1
        desde[d \in Int] ==
          IF d = fin THEN 0
          ELSE desde[d + signo] + (IF EsDiaHabil(d + signo) THEN signo ELSE 0)
    IN desde[inicio]

----------------------------------------------------------------------------
(* The life of a deadline *)

Activo == estado \in {"abierto", "aprobado"}

Init ==
    /\ clase \in {"traslado", "radicacion"}
    /\ estado = "ausente" /\ vence = Nada
    /\ hoy = PrimerDia /\ reloj = hoy

\* The trigger of an INSERT gives a radicacion its deadline.
Crear ==
    /\ estado = "ausente" /\ hoy <= UltimoDia
    /\ estado' = "abierto"
    /\ vence' = IF clase = "radicacion" THEN SumarDiasHabiles(hoy, Plazo) ELSE Nada
    /\ UNCHANGED <<clase, hoy, reloj>>

\* An UPDATE writes a state that may follow the one its request read, and the row may
\* have gone on since, or be closed: nothing says from which state it is written.
\* Its trigger gives a traslado a deadline each time that "aprobado" comes over
\* another state.
Aprobar ==
    /\ clase = "traslado" /\ estado \notin {"ausente", "aprobado"} /\ hoy <= UltimoDia
    /\ estado' = "aprobado" /\ vence' = SumarDiasHabiles(hoy, Plazo)
    /\ UNCHANGED <<clase, hoy, reloj>>

\* No other state moves the deadline, not even the one that brings a closed process
\* back.
CambiarEstado ==
    /\ estado # "ausente" /\ estado' \in {"abierto", "cerrado"} \ {estado}
    /\ UNCHANGED <<clase, vence, hoy, reloj>>

\* The two clocks are never more than a midnight apart.
Limite == IF vence = Nada THEN UltimoDia ELSE vence + MaxRetraso

PasaDiaBD ==
    /\ hoy <= reloj /\ hoy < Limite
    /\ hoy' = hoy + 1 /\ UNCHANGED <<clase, estado, vence, reloj>>

PasaDiaApp ==
    /\ reloj <= hoy /\ reloj < Limite
    /\ reloj' = reloj + 1 /\ UNCHANGED <<clase, estado, vence, hoy>>

Next == Crear \/ Aprobar \/ CambiarEstado \/ PasaDiaBD \/ PasaDiaApp

Spec == Init /\ [][Next]_vars

----------------------------------------------------------------------------
(* What the queries answer *)

ConPlazo == Activo /\ vence # Nada

\* The public query of an account: working days, from the date of the process.
DiasHabilesRestantes(fecha) == ContarDiasHabiles(fecha, vence)

\* The lists, the detail and the PDF: calendar days, never below zero.
DiasRestantes(fecha) == IF vence > fecha THEN vence - fecha ELSE 0

\* The filter `vencidos' of the lists, from the date of PostgreSQL.
Vencido == ConPlazo /\ vence < hoy

----------------------------------------------------------------------------
(* Properties *)

\* A deadline is set sixty working days ahead, and set again only by a new approval.
\* Between the two what is left of it never goes up, and goes down by one on each
\* working day until the deadline and, from there on, on the day after each, whatever
\* is written over the process, its closing and what reopens it included
\* (sumar_dias_habiles and contar_dias_habiles walk the calendar in opposite
\* directions).
CuentaAtras ==
    [][vence' # Nada =>
         IF vence = Nada \/ (estado' = "aprobado" /\ estado # "aprobado")
         THEN DiasHabilesRestantes(hoy)' = Plazo
         ELSE DiasHabilesRestantes(hoy)' = DiasHabilesRestantes(hoy)
                - (IF /\ hoy' # hoy
                      /\ EsDiaHabil(IF hoy' <= vence THEN hoy' ELSE hoy)
                   THEN 1 ELSE 0)]_vars

\* The answers about a deadline agree: a process is listed as overdue when it has
\* less than zero working days left and on no other day, zero is the day of the
\* deadline, the calendar days shown reach zero together with the working days, and
\* between the two clocks there is at most one day.
SignoDelPlazo ==
    ConPlazo =>
        /\ Vencido <=> DiasHabilesRestantes(hoy) < 0
        /\ DiasHabilesRestantes(hoy) = 0 <=> hoy = vence
        /\ DiasRestantes(reloj) = 0 <=> DiasHabilesRestantes(reloj) <= 0
        /\ DiasHabilesRestantes(reloj) <= DiasRestantes(reloj)
        /\ DiasHabilesRestantes(reloj) - DiasHabilesRestantes(hoy) \in -1..1
=============================================================================
