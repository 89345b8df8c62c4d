------------------------------ MODULE MCPlazos ------------------------------
(* Dates of an instance of Plazos. *)
EXTENDS Plazos

\* From before Easter to the deadlines that reach 2027, a year without holidays.
Desde == Dia(2026, 3, 16)
Hasta == Dia(2026, 10, 18)
=============================================================================
