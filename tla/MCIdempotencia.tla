--------------------------- MODULE MCIdempotencia ---------------------------
(* One start of Idempotencia for each kind of start. *)
EXTENDS Idempotencia

CONSTANTS i1, i2, i3, c1, c2

\* Requests are interchangeable, and so are bodies: every start is one of these, the
\* last request with the body of the others or with another one, under other names.
InitCasos == Init /\ intento[i1].cuerpo = c1 /\ intento[i2].cuerpo = c1

SpecCasos == InitCasos /\ [][Next]_vars /\ Equidad
=============================================================================
