---------------------------- MODULE MCMovilidad ----------------------------
(* Instances of Movilidad for TLC: one account, whose processes compete. *)
EXTENDS Movilidad, TLC

MCCuentaDe == [p \in Procesos |-> CHOOSE c \in Cuentas : TRUE]

\* Requests, novedades and traslados are interchangeable.
Simetria == Permutations(Peticiones) \cup Permutations(Novedades)
              \cup Permutations(Traslados)

(* A state two racing requests reach: one traslado completed while a radicacion
   that had read it as approved was being created.  Requests handled one at a
   time never create a radicacion, so the life of one is explored from here. *)
InitRadicada ==
    /\ \E t \in Traslados, r \in Radicaciones :
         fila = [p \in Procesos |->
                   CASE p = t -> [estado |-> "trasladado", vence |-> TRUE,
                                  completado |-> TRUE, guia |-> FALSE, sello |-> 1]
                     [] p = r -> [FilaAusente EXCEPT !.estado = "sin_asignar",
                                                     !.vence = TRUE]
                     [] OTHER -> FilaAusente]
    /\ nov = [n \in Novedades |-> NovedadAusente]
    /\ pet = [w \in Peticiones |-> PeticionLibre]
    /\ reloj = 1

SpecSecuencial == (Init \/ InitRadicada) /\ [][Next]_vars
=============================================================================
