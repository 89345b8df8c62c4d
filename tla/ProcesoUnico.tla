---------------------------- MODULE ProcesoUnico ----------------------------
(***************************************************************************)
(* What the movilidad component promises of the processes of an account:   *)
(* they are opened one at a time and follow the domain's state machines.   *)
(***************************************************************************)
CONSTANTS
    Procesos,       \* traslados and radicaciones
    CuentaDe,       \* account of each process
    Estados,        \* states of a process
    Terminales,     \* states that close a process
    Permitida(_, _, _)  \* allowed changes of state of a process

VARIABLE estado     \* estado[p], "ausente" before p is opened

Abierto(p) == estado[p] \notin Terminales \cup {"ausente"}

\* Accounts with a history, none with two open processes.
Init ==
    /\ estado \in [Procesos -> Estados \cup {"ausente"}]
    /\ \A p, q \in Procesos :
         CuentaDe[p] = CuentaDe[q] /\ Abierto(p) /\ Abierto(q) => p = q

Abrir(p) ==
    /\ estado[p] = "ausente"
    /\ \A q \in Procesos : CuentaDe[q] = CuentaDe[p] => ~Abierto(q)
    /\ estado' = [estado EXCEPT ![p] = "sin_asignar"]

Cambiar(p) ==
    \E e \in Estados :
        /\ Permitida(p, estado[p], e)
        /\ estado' = [estado EXCEPT ![p] = e]

Next == \E p \in Procesos : Abrir(p) \/ Cambiar(p)

Spec == Init /\ [][Next]_estado
=============================================================================
