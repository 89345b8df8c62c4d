----------------------------- MODULE Movilidad -----------------------------
(***************************************************************************)
(* Traslados, radicaciones and novedades of vehicle accounts.              *)
(*                                                                         *)
(* Every HTTP request is one PostgreSQL transaction at READ COMMITTED      *)
(* (get_session commits after the handler, rolls back on any exception).   *)
(* A use case is a sequence of statements with an await between them, so   *)
(* it is split here at its statements: what one request reads may be       *)
(* changed by another before it writes.  `fila' and `nov' are the          *)
(* committed rows; what a request has written and not committed is kept    *)
(* in its own record `pet[w]'.                                             *)
(***************************************************************************)
EXTENDS Naturals

CONSTANTS
    Cuentas,        \* accounts (mov_cuentas_vehiculos)
    Traslados,      \* pool of traslado identifiers (uuid7 drawn by the app)
    Radicaciones,   \* pool of radicacion identifiers
    Novedades,      \* pool of novedad identifiers
    CuentaDe,       \* the account each process identifier is created for
    Actores,        \* users whose requests resolve novedades
    Peticiones,     \* request slots: how many requests run at the same time
    MaxReloj,       \* bound on the transactions that may complete a process
    Nada            \* no process, no novedad, no actor

Procesos == Traslados \cup Radicaciones

ASSUME ConstantesMovilidad ==
    /\ Traslados \cap Radicaciones = {}
    /\ CuentaDe \in [Procesos -> Cuentas]
    /\ MaxReloj \in Nat
    /\ Nada \notin Procesos \cup Novedades \cup Actores

VARIABLES
    fila,   \* fila[p]: committed row of process p ("ausente" when there is none)
    nov,    \* nov[n]: committed row of novedad n
    pet,    \* pet[w]: the request slot w is serving, with its transaction
    reloj   \* order in which completing transactions began (NOW())

vars == <<fila, nov, pet, reloj>>

----------------------------------------------------------------------------
(* The two state machines of the domain *)

EstadoTraslado == {"sin_asignar", "revisado", "con_novedades", "aprobado",
                   "enviado_organismo", "trasladado", "devuelto"}

EstadoRadicacion == {"sin_asignar", "recibido", "revisado", "con_novedades",
                     "pendiente_radicar", "enviado_devolucion", "radicado",
                     "devuelto"}

Estados == EstadoTraslado \cup EstadoRadicacion

TRANSICIONES_TRASLADO ==
    ({"sin_asignar"} \X {"revisado", "con_novedades", "aprobado"})
      \cup ({"revisado"} \X {"con_novedades", "aprobado", "devuelto"})
      \cup ({"con_novedades"} \X {"revisado", "aprobado", "devuelto"})
      \cup ({"aprobado"} \X {"enviado_organismo", "devuelto"})
      \cup ({"enviado_organismo"} \X {"trasladado", "devuelto"})

TRANSICIONES_RADICACION ==
    ({"sin_asignar"} \X {"recibido", "revisado", "pendiente_radicar"})
      \cup ({"recibido"} \X {"revisado", "con_novedades"})
      \cup ({"revisado"} \X {"con_novedades", "pendiente_radicar",
                              "enviado_devolucion"})
      \cup ({"con_novedades"} \X {"revisado", "pendiente_radicar",
                                   "enviado_devolucion"})
      \cup ({"pendiente_radicar"} \X {"radicado", "enviado_devolucion"})
      \cup ({"enviado_devolucion"} \X {"devuelto"})

Terminales == {"trasladado", "radicado", "devuelto"}
Completados == {"trasladado", "radicado"}

\* cambiar_estado of the entity: is the change allowed?
Permitida(p, desde, hacia) ==
    <<desde, hacia>> \in (IF p \in Traslados THEN TRANSICIONES_TRASLADO
                                             ELSE TRANSICIONES_RADICACION)

----------------------------------------------------------------------------
(* Rows and requests *)

Fila == [estado : Estados \cup {"ausente"},
         vence : BOOLEAN,         \* vencimiento is set
         completado : BOOLEAN,    \* completado_en is set
         guia : BOOLEAN,          \* numero_guia is set
         sello : Nat]             \* actualizado_en, kept while completed

FilaAusente == [estado |-> "ausente", vence |-> FALSE, completado |-> FALSE,
                guia |-> FALSE, sello |-> 0]

FilaNovedad == [estado : {"ausente", "pendiente", "resuelta"},
                proc : Procesos \cup {Nada},
                por : Actores \cup {Nada}]    \* resuelto_por

NovedadAusente == [estado |-> "ausente", proc |-> Nada, por |-> Nada]

Operaciones == {"crear_traslado", "crear_radicacion", "cambiar_estado",
                "crear_novedad", "resolver_novedad"}

Pasos == {"libre", "activo", "aprobado", "ultimo", "otro_ultimo", "insertar",
          "leer_proceso", "leer_novedad", "escribir_novedad", "pendientes",
          "revertir", "leer", "recargar", "escribir", "commit"}

Peticion == [op : Operaciones \cup {"ninguna"},
             paso : Pasos,
             proc : Procesos \cup {Nada},
             nov : Novedades \cup {Nada},
             actor : Actores \cup {Nada},
             nuevo : Estados \cup {"ausente"},  \* state asked for
             guia : BOOLEAN,   \* guia of the command, then of the entity
             leido : Nat,      \* stamp of the last completed process read first
             inicio : Nat,     \* NOW() of this transaction
             img : Fila]       \* row reloaded by session.get, then row written

PeticionLibre == [op |-> "ninguna", paso |-> "libre", proc |-> Nada,
                  nov |-> Nada, actor |-> Nada, nuevo |-> "ausente",
                  guia |-> FALSE, leido |-> 0, inicio |-> 0, img |-> FilaAusente]

\* A row another transaction has updated and not committed: UPDATE waits for it.
FilaBloqueada(w, p) ==
    \E v \in Peticiones \ {w} :
        /\ pet[v].paso = "commit"
        /\ pet[v].proc = p
        /\ pet[v].img.estado # "ausente"

NovedadBloqueada(w, n) ==
    \E v \in Peticiones \ {w} :
        /\ pet[v].op = "resolver_novedad"
        /\ pet[v].nov = n
        /\ pet[v].paso \in {"pendientes", "revertir", "leer", "recargar",
                            "escribir", "commit"}

\* ultimo_completado: the completed process of account c among S with the
\* greatest actualizado_en (empty when there is none).
CompletadosDe(c, S) == {p \in S : CuentaDe[p] = c /\ fila[p].estado \in Completados}
UltimosCompletados(c, S) ==
    {p \in CompletadosDe(c, S) :
        \A q \in CompletadosDe(c, S) : fila[q].sello <= fila[p].sello}

\* tiene_proceso_activo of each repository.
TieneActivo(c, S) ==
    \E p \in S : /\ CuentaDe[p] = c
                 /\ fila[p].estado \notin Terminales \cup {"ausente"}

\* validar_proceso_unico: the BEFORE INSERT trigger of both tables.
TriggerRechaza(c) ==
    \E p \in Procesos :
        /\ CuentaDe[p] = c
        /\ fila[p].estado \notin {"trasladado", "radicado", "ausente"}

----------------------------------------------------------------------------
Init ==
    /\ fila = [p \in Procesos |-> FilaAusente]
    /\ nov = [n \in Novedades |-> NovedadAusente]
    /\ pet = [w \in Peticiones |-> PeticionLibre]
    /\ reloj = 0

\* Move request w to step `paso'; end it without writing anything.
Ir(w, paso) == pet' = [pet EXCEPT ![w].paso = paso]
Terminar(w) == pet' = [pet EXCEPT ![w] = PeticionLibre]

SinFilas == UNCHANGED <<fila, nov, reloj>>

----------------------------------------------------------------------------
(* Requests arrive *)

IdNuevo(p) == /\ fila[p].estado = "ausente"
              /\ \A v \in Peticiones : pet[v].proc # p

PedirTraslado(w, p) ==
    /\ pet[w].paso = "libre"
    /\ IdNuevo(p)
    /\ pet' = [pet EXCEPT ![w] = [PeticionLibre EXCEPT
                 !.op = "crear_traslado", !.paso = "activo", !.proc = p]]
    /\ SinFilas

PedirRadicacion(w, p) ==
    /\ pet[w].paso = "libre"
    /\ IdNuevo(p)
    /\ pet' = [pet EXCEPT ![w] = [PeticionLibre EXCEPT
                 !.op = "crear_radicacion", !.paso = "activo", !.proc = p]]
    /\ SinFilas

\* PATCH .../estado.  The transaction begins here, and NOW() with it; only the
\* stamps of transactions that may complete a process are compared later.
PedirCambio(w, p, e, g) ==
    /\ pet[w].paso = "libre"
    /\ fila[p].estado # "ausente"
    /\ e \in Completados => reloj < MaxReloj
    /\ reloj' = IF e \in Completados THEN reloj + 1 ELSE reloj
    /\ pet' = [pet EXCEPT ![w] = [PeticionLibre EXCEPT
                 !.op = "cambiar_estado", !.paso = "leer", !.proc = p,
                 !.nuevo = e, !.guia = g,
                 !.inicio = IF e \in Completados THEN reloj' ELSE 0]]
    /\ UNCHANGED <<fila, nov>>

PedirNovedad(w, n, p) ==
    /\ pet[w].paso = "libre"
    /\ fila[p].estado # "ausente"
    /\ nov[n].estado = "ausente"
    /\ \A v \in Peticiones : pet[v].nov # n
    /\ pet' = [pet EXCEPT ![w] = [PeticionLibre EXCEPT
                 !.op = "crear_novedad", !.paso = "leer_proceso", !.proc = p,
                 !.nov = n]]
    /\ SinFilas

PedirResolver(w, n, a) ==
    /\ pet[w].paso = "libre"
    /\ nov[n].estado # "ausente"
    /\ pet' = [pet EXCEPT ![w] = [PeticionLibre EXCEPT
                 !.op = "resolver_novedad", !.paso = "leer_novedad",
                 !.nov = n, !.actor = a]]
    /\ SinFilas

----------------------------------------------------------------------------
(* crear_traslado and crear_radicacion *)

MismaClase(w) == IF pet[w].op = "crear_traslado" THEN Traslados ELSE Radicaciones
OtraClase(w) == IF pet[w].op = "crear_traslado" THEN Radicaciones ELSE Traslados
CuentaPedida(w) == CuentaDe[pet[w].proc]

\* tiene_proceso_activo of the repository of the process to be created.
ConsultarActivo(w) ==
    /\ pet[w].paso = "activo"
    /\ IF TieneActivo(CuentaPedida(w), MismaClase(w))
       THEN Terminar(w)
       ELSE Ir(w, IF pet[w].op = "crear_traslado" THEN "ultimo" ELSE "aprobado")
    /\ SinFilas

\* Mutant: the approved traslado is not looked for.
ConsultarAprobadoOmitido(w) ==
    /\ pet[w].paso = "aprobado"
    /\ Ir(w, "ultimo")
    /\ SinFilas

\* A radicacion needs an approved traslado of the account.
ConsultarAprobado(w) ==
    /\ pet[w].paso = "aprobado"
    /\ IF \E t \in Traslados : /\ CuentaDe[t] = CuentaPedida(w)
                               /\ fila[t].estado = "aprobado"
       THEN Ir(w, "ultimo")
       ELSE Terminar(w)
    /\ SinFilas

\* Sequence rule, first query: the last completed process of the same class.
ConsultarUltimo(w) ==
    /\ pet[w].paso = "ultimo"
    /\ LET ultimos == UltimosCompletados(CuentaPedida(w), MismaClase(w))
       IN  \/ ultimos = {} /\ Ir(w, "insertar")
           \/ \E p \in ultimos :
                pet' = [pet EXCEPT ![w].leido = fila[p].sello,
                                   ![w].paso = "otro_ultimo"]
    /\ SinFilas

\* Second query: it must not be newer than the last completed of the other class.
ConsultarOtroUltimo(w) ==
    /\ pet[w].paso = "otro_ultimo"
    /\ IF \E p \in UltimosCompletados(CuentaPedida(w), OtraClase(w)) :
             pet[w].leido <= fila[p].sello
       THEN pet' = [pet EXCEPT ![w].paso = "insertar", ![w].leido = 0]
       ELSE Terminar(w)
    /\ SinFilas

\* Mutant: the initial state the endpoint documents, unknown to the entity.
FilaNuevaPendiente(p) == [FilaAusente EXCEPT !.estado = "pendiente"]

\* The row INSERTed: fn_trigger_vencimiento_radicacion gives a radicacion its
\* deadline at once.
FilaNueva(p) == [FilaAusente EXCEPT !.estado = "sin_asignar",
                                    !.vence = p \in Radicaciones]

\* INSERT, with validar_proceso_unico looking at the committed rows.
Insertar(w) ==
    /\ pet[w].paso = "insertar"
    /\ IF TriggerRechaza(CuentaPedida(w))
       THEN Terminar(w)
       ELSE pet' = [pet EXCEPT ![w].img = FilaNueva(pet[w].proc),
                               ![w].paso = "commit"]
    /\ SinFilas

----------------------------------------------------------------------------
(* cambiar_estado, also nested in crear_novedad and resolver_novedad *)

\* The guia of the entity: that of the row unless the command brings one.
GuiaEntidad(w) == pet[w].guia \/ fila[pet[w].proc].guia

\* Mutant: the state machine is not asked.
CambioValidoSinEstado(w) ==
    pet[w].proc \in Radicaciones /\ pet[w].nuevo = "devuelto" => GuiaEntidad(w)

\* The checks of the use case on the row just read.
CambioValido(w) ==
    /\ Permitida(pet[w].proc, fila[pet[w].proc].estado, pet[w].nuevo)
    /\ pet[w].proc \in Radicaciones /\ pet[w].nuevo = "devuelto" => GuiaEntidad(w)

\* Mutant: a nested change that is not allowed is tried again and again.
LeerReintenta(w) ==
    /\ pet[w].paso = "leer"
    /\ IF CambioValido(w)
       THEN pet' = [pet EXCEPT ![w].guia = GuiaEntidad(w), ![w].paso = "recargar"]
       ELSE IF pet[w].op = "cambiar_estado" THEN Terminar(w) ELSE Ir(w, "leer")
    /\ SinFilas

\* The nested callers swallow ReglaDeNegocioViolada and go on to the commit.
Leer(w) ==
    /\ pet[w].paso = "leer"
    /\ IF CambioValido(w)
       THEN pet' = [pet EXCEPT ![w].guia = GuiaEntidad(w), ![w].paso = "recargar"]
       ELSE IF pet[w].op = "cambiar_estado" THEN Terminar(w) ELSE Ir(w, "commit")
    /\ SinFilas

\* session.get in actualizar: the row is loaded again, its attributes are set.
Recargar(w) ==
    /\ pet[w].paso = "recargar"
    /\ pet' = [pet EXCEPT ![w].img = fila[pet[w].proc], ![w].paso = "escribir"]
    /\ SinFilas

\* Mutant: the deadline is set when the traslado comes from revisado only.
TriggersUpdateRevisado(p, vieja, nueva) ==
    [nueva EXCEPT
       !.vence = nueva.vence \/ (/\ nueva.estado = "aprobado"
                                 /\ vieja.estado = "revisado"),
       !.completado = nueva.completado \/ nueva.estado \in Completados]

\* Mutant: migration 003 taken into account in the wrong place.
TriggersUpdateTerminal(p, vieja, nueva) ==
    [nueva EXCEPT !.completado = nueva.estado \in Terminales]

\* BEFORE UPDATE triggers, from the latest committed row `vieja' to `nueva'.
TriggersUpdate(p, vieja, nueva) ==
    [nueva EXCEPT
       !.vence = nueva.vence \/ (/\ p \in Traslados
                                 /\ nueva.estado = "aprobado"
                                 /\ vieja.estado # "aprobado"),
       !.completado = nueva.completado \/ nueva.estado \in Completados]

\* UPDATE: only the columns that differ from the reloaded row are in the SET.
FilaEscrita(w) ==
    LET p == pet[w].proc
        base == pet[w].img
        e == IF base.estado # pet[w].nuevo THEN pet[w].nuevo ELSE fila[p].estado
        g == IF base.guia # pet[w].guia THEN pet[w].guia ELSE fila[p].guia
    IN  TriggersUpdate(p, fila[p],
          [fila[p] EXCEPT
             !.estado = e,
             !.guia = g,
             !.sello = IF e \in Completados THEN pet[w].inicio ELSE 0])

Escribir(w) ==
    /\ pet[w].paso = "escribir"
    /\ ~FilaBloqueada(w, pet[w].proc)
    /\ pet' = [pet EXCEPT ![w].img = FilaEscrita(w), ![w].paso = "commit"]
    /\ SinFilas

----------------------------------------------------------------------------
(* crear_novedad *)

\* Reading the process; the INSERT of the novedad is invisible until COMMIT.
LeerProceso(w) ==
    /\ pet[w].paso = "leer_proceso"
    /\ IF fila[pet[w].proc].estado \in Terminales
       THEN Terminar(w)
       ELSE pet' = [pet EXCEPT ![w].nuevo = "con_novedades", ![w].paso = "leer"]
    /\ SinFilas

----------------------------------------------------------------------------
(* resolver_novedad *)

LeerNovedad(w) ==
    /\ pet[w].paso = "leer_novedad"
    /\ IF nov[pet[w].nov].estado = "resuelta"
       THEN Terminar(w)
       ELSE pet' = [pet EXCEPT ![w].proc = nov[pet[w].nov].proc,
                               ![w].paso = "escribir_novedad"]
    /\ SinFilas

\* UPDATE of the novedad row.
EscribirNovedad(w) ==
    /\ pet[w].paso = "escribir_novedad"
    /\ ~NovedadBloqueada(w, pet[w].nov)
    /\ Ir(w, "pendientes")
    /\ SinFilas

\* Mutant: the request does not see its own update.
PendientesConPropia(w) ==
    {n \in Novedades : nov[n].proc = pet[w].proc /\ nov[n].estado = "pendiente"}

\* novedades_pendientes_cuenta: committed rows, and this request's own update.
Pendientes(w) ==
    {n \in Novedades \ {pet[w].nov} : /\ nov[n].proc = pet[w].proc
                                      /\ nov[n].estado = "pendiente"}

ConsultarPendientes(w) ==
    /\ pet[w].paso = "pendientes"
    /\ Ir(w, IF Pendientes(w) = {} THEN "revertir" ELSE "commit")
    /\ SinFilas

Revertir(w) ==
    /\ pet[w].paso = "revertir"
    /\ IF fila[pet[w].proc].estado = "con_novedades"
       THEN pet' = [pet EXCEPT ![w].nuevo = "revisado", ![w].paso = "leer"]
       ELSE Ir(w, "commit")
    /\ SinFilas

----------------------------------------------------------------------------
(* The end of a transaction *)

NovedadesEscritas(w) ==
    CASE pet[w].op = "crear_novedad" ->
           [nov EXCEPT ![pet[w].nov] = [estado |-> "pendiente",
                                        proc |-> pet[w].proc, por |-> Nada]]
      [] pet[w].op = "resolver_novedad" ->
           [nov EXCEPT ![pet[w].nov].estado = "resuelta",
                       ![pet[w].nov].por = pet[w].actor]
      [] OTHER -> nov

Commit(w) ==
    /\ pet[w].paso = "commit"
    /\ fila' = IF pet[w].img.estado = "ausente"
               THEN fila
               ELSE [fila EXCEPT ![pet[w].proc] = pet[w].img]
    /\ nov' = NovedadesEscritas(w)
    /\ Terminar(w)
    /\ UNCHANGED reloj

\* Any failure before COMMIT: connection lost, process killed, deploy.
Rollback(w) ==
    /\ pet[w].paso # "libre"
    /\ Terminar(w)
    /\ SinFilas

\* statement_timeout: an UPDATE that waits too long for a row fails.
EsperaAgotada(w) ==
    /\ \/ /\ pet[w].paso = "escribir"
          /\ FilaBloqueada(w, pet[w].proc)
       \/ /\ pet[w].paso = "escribir_novedad"
          /\ NovedadBloqueada(w, pet[w].nov)
    /\ Terminar(w)
    /\ SinFilas

----------------------------------------------------------------------------
Llegar(w) ==
    \/ \E p \in Traslados : PedirTraslado(w, p)
    \/ \E p \in Radicaciones : PedirRadicacion(w, p)
    \/ \E p \in Traslados : \E e \in EstadoTraslado : PedirCambio(w, p, e, FALSE)
    \/ \E p \in Radicaciones : \E e \in EstadoRadicacion : \E g \in BOOLEAN :
         PedirCambio(w, p, e, g)
    \/ \E n \in Novedades : \E p \in Procesos : PedirNovedad(w, n, p)
    \/ \E n \in Novedades, a \in Actores : PedirResolver(w, n, a)

Avanzar(w) ==
    \/ ConsultarActivo(w) \/ ConsultarAprobado(w) \/ ConsultarUltimo(w)
    \/ ConsultarOtroUltimo(w) \/ Insertar(w)
    \/ Leer(w) \/ Recargar(w) \/ Escribir(w)
    \/ LeerProceso(w)
    \/ LeerNovedad(w) \/ EscribirNovedad(w) \/ ConsultarPendientes(w)
    \/ Revertir(w)
    \/ Commit(w)

Next == \E w \in Peticiones :
            Llegar(w) \/ Avanzar(w) \/ Rollback(w) \/ EsperaAgotada(w)

Spec == Init /\ [][Next]_vars

\* The event loop goes on with every request it accepted, and a statement that
\* waits is ended by statement_timeout: no request is left half way.
FairSpec == Spec /\ \A w \in Peticiones : WF_vars(Avanzar(w) \/ EsperaAgotada(w))

----------------------------------------------------------------------------
(* Properties *)

TypeOK ==
    /\ fila \in [Procesos -> Fila]
    /\ nov \in [Novedades -> FilaNovedad]
    /\ pet \in [Peticiones -> Peticion]
    /\ reloj \in Nat

\* A traslado that has been approved, sent or moved has its legal deadline,
\* whatever updates raced on its row (fn_trigger_vencimiento_traslado).
AprobadoTieneVencimiento ==
    \A t \in Traslados :
        fila[t].estado \in {"aprobado", "enviado_organismo", "trasladado"}
          => fila[t].vence

\* No radicacion without a traslado of the same account that was approved
\* before it, even if that traslado has moved on since it was read.
RadicacionTrasAprobacion ==
    \A r \in Radicaciones :
        fila[r].estado # "ausente"
          => \E t \in Traslados : CuentaDe[t] = CuentaDe[r] /\ fila[t].vence

\* "Solo se permite uno a la vez": at most one process of an account is open.
UnProcesoActivo ==
    \A p, q \in Procesos :
        /\ CuentaDe[p] = CuentaDe[q]
        /\ fila[p].estado \notin Terminales \cup {"ausente"}
        /\ fila[q].estado \notin Terminales \cup {"ausente"}
        => p = q

\* completado_en says that the process is completed.
CompletadoCoincide ==
    \A p \in Procesos : fila[p].completado <=> fila[p].estado \in Completados

SinPendientes(p) == \A n \in Novedades : nov[n].proc = p => nov[n].estado # "pendiente"

\* Resolving the last pending novedad takes its process out of con_novedades.
ResolverUltimaLibera ==
    [][\A p \in Procesos :
         ~SinPendientes(p) /\ SinPendientes(p)' => fila'[p].estado # "con_novedades"]_vars

\* The process life cycle with at most one open process per account.
Ciclo == INSTANCE ProcesoUnico
           WITH estado <- [p \in Procesos |-> fila[p].estado]

\* Seen from outside, the system is a set of accounts that open one process at a
\* time and move it along its life cycle: no step opens a second one, skips a
\* state or leaves a terminal one.
CicloDeUnProceso == Ciclo!Spec

\* Every request ends: no transaction waits for a row for ever.
TodaPeticionTermina ==
    \A w \in Peticiones : pet[w].paso # "libre" ~> pet[w].paso = "libre"
=============================================================================
