# Verification of `api_movilidad`

TLA+ models of the API that manages vehicle accounts (movilidad), the parking
lot (parqueadero), the NUNC records and its users: what its requests do to
PostgreSQL and Redis when several of them run at the same time, fail half way,
time out or are sent again. TLC checks the models on small instances; TLAPS proves the
theorems for any size. Names are those of the source, in Spanish; paths below are relative
to the repository, with `app/` for `src/app/`.

    tlc -workers 2 -config MovAlta.cfg MCMovilidad.tla
    tlapm MovilidadTeoremas.tla

Contents: 1 the system, 2 the modules, 3 correspondence with the code,
4 properties and what the runs show, 5 bounds and fairness, 6 proofs,
7 abstractions and known differences, 8 what is not modelled, and the plan.

## 1. The system

A FastAPI application in the hexagonal style: routers build a use case, the use
case loads entities through repositories (SQLAlchemy, asyncpg), entities hold
the rules, repositories write the rows back. It runs as several processes (the
README names Vercel and Docker), so nothing in memory orders two requests.
Three facts shape every model here:

* **One request is one transaction** (`app/infrastructure/persistence/database.py:53`).
  `get_session` commits when the handler returns, before the response leaves,
  and rolls back on any exception. The isolation level is PostgreSQL's default,
  READ COMMITTED: each statement sees what had been committed when it began.
* **A use case is several statements with an `await` between them.** Whatever
  was read may have changed when the request writes. There is no
  `SELECT ... FOR UPDATE` and no version column; only triggers, constraints and
  the row locks of UPDATE protect the data.
* **Redis is outside the transaction.** Its commands are atomic one by one and
  are not undone by a rollback; keys disappear when their time to live ends.

### Inventory

| Component | State it keeps | Operations that change it | What is hard | Modelled in |
|---|---|---|---|---|
| Movilidad: traslados, radicaciones, novedades | `mov_traslados`, `mov_radicaciones`, `mov_novedades`, set by use cases and by triggers | create traslado / radicacion, change of state, create and resolve a novedad (which change the state of their process) | check-then-insert, lost updates, nested changes of state, triggers that see another row than the use case, row locks held to COMMIT | `Movilidad`, `ProcesoUnico` |
| Working days and deadlines | `vencimiento` of a process, the table of holidays | set on insert or on approval by a trigger; time passes | counting in two directions over holidays, two clocks, working and calendar days side by side | `Plazos` |
| Inventory of supplies | `inv_stock`, `inv_movimientos`, `inv_rangos`, `parq_inv_cierres` | register a movement; create a supply; close a shift; extend a range | read-modify-write of stock, chain of hashes, several rows per flush | `Inventario`; the last three in `Registros` |
| Idempotency middleware | one key of Redis per (client, path, key) or fingerprint | lock, store answer, release | lock that expires under its owner, retries, crashes, answers over the limit | `Idempotencia` |
| Authentication | session, marks of used tokens, counters, lockout and links in Redis; the row of the user | login, refresh, logout, verify, resend, request and do a reset | Redis and database out of step, times to live that differ, read-then-delete links, the whole row written back from an older read | `Acceso` |
| Users | `usuarios` | create, profile, change of state | as above; two creations with one e-mail | `Acceso`, `Registros` |
| Roles, permissions and caches | `roles`, `rol_permisos`, `usuarios_roles`, two keys of Redis, one cache per worker | assign, revoke, add permissions, fill and invalidate caches, expire | fill racing invalidation, invalidation before COMMIT, caches of other workers | `Permisos` |
| API keys | `api_keys` | create, use (records it), revoke | recording a use writes `activa` back | `Permisos` |
| Audit log | `auditoria` | append after the response; triggers on users and roles | written by a task nobody waits for | `Registros` (which rows), `Paginacion` (the list) |
| NUNC | `nunc_sesiones`, `nunc_registros` | open session, register | every statement about a session fails: its model names a column no migration creates (section 7) | `Registros` (the failure), `Paginacion` (the list of records) |
| Accounts, catalogues, notifications | `mov_cuentas_vehiculos`, organismos, empresas, notifications | create; acknowledge | COUNT + 1 under an advisory lock; SELECT-then-INSERT; keys unique in the database and looked for inside a tenant | `Registros` |
| Vehicles, inspections | `parq_*` | create, change, approve | unique keys, rows written back | `Registros` |
| Lists and reports | none | - | a table that changes between two pages; rows that commit behind the cursor | `Paginacion` |
| Rate limiter | counters in Redis | count a request | atomic MULTI | - |
| Tenants | none of their own: a setting of each transaction and the policies of PostgreSQL | - | indexes and numbers that ignore the tenant | `Registros` (where keys and numbers depend on it) |
| Body limit, security headers, tracing, error handlers | none of their own | - | - | - |
| PDF, e-mail, alerts, schemas, mappers, start-up | none | - | pure functions and I/O | - |

Interactions: every mutating request goes through the idempotency middleware
(which treats the handler as a black box), then through authentication and
permissions (`app/dependencies.py`), then runs its use case in one transaction,
whose INSERTs and UPDATEs fire the triggers of migrations 001 and 002. A use case
may call another inside the same transaction (a novedad changes the state of its
process). The audit middleware writes after the response in a transaction of its
own. Tables are shared between modules in two places: the row of a user is
written by `Acceso` and read, as "active or not", by `Permisos`; the deadline
whose existence `Movilidad` follows is the one whose date `Plazos` computes.

`PROJECT.json` lists every component with its sources and status, and under
`hazards` the lines where each of these difficulties bites.

## 2. The modules

| Module | Kind | What it says |
|---|---|---|
| `Movilidad` | specification | processes and novedades of vehicle accounts, one transaction per request, split at its statements |
| `ProcesoUnico` | abstract specification | what an account shows from outside: processes opened one at a time that follow their life cycle |
| `MCMovilidad` | instances | one account whose requests compete; symmetry; the sequential start |
| `MovilidadTeoremas` | proofs | types, deadlines, approval before radicacion; the refinement of `ProcesoUnico` and the other rules when requests about an account do not overlap |
| `Plazos`, `MCPlazos` | specification, dates | the deadline of one process and what each query answers about it |
| `PlazosTeoremas` | proofs | what the two functions of the calendar return for every date; the count down and the sign of what is left |
| `Inventario`, `MCInventario` | specification, instances | stock of one supply and the chained log of its movements |
| `InventarioTeoremas` | proofs | types, order of the chain, balance of a movement, no deadlock |
| `Idempotencia`, `MCIdempotencia` | specification, instances | the life of one idempotency key |
| `IdempotenciaTeoremas` | proofs | types, how many are inside the handler, second executions, faithful repetition |
| `Acceso`, `MCAcceso` | specification, scenes | one account: sessions, tokens, links and lockout in Redis, and its row |
| `AccesoTeoremas` | proofs | types, end of a session, bound of the lockout, reuse of tokens and links, changes of state |
| `Permisos`, `MCPermisos` | specification, scenes | what a request of a user is allowed to do, through three copies of the permissions; one API key |
| `PermisosTeoremas` | proofs | types, age of the permissions and of the profile in use, roles and API keys |
| `Registros`, `MCRegistros` | specification, scenes | the requests that write one row: unique keys, numbers, lost updates, audit trail |
| `RegistrosTeoremas` | proofs | types, the numbers of the accounts with and without tenants, unforeseen errors, audit trail, edits |
| `Paginacion`, `MCPaginacion` | specification, filters | one list read page by page while its table changes |
| `PaginacionTeoremas` | proofs | types; what a cursor and what an offset give |

`Movilidad` implements `ProcesoUnico` under the mapping
`estado <- [p |-> fila[p].estado]` when the requests about one account do not
overlap: the run `MovSec` checks it (property `CicloDeUnProceso`) with one request
at a time, and the theorem `ImplementaCiclo` proves it with any number of requests about different
accounts at once. With concurrent requests about one account it does not, as the
run `MovDosActivos` shows step by step. Definitions whose comment
begins with "Mutant" are slips a programmer could make in the code (a dropped
check, a missing reset). No action uses them; each property of a passing run is
known to fail when one of them replaces the definition it imitates.

The MC modules of `Acceso`, `Permisos` and `Registros` are made of *scenes*: a
behaviour chooses at the start, in the variable `abiertas`, which operations are
in use, and begins in a state the system reaches with them. The specification
(`Spec`) has no such limit; a scene keeps together the operations that touch the
same data and leaves out the others.

## 3. Correspondence with the code

### Movilidad

`fila[p]` is the committed row of a process: its state, whether the deadline
(column `vencimiento`), `completado_en` and the guia are set, and `sello`, the
order of its last completion among processes (which `ultimo_completado` sorts
by). `nov[n]` is the committed row of a novedad. `pet[w]` is a request slot: the
operation, the statement it is about to execute (`paso`), the entity it read
(`ent`), the row image it has written (`img`) and what it was asked. Uncommitted
writes live only in `pet[w]`: `Commit` publishes them, `Rollback` drops them.
A row with an image in some slot is locked (`FilaBloqueada`).

| Actions | Code |
|---|---|
| `PedirTraslado`, `ConsultarActivo`, `ConsultarUltimo`, `ConsultarOtroUltimo`, `Insertar` | `crear_traslado.py`: `tiene_proceso_activo`, `ultimo_completado` of both kinds, INSERT with `validar_proceso_unico` and the deadline trigger |
| `PedirRadicacion`, `ConsultarAprobado`, and the same tail | `crear_radicacion.py` |
| `PedirCambio`, `Leer`, `Recargar`, `Escribir` | `cambiar_estado_traslado.py`, `cambiar_estado_radicacion.py`; `Recargar` is the second SELECT of `session.get` in `actualizar`, against which SQLAlchemy computes the columns to write |
| `PedirNovedad`, `LeerProceso`, then `Leer`... | `crear_novedad.py`; a refused nested change is swallowed and the novedad still committed |
| `PedirResolver`, `LeerNovedad`, `EscribirNovedad`, `ConsultarPendientes`, `Revertir`, then `Leer`... | `resolver_novedad.py` |
| `TriggersUpdate`, `FilaNueva`, `TriggerRechaza` | the triggers of migration 002 |
| `Commit`, `Rollback`, `EsperaAgotada` | `get_session`; `statement_timeout` |

### Plazos

One process: `vence` is its column `vencimiento`, `hoy` the CURRENT_DATE of
PostgreSQL, `reloj` the `date.today()` of the worker that answers; dates are days
since Monday, 1 January 2024. `SumarDiasHabiles` and `ContarDiasHabiles` are the
functions of migration 002, walking day by day over `mov_festivos_colombia`. `Crear` and
`Aprobar` are the two triggers that set a deadline, `CambiarEstado` every other
UPDATE of the state. A state is written from an earlier read (see `Movilidad`), so
neither asks which state the row has: an approval may come back and be given again,
with another date, and a closed process may be open again, with the date it had. How
long ago the read was is not bounded. The three answers are
`DiasHabilesRestantes` (public query of an account), `DiasRestantes` (lists,
detail and PDF) and `Vencido` (the filter of the lists).

### Inventario

`stock[u]` is the row of one supply at location `u` (or no row), `mov[m]` the row
of a movement with its time and predecessor, `pet[w]` a request with the rows it
loaded (`leido`), the values it will write (`nuevo`) and the rows it has written
and holds (`escrito`). `ConsultarUltimo`, `ConsultarOrigen`, `ConsultarDestino`
are the SELECTs of `registrar_movimiento` and `_actualizar_stock`; `Escribir` is
one statement of the flush, `Commit` the end. The session has autoflush off, so
nothing is written before the flush; SQLAlchemy then emits UPDATEs sorted by
primary key and INSERTs after them (`Siguiente`). An UPDATE writes only columns
whose value changed, and the absolute value, not the difference.

### Idempotencia

`clave` is the Redis entry of one key: absent, a lock (`en_vuelo`) or an answer
(`guardada`) and its remaining time. `intento[w]` is a request with that key.
`Consultar` is the GET with its three outcomes, `Adquirir` the SET NX, `Manejar`
the handler (`call_next`), `Guardar` and `Liberar` what the middleware does with
a 2xx and with anything else, `Caer` a death, a cancellation or an error of
Redis, `Reintentar` the client obeying Retry-After, `Tic` the passing of time.
`modo` is whether the client sent `Idempotency-Key`: with it the body is
compared and an answer lasts `IDEMPOTENCY_TTL`; without it the body is part of
the key and the answer lasts `IDEMPOTENCY_AUTO_TTL`. `edad` is how long a request has
been inside and `vigencia[w]` what is left of the answer it stored; no action reads them.

### Acceso

One account. `usuario` is its committed row, `fila` the request that locks it;
`redis` holds what is left of the session, the lockout, the counter of failures
and the pause between mails; `token` the refresh tokens issued, each with what is
left of its life and of its mark; `enlace` the mailed links. The write of a row
is what the request computed from its own read (`pet[w].ent`), restricted to the
columns that differ from the second read of `actualizar` (`Recargar`).

| Actions | Code |
|---|---|
| `MirarBloqueo`, `Leer`, `Comparar`, `Bloquear`, `Recargar`, `Actualizar`, `Abrir`, `Commit` | `autenticar_usuario.py` and the router's login, with `usuario_repo.actualizar`; the same tail serves `perfil` and `cambiar_estado` |
| `Reclamar`, `Existe`, `Renovar`, `Leer`, `Refrescar` | `refresh` of `routers/auth/auth.py`: SET NX of the mark, EXISTS and SET of the session, then the row |
| `Revocar`, `Cerrar` | `logout`: mark, then session |
| `UsarEnlace`, `Leer`, `Recargar`, `Actualizar`, `Borrar` | `verificar_email.py`, `reset_password.py` |
| `MirarPausa`, `CrearEnlace`, `AnotarPausa` | resending a link, asking for a reset |
| `Caer`, `Tic` | any exception, timeout or death; time |

`PuedeRestablecer` is FALSE because `reset_password.py:50` stores the result of
`hashear` without awaiting it: the UPDATE is given a coroutine and fails.

### Permisos

One user. `base` holds the committed rows (roles with their term, permissions of
each role, whether the user is active), `redis` the two cached keys, `memoria[h]`
the entry of the user in `_PERM_LOCAL` of worker `h`, `llave` an API key with the time left to its `expira_en`. `sin[c]`
and `inactivo` measure how long ago the user last held `c` or was active; no
action reads them.

| Actions | Code |
|---|---|
| `MirarMemoria`, `MirarRedis`, `LeerPermisos`, `Guardar`, `Recordar` | `get_usuario_actual` of `dependencies.py`: `_PERM_LOCAL`, Redis, database, and back |
| `MirarPerfil`, `LeerPerfil`, `GuardarPerfil` | its profile, which says whether the user is active |
| `Atender`, `CrearLlave` | the handler with what it was given; creation of a key with a subset of it |
| `LeerAsignacion`, `LeerRol`, `LeerUsuario`, `LeerLlave`, `Releer`, then `Asignar`, `Revocar`, `Ampliar`, `Escribir` | the use cases that change roles, users and keys, with the second read of `actualizar` and the row lock |
| `LeerPropietario`, `Borrar`, `Commit` | what each of them deletes from Redis before its COMMIT, and the COMMIT |
| `Desalojar`, `Tic`, `Caer` | eviction from a full `_PERM_LOCAL`; expiration of keys and of roles; failure |

### Registros

Requests that write one row. A unique key is a tuple with the index and its
value: committed ones in `claves`, those of an open transaction in `puestas[w]`.
An INSERT whose key another open transaction has put waits for it (`Insertar` is
not enabled) and then goes in or fails. `filas` are rows that are edited,
`cerrojo` the advisory lock of the account numbers, `bitacora` the rows of the audit log.

Unique indexes are of the whole database. A request may come with an organization
(`org`; `Nada` is none, always so with `MULTITENANCY_ENABLED` at its default,
`app/config.py:123`), and then `existe_placa` looks among the rows of that organization
only (`Existe`; `duena[k]` is whose the row with key `k` is). `Politicas` says whether
the role of the application is subject to row level security, as it is unless it is a
superuser (that of `docker-compose` is): then COUNT sees the accounts of the
organization and those of none (`Contadas`), and the role of a new user is refused to
whoever is not an administrator (`RolVedado`).

| Actions | Code |
|---|---|
| `Leer`, `Releer` | the SELECT that looks for the key or loads the row, one operator per use case (`LeerCuenta`, `LeerRol`, `LeerFila`, ...) |
| `SinColumna` | every request about a NUNC session: its INSERT or SELECT names a column the table lacks |
| `Numerar` | the trigger that numbers an account: COUNT + 1 under the lock, LPAD to five digits |
| `Insertar`, `Modificar`, `Caducar` | the INSERT against the unique indexes, the UPDATE of a row, and `statement_timeout` for whoever waits for a key, a row or the advisory lock |
| `Commit`, `FallarCommit` | `get_session`, with the rows of the audit trigger; a COMMIT that fails or is cancelled |
| `Anotar`, `Caer` | the task of the audit middleware, after the answer; a process that stops |
| `Medianoche` | time |

### Paginacion

One list read to its end by one client. `fila[f]` is a row of its table: built
(`escrita`), committed (`firme`), the instant it is ordered by, the columns its
filters test. `Elegidas` is the WHERE of each list, `Nombra` the columns it
names, `Antes` and `DespuesDe` the order and the condition of its cursor.
`Escribir`, `Asentar`, `Cambiar`, `Vencer` are what other requests do to the
table; `PedirTrasCursor` is a page after a cursor (`Tamanio + 1` rows are read),
`PedirSalto` a page at an offset, `Contar` the total some lists answer first,
`Rechazar` the query that names a column the table lacks. The list of NUNC records reads a
table the code cannot fill (section 7); its rows are those put there by hand.

## 4. Properties and what the runs show

| Run | Instance | Properties |
|---|---|---|
| `MovAlta` | 1 account, 2 traslados, 1 radicacion, 2 concurrent requests | `TypeOK`; `AprobadoTieneVencimiento`: the trigger compares with the row it finds, not the row the use case read, and still no approved traslado lacks its deadline; `RadicacionTrasAprobacion`: no radicacion without a traslado approved before, although its state may have moved on when the INSERT runs |
| `MovSec` | 2 traslados, 2 radicaciones, 2 novedades, 2 actors, 1 request at a time with failures | `CompletadoCoincide`, `ResolverUltimaLibera` and the refinement `CicloDeUnProceso`: the rules are right when requests do not overlap. With two at once each of them fails (section 7) |
| `MovFin` | 1 traslado, 1 novedad, 2 concurrent requests, fairness | `TodaPeticionTermina`: locks are waited for in a nested way (novedad, then process) and every request still ends |
| `MovDosActivos` (finds a disagreement) | 2 traslados, 2 concurrent requests | `UnProcesoActivo`: two creations check, both find nothing, both INSERT (the trigger is another SELECT at READ COMMITTED), both commit. `PROJECT.json` quotes the lines that promise otherwise |
| `InvPar` | 3 locations, 5 movements, 2 concurrent requests | `TypeOK` (no stock below zero, committed or about to be written), `CadenaHaciaAtras`, `MovimientoCuadra` (an unraced movement changes each location by what it says), `SinAbrazoMortal` |
| `IdemCorto` | 3 requests, 2 bodies, both modes, fairness; handlers that may outlive their lock | `TypeOK`; `Exclusion`: two requests are inside the handler only when one has outlived its lock, and each of those lets in one more at most, although it may delete a lock that is not its own; `SinSegundaEjecucion`: a committed operation is executed again only if its answer was not left, has expired, or somebody outlived a lock; `RepetidaEsFiel`; `TodoIntentoResponde` |
| `Acceso` | 4 scenes, 2 requests at once, 4 in all | `ReusoSoloTrasMarca`: a used or revoked refresh token gets in again only after its mark has expired; `CierreFirme`: a logout no refresh straddles ends the session whatever tokens remain; `BloqueoAcotado`: how many attempts an account can take before it is locked, however they overlap, die before locking, or forget a failure by deleting the counter late; `EscrituraLimpia`: without an overlapping write, only an administrator (or a link) changes the state of an account, and by the transitions; `EnlaceDeUnUso` |
| `Permisos` | 7 scenes, 2 requests, 1 worker | `ObsolescenciaAcotada`: a permission in use was held at most `CotaPermiso = 4 MaxDuracion + (TtlRedis - 1) + TtlLocal` ago, through reads, fills and invalidations in any order; `AdmisionAcotada`, the same for a suspended user (`CotaPerfil`); `RolSoloCrece`: an addition to a role can be undone only by the additions that had read the role by then, whatever overlaps later; `LlaveNoRevive`: a revocation only by the uses of the key that had read it, which may even revive it, and by nothing once they have ended |
| `PermVive` | 2 scenes, fairness | `RevocacionVisible`: a permission lost for good is, in the end, given to nobody: entries built from old reads do not feed each other for ever |
| `Registros` | 14 scenes, 3 requests | `NumeroSinChoque`: the lock covers the COMMIT, so numbers collide only past the last one of the day or when COUNT is kept from some account; `UnaOrganizacionAlDia`: under the policies, the accounts that organizations open on one day are all of one of them; `ErrorSoloPorCarrera`: an error 500 instead of a 409 needs a race or a row of another organization (closings, inspections and role names with spaces excepted); `SobrescrituraSoloPorSolape`; `RastroFiel`; and no deadlock |
| `Paginacion` | 19 lists with their filters, 3 rows | `SinRepetidos`, `SinOmisiones`: what a cursor gives whatever commits late, changes or ties; `DesvioAcotado`: how far an offset may stray |
| `Plazos` | every date of seven months of 2026 | `CuentaAtras`: the two loops agree and the count never goes up; `SignoDelPlazo`: the answers about one deadline agree on overdue, today and how much |

`TypeOK` is also checked in the six runs that list it. All but `MovDosActivos` pass.

## 5. Bounds and fairness

*Movilidad.* Requests of different accounts touch no common row, so one account
is enough; the proofs cover any number. Two request slots exhibit every race of
two requests; each slot serves any number of requests one after the other.
Two traslados and one or two radicaciones let a process be created while others
are open, closed or completed. `MaxReloj` bounds how many transactions may begin
that complete a process. `InitRadicada` (in `SpecSecuencial`) starts from a state
that two racing requests reach: sequentially no radicacion can be created
(section 7), so without it their life cycle would never be exercised one
request at a time.

*Plazos.* `Plazo` is the real value, 60. The dates start before Easter 2026 and
end when deadlines reach 2027; every weekday and most holidays of the year fall
inside some deadline. The two clocks are at most a midnight
apart. Fifteen days after the deadline nothing new happens and the model
stops, so deadlock is not checked.

*Inventario.* One supply (supplies share no row). Three locations, so that two
traslados may share none, one or both ends, in either direction, and a row may
not exist yet. Quantities up to 2 and `MaxEntero = 2` reach the limit of the
column. `MaxReloj` bounds when requests arrive and `Movimientos` how many are
registered; when they are used up the system stops, so deadlock is not checked.

*Idempotencia.* Three requests (one inside, one that enters wrongly, one that
replays). What matters of the times to live is their order relative to the
duration of handlers: `TtlEnVuelo` 2, an automatic answer that lasts less than the
lock (1) and an explicit one that does not (2), as 10 s, 30 s and 86400 s do;
`MaxDuracion` 2 lets a handler go on when its lock has expired, as a handler of several
statements of up to 30 s each does. Starts that differ only in names are one
(`InitCasos`). All requests may have ended, so deadlock is not checked.

*Acceso.* Four requests, two at a time, and four units of time: enough for a
login, its refresh, a logout across it and one more use of the token after the
mark has gone. The times to live keep the order of the real ones that share a
scene: a mark (3) shorter than the token it marks (4), a session (2) shorter than
both, a pause (1) shorter than a link (2). `MaxIntentos` 2. The bounds are used
up, so deadlock is not checked.

*Permisos.* A worker is reached by nothing another worker does except through
Redis and the database, so one worker and two requests (the one that fills and
the one that invalidates) suffice: a permission read just before it is lost is
stored in Redis by one request, kept there by the SADD of a second, remembered by a
third and given to a fourth, never more than two at a time (`CotaPermiso`). Two
permissions in two roles tell a set from its union. `MaxDuracion` bounds the age
of a request, as the statement timeouts do; `sin` and `inactivo` stop one past
their bound. The key either never expires or does after one unit (`MaxVigencia`).

*Registros.* Three requests: two that race and one that meets the result. Each
request runs once and then stays in `fin`, where `Terminado` lets it be, so
TLC's deadlock check means that nobody waits for ever. `Base` 2 and `Tope` 4
stand for 10 and 100 000: numbers have two binary digits instead of five decimal
ones, and a third is cut off. `MaxDia` 2 is one midnight. Requests come with one of two
organizations or with none, and the policies of PostgreSQL apply (`Politicas` is TRUE;
the theorems cover both). Up to two accounts of the day, all of one owner, are there at
the start.

*Paginacion.* Three rows and pages of one: a row before, at and behind the
cursor, and pages enough for two changes in between. `MaxMarca` 2 makes instants
tie. The client stops at the last page, so deadlock is not checked.

*Fairness.* `MovFin` assumes weak fairness of "the request advances or its wait
is timed out": the event loop resumes every coroutine whose statement ended, and
`DATABASE_STATEMENT_TIMEOUT_MS` ends a statement that waits. Arrivals and
failures are not fair. `IdemCorto` assumes that time passes (`Tic`) and that each
request that arrived advances; for `Manejar` that is what `TodaPeticionTermina`
says of handlers, and for `Reintentar` it is a client that obeys the Retry-After
header it is given. `PermVive` assumes (`Equidad`) that time passes, that the
event loop takes each request to its end (WF of `Sigue`), and that PostgreSQL
grants a row lock in the order it was asked for (SF of `Toma`): between two
attempts others may take and free it.

## 6. Proofs

Each `...Teoremas` module proves its specification for every value of the
constants. Every theorem about behaviours rests on an inductive invariant, built from named parts and
checked by TLC on an instance before it was proved. `PROJECT.json` lists the theorems,
and the runs check the same properties on small instances.

### Movilidad

`TipoCorrecto`: `TypeOK` is not inductive (an UPDATE reads fields of a row that
must exist), so it is strengthened by `Forma`, which says for each step of each
operation what the request knows by then, and `NovedadesConProceso`.
`VencimientoGarantizado`: needs that a row has at most one writer (`UnEscritor`,
the lock), that a written image extends the committed row (`Imagenes`), and that
deadlines are never cleared; then an image in a late state carries its deadline
(`Vencimientos`). `RadicacionAutorizada`: once a request has passed
`ConsultarAprobado`, the deadline of the traslado it saw stays, whatever state
that traslado moves to (`Aprobaciones`); this is why the race between the check
and the INSERT is harmless.

`ImplementaCiclo` (the refinement of `ProcesoUnico`), `UnoALaVez`, `CompletadoEnOrden` and
`UltimaNovedadLibera` are about `Sucesivas`: behaviours that start from a consistent
database (`Historia`, which holds initially and also in states only older races
explain) and in which two requests about one account are never in progress together
(`SinSolape`); requests about different accounts overlap freely. It is a
condition and not a fact about the system: section 7 lists what happens without
it. The inductive invariant `Orden` says what each request has made sure of and still
holds when it commits (`Vigente`): the account is free, the change is allowed from the
committed state, the novedad is still pending. `AjenaVigente` is the step that needs
`SinSolape`: a COMMIT about another account takes none of it away. `UnaPeticion`
shows that a single slot meets the condition.

### Plazos

The claims are about two loops over the calendar, and the way to them is one number:
how many working days an interval has (`Cuantos`), with what its first and its last
day add (`CuantosPrimero`, `CuantosUltimo`). A recursive function is some function
that satisfies its equation, if there is one. So `ContadorDelante`, `ContadorAtras` and
`SumadorPrimero` show closed forms that satisfy the equations, and `ContadorUnico` and
`SumadorUnico` that every solution agrees with them: otherwise the point nearest to
the end of the loop where it does not would be followed by a nearer one. Hence
`ValorContar` (the working days between the two dates, below zero backwards) and `ValorSumar` (the
first date by which enough have gone by, which exists because holidays end:
`HayHabil`). `IdaYVuelta`: counting to the date that the other function returns gives the
days asked for, and that date is a working day. `PlazosEnOrden`: who starts later is not
due earlier. For the life of a deadline the invariant `IInv` adds that every deadline is
a working day and that the clocks are a midnight apart. The first is what `SignoCorrecto`
needs: on a deadline at a weekend the count would already be zero on the Friday before.
`CuentaCorrecta` follows from `PasoContar`, what one day does to the count on
either side of the deadline. Neither limits the length of the deadline or the dates; both hold for this
table of holidays (`FestivosAcotados` reads it) and use no more of it than that it is finite.

### Idempotencia

Nothing is assumed of how long a handler takes. `ExclusionMutua` rests on a count:
`Aislado` says that those inside are at most as many as the requests that outlived their
lock, and one more if some request has been inside for as long as the lock in Redis has
existed (`Suyo`: what is left of the lock and the time inside add up to `TtlEnVuelo`).
SET NX lets a request in only where there is no lock, and so no such one more; a lock
that expires makes its owner one of those that outlived theirs; a late `delete` may
take a lock away from its owner, but whoever deletes is one of them already, and leaves.
`SegundaEjecucionTrasVencer`: as long as nobody has outlived a lock, the entry is a lock
while a request is inside, which is alone (`Solo`), and afterwards the answer, until its
time ends (`Vigente`); a handler that commits meanwhile would have found it. `RepeticionFiel`: `Constancia` says that a
stored answer comes from a commit, and neither commits nor bodies are taken back.

### Inventario

`SinAbrazo`: the flush writes rows in ascending order (`OrdenDelFlush`: what a
request has written precedes what it has still to update), so of two requests that
wait for each other each would hold a row that precedes the one the other holds. `CadenaSegura`: the
movement a request read as the last one is committed and older than its own
(`Sellado`), until it commits. `StockCuadra`: `Aritmetica` carries the sums of
`_actualizar_stock` from statement to statement, so that a COMMIT over readings that are
still current changes each location by what the movement says, also when origin and
destination are the same.

### Registros

`NumerosSinChoque`: the numbers of a day are 1..n (`DiaContiguo`) and the holder of the
advisory lock has the successor of those it is let see, cut to its digits (`Numerada`); as
the lock is released after the COMMIT, its number is taken only if n has reached the last
one or some account was hidden. `CuentasDeUna`: a request of an organization that did not
see an account of another has a number that is taken (`NumeroVisto`), so that only the
first organization of a day gets past the index (`DiaDeUna`). `ErrorDeCarrera`: what a request looked for
and did not find is still missing unless another committed since or it is of another
organization (`Buscada`).
`EdicionSinSolape`: the same for the rows it read (`Leida`). `RastroVerdadero`:
only a request that committed answers `exitoso` (`Respondida`).

### Paginacion

`NadaDosVeces` and `NadaSeOmite`: the cursor separates the rows given
(`DadasAntes`) from the stable ones still to give (`PorDar`), and no change of
the table moves a row across it, because the instant and the identifier of a row
do not change. `SaltoAcotado` counts: a row given is behind the offset or was pushed
there by one that came (`Empujadas`: repeated rows plus those that can still be
repeated are at most the arrivals), and a stable row not yet given is never
before the offset (`PorDarDetras`).

### Permisos

`PermisosRecientes` and `PerfilReciente` bound ages. A request reads what is true at that moment, so what it
carries is at most as old as the request; what it stores in Redis is older by the time
the entry has been there (`EnRedis`), what a memory keeps adds its own time (`EnMemoria`).
The hard part is the second `MaxDuracion` in `EnRedis`: SADD adds to whatever the key
holds, so a set is as old as the oldest request that filled it since the key was last
absent (`Lector`). `RolConserva` and `LlaveMuerta`
say that what holds once the overlap has ended holds for ever. They follow the way a
request takes through its steps (`Movimiento`, `Destino`): an addition that reads the role
now reads the permission with it and never leaves it out afterwards (`NadieOmite`), and a
use that reads a revoked key ends there. `Ruta`, that only requests of the user pass the
checks of the caches, keeps the two apart.

### Acceso

`CierreCumple`: after a logout the session stays closed because nobody is between EXISTS and
SET (`Sesion`). `MarcaCumple`: what is left of a mark plus the time since it was set
covers its whole life (`Marcas`). `EnlaceCumple`: a verification that committed
had deleted its link (`Usados`). `EscrituraCumple`: a request that is not `rancio` holds
the committed row and exactly the columns that differ (`Una`). `BloqueoCumple`
counts (`Fallos`): without a lock, failures are those of the counter, those whose
request is about to set the lock, those that died there and those forgotten; with a lock,
the failures and the requests already past it are bounded by the limit and the number of slots.

### Assumptions

The theorems assume only the named ASSUMEs of the specifications, which TLC evaluates in
every run: identifiers of different kinds are different and `Nada` is none of them;
times to live are positive; the sets of requests, movements and rows are finite
where something is counted (`Inventario`, `Acceso`, `Paginacion`; a deployment has finitely many);
there is some role, name, code and group; a numbering base is at least 2 and at most
its `Tope`. The four theorems about `Sucesivas` add what it says.

### What the proofs found in the models

* `BloqueoAcotado` was false for larger values of `MaxIntentos` than the run has: a
  request that sets the lock and then takes longer than the whole lockout to delete the counter
  erases failures counted afterwards. These are now counted (`cuenta.olvidados`)
  and part of the bound.
* In `Plazos`, the loop that counts was a recursive function over the naturals. Its way
  back asks for days before the first, so no function was known to satisfy
  its equation and its values were unknown, although TLC computed them. It is over the integers now.
* In `Permisos`, two cases of what a COMMIT writes overlapped (`Asentada`), which let
  CASE choose; they are disjoint now.
* Two assumptions were missing: `Nada` is none of the values it is compared with,
  and there is at least one role.

### Only model-checked

* Liveness (`TodaPeticionTermina`, `TodoIntentoResponde`, `RevocacionVisible`): it
  needs ENABLED, which the prover does not reason about.
* `UnProcesoActivo` is violated (`MovDosActivos`); under `Sucesivas` it holds
  (`UnoALaVez`).

Every other property of the runs is a theorem. Where a proof needs induction over numbers (a
sum, a loop, the greatest element of a finite set), it takes a least counterexample
instead, which the well-foundedness of `<` provides (`MinimoNat`).

## 7. Abstractions and known differences

### What overlapping requests do

Some properties of section 4 name an overlap (`~rancio`, "no refresh straddles", "one
request at a time") and fail without that condition; these are the behaviours it leaves
out, and those that the other properties bound.

* Two creations for one account both succeed (`MovDosActivos`).
* A change of state overwrites one that committed since it read, terminal states
  included: a returned traslado may go on. A process returned without a guia arises in the
  same way, and a novedad resolved twice keeps the second resolver.
* Two requests that resolve the last two novedades of a process each count the
  other's as pending; the process stays in `con_novedades`.
* Two traslados of supplies read one balance, and the location gives out more than
  it received; two movements take the same predecessor.
* A handler that outlives `IDEMPOTENCY_IN_FLIGHT_TTL` (30 s, the `statement_timeout` of one
  of its statements) lets a retry in, and then deletes the lock or the answer of that retry.
  `Exclusion` bounds how far this goes.
* A refresh that has tested the session before a logout deletes it opens it again.
* A login or a profile writes back the state it read and undoes a suspension, and
  recording the use of an API key undoes its revocation, when the other commits
  between their first and their second read (`LlaveNoRevive`: only that use does).
* `actualizar_rol` replaces a whole set of permissions and loses an addition that
  committed meanwhile (`RolSoloCrece`: no later addition does).
* Two INSERTs of one unique key: except for users, the second answers 500 instead
  of 409, because nothing catches the IntegrityError; and it leaves no row in the
  audit log.

### What happens without any overlap

* Once the traslado that `crear_radicacion` requires is approved, the trigger
  `validar_proceso_unico` counts it as an open process of the account and refuses
  the INSERT: a radicacion is created only if the traslado is completed between the
  two statements. The trigger counts "devuelto" as open too (the use cases do not),
  so an account with a returned process can open no other.
* The mark of a used refresh token lives one day (`TOKEN_BLACKLIST_TTL`) and the
  token thirty: afterwards it can be used again. `activar` sets ACTIVO from any
  state, so verifying with a link activates a suspended account.
* `reset_password.py:50` does not await `hashear`: no reset succeeds.
* The dashboard and three reports name `fecha_vencimiento`; the column is
  `vencimiento` (`002_movilidad_parqueadero_nunc.py:145`), so their queries fail
  (`Rechazar`).
* `sesion_modelo.py:31` maps `cerrado_en`, a column that `nunc_sesiones` (002:386-404)
  lacks and no later migration adds. Every INSERT and SELECT of a session names it, so
  opening a session, validating a code and registering answer 500 (`SinColumna`), and the
  triggers that give codes and sequence numbers never run.
* With `MULTITENANCY_ENABLED`: the plate of an account or of a vehicle is unique in the
  database (002:123, 258) but looked for inside the organization, so a plate that another
  has answers 500. Numbers of accounts are unique too, and under the policies each
  organization counts its own: the second to open an account on a day gets 500 until
  midnight (`UnaOrganizacionAlDia`). `usuario_roles` takes rows only from an
  administrator (001:340): for anybody else with the permission, creating a user answers
  500 (`RolVedado`).
* An inspection is inserted with an empty `codigo`, which is UNIQUE NOT NULL
  (002:316, `inspeccion_repo.py:24`): the second one ever created fails.
* A role name with spaces around it passes the check and fails at the INSERT; a
  repeated closing of a shift fails there too.
* The answer of a created account has an empty `numero_cuenta`: the trigger sets it
  and `crear_cuenta.py:35` returns the entity as it was built. `crear_organismo`
  drops the telephone and the address.
* `mov_festivos_colombia` ends in 2026, so deadlines that reach 2027 count its holidays as
  working days; San Pedro y San Pablo is entered for 2026 on 6 July although 29 June
  2026 is itself a Monday. Past a deadline the public query counts the working days
  after it, one lower on the day that follows each (-1 on the Saturday after a
  Friday); the lists show calendar days that stop at zero.
* Lists with an offset do not order ties: they may repeat or omit rows that share
  an instant. The total of the audit list is a separate SELECT and may disagree
  with its pages.
* The docstring of `traslados.py:61` says that a traslado starts as `pendiente`; the
  code starts it as `sin_asignar`, which is what is modelled.
* No code inserts rows of `inv_rangos`, and no router uses
  `get_usuario_por_api_key`; both are modelled as the code would run them.

### Abstractions

* States are compared by label. On a stock PostgreSQL some expressions of
  migration 002 mix an enum with text (`estado != ALL(text[])`, a label the enum
  of traslados lacks) and would be type errors, and a report passes an integer to
  `:dias || ' days'`; the models take their evident meaning.
* The INSERT of a novedad is merged with the read of its process before it: the
  row is invisible until COMMIT and conflicts with nothing.
* A guia stands for transport company and number together. `radicado_en`,
  assignments and texts are left out: no rule modelled here reads
  them. `en_revision` is declared for novedades and no code sets it.
* A request sees `NOW()` as the start of its transaction; the order of
  `completado_en` is the order in which completing transactions began (`reloj`).
* Inventory: `SinAbrazoMortal` speaks of movements whose rows existed when they
  were read. With a row that has to be inserted a deadlock is possible: the
  INSERT of a duplicate key waits for the transaction that inserted it, while
  that one waits for a row the first has updated. PostgreSQL breaks it by
  aborting one (`Rollback`). The SELECT of the last movement breaks ties
  arbitrarily, as ORDER BY with LIMIT 1 does; `datetime.now()` is taken to be
  different for every movement (microseconds).
* Idempotency: how a request is mapped to a key (context, path, fingerprint) is
  outside the model; an answer over `IDEMPOTENCY_MAX_BODY_CACHE_KB` leaves the lock
  to expire, and afterwards the operation may be executed again.
* Tenants: `MULTITENANCY_ENABLED` is off by default (`app/config.py:123`,
  `.env.example:110`). `Registros` models both settings, because there the keys do not
  respect the tenant; the other modules model the default, in which no query filters
  and no policy applies.
* Time is counted in units in which a key of Redis may live one, two or more; only
  the order of the times to live matters to the properties, which are stated in
  terms of the constants.

## 8. What is not modelled, and the plan

Not modelled: the rate limiter (one atomic MULTI per request and a comparison);
tenants outside `Registros`; the body limit, headers,
tracing and error handlers, which hold no state; the layout of PDF and e-mail;
schemas, mappers, configuration and start-up; the alerts of the parking lot and
the statistics and exports of the audit log, which are single queries; the
content and signature of an audit row; names and passwords of users.

Planned, in this order:

1. Composition: a movilidad request behind the idempotency key, so that a retry and
   the lost updates of `Movilidad` meet.
2. `Acceso` and `Permisos` over one row of the user.
