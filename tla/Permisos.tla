------------------------------ MODULE Permisos ------------------------------
(***************************************************************************)
(* What a request may do: the permissions of a user, from the roles of the *)
(* database through the cache of Redis and the cache in memory of each     *)
(* worker, the profile that says whether the user is active, and the API   *)
(* keys that carry permissions of their own.                               *)
(*                                                                         *)
(* One user, any number of workers.  Time is relative: every cached value  *)
(* has units left to live and every request an age.  sin and inactivo      *)
(* measure how long ago the user last held a permission, or was active.    *)
(***************************************************************************)
EXTENDS Naturals, FiniteSets

CONSTANTS
    Peticiones,   \* requests that can be in progress at the same time
    Procesos,     \* the workers, each with its memory
    Roles,
    Claves,       \* permissions
    TtlRedis,     \* PERMISSIONS_CACHE_TTL
    TtlLocal,     \* PERMISSIONS_LOCAL_CACHE_TTL
    TtlPerfil,    \* USUARIO_PERFIL_CACHE_TTL
    MaxVigencia,  \* the longest life of a temporary role or of a key that expires
    MaxDuracion,  \* bound on the time a request lasts
    Nada, Siempre

ASSUME ConstantesPermisos ==
    /\ \A n \in {TtlRedis, TtlLocal, TtlPerfil, MaxVigencia, MaxDuracion} : n \in Nat \ {0}
    /\ Nada # Siempre /\ {Nada, Siempre} \cap (Nat \cup BOOLEAN) = {}
    /\ Nada \notin Peticiones /\ Roles # {}

VARIABLES
    abiertas, \* the operations of this behaviour
    base,     \* committed rows: the roles of the user, their permissions, the user
    fila,     \* for each kind of row, the request whose transaction locks it
    redis,    \* permisos_usuario and usuario_perfil, with their time left
    memoria,  \* memoria[h]: the entry of the user in _PERM_LOCAL
    llave,    \* the row of an API key of the user
    pet,      \* pet[w]: the request being served
    sin, inactivo

vars == <<abiertas, base, fila, redis, memoria, llave, pet, sin, inactivo>>

Operaciones == {"usar", "asignar", "revocar", "ampliar", "login", "estado",
                "crear_llave", "usar_llave", "revocar_llave"}

Base == [vigencia : [Roles -> {Nada, Siempre} \cup 0..MaxVigencia],
         permisos : [Roles -> SUBSET Claves], activo : BOOLEAN]

Redis == [permisos : SUBSET Claves, ttl : 0..TtlRedis,
          perfil : BOOLEAN \cup {Nada}, ttlPerfil : 0..TtlPerfil]

Memoria == [permisos : SUBSET Claves, vida : 0..TtlLocal + 1]

Llave == [activa : BOOLEAN \cup {Nada}, permisos : SUBSET Claves,
          vence : {Siempre} \cup 0..MaxVigencia] \* time left until expira_en

Filas == {"asignacion", "rol", "usuario", "llave"}

Pasos == {"libre", "memoria", "redis", "base", "guardar", "recordar", "perfil",
          "perfil_base", "perfil_guardar", "atender", "leer", "releer", "escribir",
          "propietario", "borrar", "reborrar", "borrar_perfil", "commit"}

Peticion == [op : Operaciones, paso : Pasos, h : Procesos, edad : 0..MaxDuracion,
             rol : Roles, dato : {Nada, Siempre} \cup 1..MaxVigencia \cup Claves,
             permisos : SUBSET Claves, \* of the user, or of the role, as it read them
             quita : SUBSET Claves,    \* rows of rol_permisos it deletes
             activo : BOOLEAN,         \* the user or the key, as read or to be
             escrito : BOOLEAN]        \* its COMMIT changes what is stored

\* A permission read just before it is lost is stored in Redis one request later,
\* kept there by the sadd of a second one, remembered in memory by a third and given
\* to a fourth.
CotaPermiso == 4 * MaxDuracion + (TtlRedis - 1) + TtlLocal
CotaPerfil == 2 * MaxDuracion + (TtlPerfil - 1)

Vigente(b, r) == b.vigencia[r] \notin {Nada, 0}

\* obtener_permisos_de_usuario
Tiene(b) == UNION {b.permisos[r] : r \in {s \in Roles : Vigente(b, s)}}

Libre(h) == [op |-> "usar", paso |-> "libre", h |-> h, edad |-> 0,
             rol |-> CHOOSE r \in Roles : TRUE, dato |-> Nada, permisos |-> {},
             quita |-> {}, activo |-> FALSE, escrito |-> FALSE]

RedisVacio == [permisos |-> {}, ttl |-> 0, perfil |-> Nada, ttlPerfil |-> 0]

SinLlave == [activa |-> Nada, permisos |-> {}, vence |-> Siempre]

Init ==
    /\ abiertas = Operaciones
    /\ base \in {b \in Base : b.activo}
    /\ fila = [f \in Filas |-> Nada]
    /\ redis = RedisVacio
    /\ memoria = [h \in Procesos |-> [permisos |-> {}, vida |-> 0]]
    /\ llave = SinLlave
    /\ pet \in [Peticiones -> {Libre(h) : h \in Procesos}]
    /\ sin = [c \in Claves |-> IF c \in Tiene(base) THEN 0 ELSE CotaPermiso + 1]
    /\ inactivo = 0

----------------------------------------------------------------------------
En(w, p) == pet[w].paso = p
Ops(w, ops) == pet[w].op \in ops
Pasa(w, p) == pet' = [pet EXCEPT ![w].paso = p]
Termina(w) == pet' = [pet EXCEPT ![w] = Libre(pet[w].h)]
Lee(w, p, s, a) == pet' = [pet EXCEPT ![w].paso = p, ![w].permisos = s, ![w].activo = a]

SinCaches == UNCHANGED <<redis, memoria>>
SinBase == UNCHANGED <<abiertas, base, fila, llave, sin, inactivo>>
SoloPet == SinBase /\ SinCaches

Admitir(w, a) == IF a THEN Pasa(w, "atender") ELSE Termina(w)

\* A request arrives at one of the workers.
Empezar(w, op) ==
    /\ En(w, "libre") /\ op \in abiertas
    /\ \E h \in Procesos :
       \E r \in IF op \in {"asignar", "revocar", "ampliar"} THEN Roles ELSE {Libre(h).rol} :
       \E d \in CASE op = "asignar" -> {Siempre} \cup 1..MaxVigencia
                  [] op = "ampliar" -> Claves
                  [] OTHER -> {Nada},
          a \in IF op = "estado" THEN BOOLEAN ELSE {FALSE} :
         pet' = [pet EXCEPT ![w] = [Libre(h) EXCEPT
                   !.op = op, !.rol = r, !.dato = d, !.activo = a,
                   !.paso = CASE op \in {"usar", "crear_llave"} -> "memoria"
                              [] op \in {"revocar", "login"} -> "escribir"
                              [] OTHER -> "leer"]]
    /\ SoloPet

\* Mutant: a hit of the memory renews its entry.
MirarMemoriaRenueva(w) ==
    /\ En(w, "memoria")
    /\ LET m == memoria[pet[w].h]
       IN  IF m.vida > 0
           THEN /\ pet' = [pet EXCEPT ![w].paso = "perfil", ![w].permisos = m.permisos]
                /\ memoria' = [memoria EXCEPT ![pet[w].h].vida = TtlLocal + 1]
           ELSE Pasa(w, "redis") /\ UNCHANGED memoria
    /\ SinBase /\ UNCHANGED redis

\* _perm_local_get
MirarMemoria(w) ==
    /\ En(w, "memoria")
    /\ LET m == memoria[pet[w].h]
       IN  IF m.vida > 0
           THEN pet' = [pet EXCEPT ![w].paso = "perfil", ![w].permisos = m.permisos]
           ELSE Pasa(w, "redis")
    /\ SoloPet

\* smembers of a key that is not there is the empty set.
MirarRedis(w) ==
    /\ En(w, "redis")
    /\ IF redis.permisos # {}
       THEN pet' = [pet EXCEPT ![w].paso = "recordar", ![w].permisos = redis.permisos]
       ELSE Pasa(w, "base")
    /\ SoloPet

\* A user without permissions is not cached.
LeerPermisos(w) ==
    /\ En(w, "base")
    /\ pet' = [pet EXCEPT ![w].permisos = Tiene(base),
                          ![w].paso = IF Tiene(base) = {} THEN "perfil" ELSE "guardar"]
    /\ SoloPet

\* Mutant: sadd without an expiration.
GuardarSinTtl(w) ==
    /\ En(w, "guardar")
    /\ redis' = [redis EXCEPT !.permisos = @ \cup pet[w].permisos]
    /\ Pasa(w, "recordar")
    /\ SinBase /\ UNCHANGED memoria

\* sadd adds to whatever another reader has put there, and renews its expiration.
Guardar(w) ==
    /\ En(w, "guardar")
    /\ redis' = [redis EXCEPT !.permisos = @ \cup pet[w].permisos, !.ttl = TtlRedis]
    /\ Pasa(w, "recordar")
    /\ SinBase /\ UNCHANGED memoria

\* _perm_local_set
Recordar(w) ==
    /\ En(w, "recordar")
    /\ memoria' = [memoria EXCEPT ![pet[w].h] =
                     [permisos |-> pet[w].permisos, vida |-> TtlLocal + 1]]
    /\ Pasa(w, "perfil")
    /\ SinBase /\ UNCHANGED redis

\* The entry of another user takes the place of this one (PERM_LOCAL_CACHE_MAX).
Desalojar(h) ==
    /\ memoria[h].vida > 0
    /\ memoria' = [memoria EXCEPT ![h] = [permisos |-> {}, vida |-> 0]]
    /\ SinBase /\ UNCHANGED <<redis, pet>>

MirarPerfil(w) ==
    /\ En(w, "perfil")
    /\ IF redis.perfil # Nada THEN Admitir(w, redis.perfil) ELSE Pasa(w, "perfil_base")
    /\ SoloPet

LeerPerfil(w) ==
    /\ En(w, "perfil_base")
    /\ pet' = [pet EXCEPT ![w].paso = "perfil_guardar", ![w].activo = base.activo]
    /\ SoloPet

\* Mutant: the profile is cached as if it were active.
GuardarPerfilActivo(w) ==
    /\ En(w, "perfil_guardar")
    /\ redis' = [redis EXCEPT !.perfil = TRUE, !.ttlPerfil = TtlPerfil]
    /\ Admitir(w, pet[w].activo)
    /\ SinBase /\ UNCHANGED memoria

GuardarPerfil(w) ==
    /\ En(w, "perfil_guardar")
    /\ redis' = [redis EXCEPT !.perfil = pet[w].activo, !.ttlPerfil = TtlPerfil]
    /\ Admitir(w, pet[w].activo)
    /\ SinBase /\ UNCHANGED memoria

\* The handler of the endpoint, with the permissions it was given.
Atender(w) ==
    /\ En(w, "atender") /\ Ops(w, {"usar", "usar_llave"})
    /\ Termina(w)
    /\ SoloPet

LlaveNueva(s, v) == [activa |-> TRUE, permisos |-> s, vence |-> v]

\* A key gets some of the permissions its owner was given.
CrearLlave(w) ==
    /\ En(w, "atender") /\ Ops(w, {"crear_llave"})
    /\ IF llave.activa = Nada
       THEN \E s \in SUBSET pet[w].permisos, v \in {Siempre} \cup 0..MaxVigencia :
              llave' = LlaveNueva(s, v)
       ELSE UNCHANGED llave
    /\ Termina(w)
    /\ SinCaches /\ UNCHANGED <<abiertas, base, fila, sin, inactivo>>

\* What an operation reads before it writes, and what it refuses then.
LeerAsignacion(w) ==
    /\ En(w, "leer") /\ Ops(w, {"asignar"})
    /\ IF Vigente(base, pet[w].rol) THEN Termina(w) ELSE Pasa(w, "escribir")
    /\ SoloPet

LeerRol(w) ==
    /\ En(w, "leer") /\ Ops(w, {"ampliar"})
    /\ Lee(w, "releer", base.permisos[pet[w].rol] \cup {pet[w].dato}, FALSE)
    /\ SoloPet

LeerUsuario(w) ==
    /\ En(w, "leer") /\ Ops(w, {"estado"})
    /\ IF base.activo = pet[w].activo THEN Termina(w) ELSE Pasa(w, "escribir")
    /\ SoloPet

\* buscar_por_prefix finds only active keys, and an expired one is refused.
SinUso == llave.activa = FALSE \/ llave.vence = 0

\* Mutant: revoking a key toggles it.
LeerLlaveAlterna(w) ==
    /\ En(w, "leer") /\ Ops(w, {"usar_llave", "revocar_llave"})
    /\ IF llave.activa = Nada \/ (Ops(w, {"usar_llave"}) /\ SinUso)
       THEN Termina(w)
       ELSE \E p \in IF Ops(w, {"usar_llave"}) THEN {"propietario", "releer"} ELSE {"releer"} :
              Lee(w, p, llave.permisos, IF Ops(w, {"usar_llave"}) THEN TRUE ELSE ~llave.activa)
    /\ SoloPet

\* A use recorded not long ago is not recorded again.
LeerLlave(w) ==
    /\ En(w, "leer") /\ Ops(w, {"usar_llave", "revocar_llave"})
    /\ IF llave.activa = Nada \/ (Ops(w, {"usar_llave"}) /\ SinUso)
       THEN Termina(w)
       ELSE \E p \in IF Ops(w, {"usar_llave"}) THEN {"propietario", "releer"} ELSE {"releer"} :
              Lee(w, p, llave.permisos, Ops(w, {"usar_llave"}))
    /\ SoloPet

\* Mutant: the permissions it did not read stay out of the second SELECT.
ReleerSinOlvido(w) ==
    /\ En(w, "releer")
    /\ pet' = [pet EXCEPT ![w].paso = "escribir", ![w].escrito = TRUE,
                 ![w].quita = base.permisos[pet[w].rol],
                 ![w].permisos = pet[w].permisos \ base.permisos[pet[w].rol]]
    /\ SoloPet

\* The second SELECT of actualizar: the rows of the role become what the entity
\* says, and the column of the key is in the UPDATE only if it differs.
Releer(w) ==
    /\ En(w, "releer")
    /\ LET hay == base.permisos[pet[w].rol]
       IN  pet' = [pet EXCEPT ![w].paso = "escribir",
             ![w].quita = IF Ops(w, {"ampliar"}) THEN hay \ pet[w].permisos ELSE {},
             ![w].permisos = IF Ops(w, {"ampliar"}) THEN @ \ hay ELSE @,
             ![w].escrito = Ops(w, {"ampliar"}) \/ llave.activa # pet[w].activo]
    /\ SoloPet

Recurso(w) == CASE Ops(w, {"asignar", "revocar"}) -> "asignacion"
                [] Ops(w, {"ampliar"}) -> "rol"
                [] Ops(w, {"login", "estado"}) -> "usuario"
                [] OTHER -> "llave"

Bloquea(w) == fila[Recurso(w)] = Nada /\ fila' = [fila EXCEPT ![Recurso(w)] = w]
SoloFila == SinCaches /\ UNCHANGED <<abiertas, base, llave, sin, inactivo>>

\* INSERT behind UNIQUE (usuario_id, rol_id): an expired row is in the way too.
Asignar(w) ==
    /\ En(w, "escribir") /\ Ops(w, {"asignar"})
    /\ IF base.vigencia[pet[w].rol] # Nada /\ fila["asignacion"] = Nada
       THEN Termina(w) /\ UNCHANGED fila
       ELSE Bloquea(w) /\ pet' = [pet EXCEPT ![w].paso = "borrar", ![w].escrito = TRUE]
    /\ SoloFila

\* DELETE of the assignment, if there is one.
Revocar(w) ==
    /\ En(w, "escribir") /\ Ops(w, {"revocar"})
    /\ IF base.vigencia[pet[w].rol] = Nada
       THEN Pasa(w, "borrar") /\ UNCHANGED fila
       ELSE Bloquea(w) /\ pet' = [pet EXCEPT ![w].paso = "borrar", ![w].escrito = TRUE]
    /\ SoloFila

\* INSERT and DELETE of rows of rol_permisos: they fail if another inserted or
\* deleted the same rows meanwhile.
Ampliar(w) ==
    /\ En(w, "escribir") /\ Ops(w, {"ampliar"})
    /\ LET hay == base.permisos[pet[w].rol]
       IN  IF pet[w].permisos \cap hay = {} /\ pet[w].quita \subseteq hay
           THEN Bloquea(w) /\ Pasa(w, "commit")
           ELSE fila["rol"] = Nada /\ Termina(w) /\ UNCHANGED fila
    /\ SoloFila

\* The UPDATE of the user by a login or a change of state, or of the key.
Escribir(w) ==
    /\ En(w, "escribir") /\ Ops(w, {"login", "estado", "usar_llave", "revocar_llave"})
    /\ Bloquea(w)
    /\ pet' = [pet EXCEPT ![w].paso = CASE Ops(w, {"login"}) -> "borrar"
                                         [] Ops(w, {"usar_llave"}) -> "propietario"
                                         [] OTHER -> "commit",
                          ![w].escrito = @ \/ Ops(w, {"estado"})]
    /\ SoloFila

Suelta(w) == [f \in Filas |-> IF fila[f] = w THEN Nada ELSE fila[f]]

\* The owner of a key has to be active: otherwise its use rolls back.
LeerPropietario(w) ==
    /\ En(w, "propietario")
    /\ IF base.activo
       THEN Pasa(w, IF fila["llave"] = w THEN "commit" ELSE "atender") /\ UNCHANGED fila
       ELSE Termina(w) /\ fila' = Suelta(w)
    /\ SoloFila

\* The invalidation of the permissions, twice, and of the profile, before COMMIT;
\* login invalidates the permissions once.
Borrar(w) ==
    /\ \/ /\ En(w, "borrar") /\ redis' = [redis EXCEPT !.permisos = {}, !.ttl = 0]
          /\ Pasa(w, IF Ops(w, {"login"}) THEN "commit" ELSE "reborrar")
       \/ /\ En(w, "reborrar") /\ redis' = [redis EXCEPT !.permisos = {}, !.ttl = 0]
          /\ Pasa(w, "borrar_perfil")
       \/ /\ En(w, "borrar_perfil") /\ redis' = [redis EXCEPT !.perfil = Nada, !.ttlPerfil = 0]
          /\ Pasa(w, "commit")
    /\ SinBase /\ UNCHANGED memoria

Asentada(w) ==
    IF ~pet[w].escrito THEN base
    ELSE CASE pet[w].op = "asignar" -> [base EXCEPT !.vigencia[pet[w].rol] = pet[w].dato]
           [] pet[w].op = "revocar" -> [base EXCEPT !.vigencia[pet[w].rol] = Nada]
           [] pet[w].op = "ampliar" ->
                [base EXCEPT !.permisos[pet[w].rol] = (@ \ pet[w].quita) \cup pet[w].permisos]
           [] pet[w].op = "estado" -> [base EXCEPT !.activo = pet[w].activo]
           [] OTHER -> base

LlaveAsentada(w) ==
    IF pet[w].escrito /\ Ops(w, {"usar_llave", "revocar_llave"})
    THEN [llave EXCEPT !.activa = pet[w].activo] ELSE llave

\* COMMIT.  A key answers with its permissions; the rest of the requests end.
Commit(w) ==
    /\ En(w, "commit")
    /\ base' = Asentada(w)
    /\ llave' = LlaveAsentada(w)
    /\ fila' = Suelta(w)
    /\ Termina(w)
    /\ sin' = [c \in Claves |-> IF c \in Tiene(base') THEN 0 ELSE sin[c]]
    /\ inactivo' = IF base'.activo THEN 0 ELSE inactivo
    /\ SinCaches /\ UNCHANGED abiertas

\* The request dies: its transaction rolls back, what Redis was told stays.
Caer(w) ==
    /\ ~En(w, "libre")
    /\ Termina(w)
    /\ fila' = Suelta(w)
    /\ SinCaches /\ UNCHANGED <<abiertas, base, llave, sin, inactivo>>

Menos(n) == IF n = 0 THEN 0 ELSE n - 1
Mas(n, tope) == IF n > tope THEN n ELSE n + 1

\* A unit of time.  No request outlives MaxDuracion.
Tic ==
    /\ \A w \in Peticiones : En(w, "libre") \/ pet[w].edad < MaxDuracion
    /\ base' = [base EXCEPT !.vigencia =
                  [r \in Roles |-> IF @[r] \in Nat THEN Menos(@[r]) ELSE @[r]]]
    /\ redis' = [permisos |-> IF redis.ttl = 1 THEN {} ELSE redis.permisos,
                 ttl |-> Menos(redis.ttl),
                 perfil |-> IF redis.ttlPerfil = 1 THEN Nada ELSE redis.perfil,
                 ttlPerfil |-> Menos(redis.ttlPerfil)]
    /\ memoria' = [h \in Procesos |->
                     [permisos |-> IF memoria[h].vida = 1 THEN {} ELSE memoria[h].permisos,
                      vida |-> Menos(memoria[h].vida)]]
    /\ pet' = [w \in Peticiones |->
                 IF En(w, "libre") THEN pet[w] ELSE [pet[w] EXCEPT !.edad = @ + 1]]
    /\ sin' = [c \in Claves |-> IF c \in Tiene(base') THEN 0 ELSE Mas(sin[c], CotaPermiso)]
    /\ inactivo' = IF base.activo THEN 0 ELSE Mas(inactivo, CotaPerfil)
    /\ llave' = [llave EXCEPT !.vence = IF @ = Siempre THEN @ ELSE Menos(@)]
    /\ UNCHANGED <<abiertas, fila>>

Toma(w) == Asignar(w) \/ Revocar(w) \/ Ampliar(w) \/ Escribir(w)

Sigue(w) ==
    \/ MirarMemoria(w) \/ MirarRedis(w) \/ LeerPermisos(w) \/ Guardar(w) \/ Recordar(w)
    \/ MirarPerfil(w) \/ LeerPerfil(w) \/ GuardarPerfil(w) \/ Atender(w) \/ CrearLlave(w)
    \/ LeerAsignacion(w) \/ LeerRol(w) \/ LeerUsuario(w) \/ LeerLlave(w) \/ Releer(w)
    \/ LeerPropietario(w) \/ Toma(w) \/ Borrar(w) \/ Commit(w)

Next ==
    \/ \E w \in Peticiones :
         (\E op \in Operaciones : Empezar(w, op)) \/ Sigue(w) \/ Caer(w)
    \/ \E h \in Procesos : Desalojar(h)
    \/ Tic

\* The event loop takes every request to its end, PostgreSQL gives its locks in the
\* order they were asked for, and time passes.
Equidad ==
    /\ WF_vars(Tic)
    /\ \A w \in Peticiones : WF_vars(Sigue(w)) /\ SF_vars(Toma(w))

Spec == Init /\ [][Next]_vars /\ Equidad

----------------------------------------------------------------------------
(* Properties *)

TypeOK ==
    /\ abiertas \subseteq Operaciones
    /\ base \in Base /\ redis \in Redis /\ llave \in Llave
    /\ memoria \in [Procesos -> Memoria]
    /\ fila \in [Filas -> Peticiones \cup {Nada}]
    /\ pet \in [Peticiones -> Peticion]
    /\ redis.permisos # {} <=> redis.ttl > 0
    /\ redis.perfil # Nada <=> redis.ttlPerfil > 0
    /\ \A h \in Procesos : memoria[h].permisos # {} <=> memoria[h].vida > 0
    /\ \A f \in Filas : fila[f] # Nada =>
         pet[fila[f]].paso \in {"propietario", "borrar", "reborrar", "borrar_perfil", "commit"}

\* Whatever reads, fills and invalidations overlap, a user who is let in with a
\* permission held it at most CotaPermiso units of time ago.
ObsolescenciaAcotada ==
    \A w \in Peticiones :
        En(w, "atender") /\ Ops(w, {"usar", "crear_llave"})
          => \A c \in pet[w].permisos : sin[c] <= CotaPermiso

\* A user who is let in was active at most CotaPerfil units of time ago.
AdmisionAcotada ==
    \A w \in Peticiones :
        En(w, "atender") /\ Ops(w, {"usar", "crear_llave"}) => inactivo <= CotaPerfil

\* The change of the role that w is making is going to leave out the permission: it read
\* the role before the permission was there, and reads it again after.
Omite(w, r, c) ==
    /\ Ops(w, {"ampliar"}) /\ pet[w].rol = r
    /\ \/ En(w, "releer") /\ c \notin pet[w].permisos
       \/ pet[w].paso \in {"escribir", "commit"} /\ c \in pet[w].quita

Firme(r, c) == c \in base.permisos[r] /\ \A w \in Peticiones : ~Omite(w, r, c)

\* A permission added to a role can be undone only by the additions under way at that
\* moment: once they have ended it is there for good, whatever others add and overlap.
RolSoloCrece ==
    [][\A r \in Roles, c \in Claves : Firme(r, c) => Firme(r, c)']_vars

\* A request that uses the key and read it before.
Usandola(w) ==
    /\ Ops(w, {"usar_llave"})
    /\ pet[w].paso \in {"propietario", "releer", "escribir", "commit", "atender"}

Muerta == llave.activa = FALSE /\ \A w \in Peticiones : ~Usandola(w)

\* A use that overlaps the revocation may undo it.  When those uses have ended nothing
\* revives a revoked key: nobody is served with it again.
LlaveNoRevive == [][Muerta => Muerta']_vars

\* A permission the user has lost for good is, in the end, given to nobody.
RevocacionVisible ==
    \A c \in Claves :
        <>[](c \notin Tiene(base)) =>
            <>[](\A w \in Peticiones :
                   En(w, "atender") /\ Ops(w, {"usar"}) => c \notin pet[w].permisos)
=============================================================================
