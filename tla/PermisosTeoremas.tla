--------------------------- MODULE PermisosTeoremas ---------------------------
(* What Permisos guarantees for any number of requests, workers, roles and
   permissions, and for any lifetimes of the caches. *)
EXTENDS Permisos, TLAPS

----------------------------------------------------------------------------
(* The inductive invariant *)

Formas == /\ TypeOK
          /\ sin \in [Claves -> Nat] /\ inactivo \in Nat

\* What the user has is recent: there is nothing older to count.
Sabe == /\ \A c \in Tiene(base) : sin[c] = 0
        /\ base.activo => inactivo = 0

\* How old what Redis and a memory hold may be, by the time they keep it still.
EnRedis == /\ \A c \in redis.permisos :
                sin[c] <= 2 * MaxDuracion + (TtlRedis - redis.ttl)
           /\ redis.perfil = TRUE => inactivo <= MaxDuracion + (TtlPerfil - redis.ttlPerfil)

EdadRedis == 2 * MaxDuracion + (TtlRedis - 1)
EdadMemoria == EdadRedis + MaxDuracion + TtlLocal
EnMemoria == \A h \in Procesos : \A c \in memoria[h].permisos :
                sin[c] <= EdadRedis + MaxDuracion + (TtlLocal + 1 - memoria[h].vida)

\* How old what a request of the user has read may be.
Reciente(w, n) == \A c \in pet[w].permisos : sin[c] <= n + pet[w].edad

Lector(w) ==
    \* It found Redis empty: what others put there since is hardly older than itself.
    /\ pet[w].paso \in {"base", "guardar"} =>
         \A c \in redis.permisos : sin[c] <= pet[w].edad + MaxDuracion
    /\ En(w, "guardar") => pet[w].permisos # {} /\ Reciente(w, 0)
    /\ En(w, "recordar") => pet[w].permisos # {} /\ Reciente(w, EdadRedis)
    /\ pet[w].paso \in {"perfil", "perfil_base", "perfil_guardar"} => Reciente(w, EdadMemoria)
    /\ En(w, "perfil_guardar") /\ pet[w].activo => inactivo <= pet[w].edad
    /\ En(w, "atender") /\ Ops(w, {"usar", "crear_llave"}) =>
         /\ Reciente(w, EdadMemoria)
         /\ inactivo <= MaxDuracion + (TtlPerfil - 1) + pet[w].edad

Retienen == {"propietario", "borrar", "reborrar", "borrar_perfil", "commit"}

\* What a request that writes holds, and what it is going to write.
Escritor(w) ==
    /\ Ops(w, {"asignar"}) => pet[w].dato \in {Siempre} \cup 1..MaxVigencia
    /\ Ops(w, {"ampliar"}) => pet[w].dato \in Claves
    /\ En(w, "propietario") => Ops(w, {"usar_llave"})
    /\ pet[w].paso \in {"borrar", "reborrar", "borrar_perfil"} =>
         Ops(w, {"asignar", "revocar", "login"})
    /\ En(w, "commit") /\ Ops(w, {"usar_llave", "revocar_llave"}) => fila["llave"] = w
    /\ \A f \in Filas : fila[f] = w => f = Recurso(w) /\ pet[w].paso \in Retienen
    /\ Ops(w, {"revocar_llave"}) /\ pet[w].paso \in {"releer", "escribir", "commit"} =>
         ~pet[w].activo

IInv == /\ Formas /\ Sabe /\ EnRedis /\ EnMemoria
        /\ \A w \in Peticiones : Lector(w) /\ Escritor(w)

----------------------------------------------------------------------------
(* Facts about the definitions *)

\* What the proofs need of the constants, one fact after another.
LEMMA Constantes ==
    /\ TtlRedis \in Nat /\ TtlRedis >= 1 /\ TtlLocal \in Nat /\ TtlLocal >= 1
    /\ TtlPerfil \in Nat /\ TtlPerfil >= 1 /\ MaxVigencia \in Nat /\ MaxVigencia >= 1
    /\ MaxDuracion \in Nat /\ MaxDuracion >= 1
    /\ Nada # Siempre /\ Nada \notin Nat /\ Siempre \notin Nat
    /\ Nada \notin BOOLEAN /\ Nada \notin Peticiones /\ Roles # {}
BY ConstantesPermisos

\* The ages are numbers.
LEMMA Cotas ==
    /\ EdadRedis \in Nat /\ EdadMemoria \in Nat
    /\ EdadMemoria = EdadRedis + MaxDuracion + TtlLocal
    /\ CotaPermiso = EdadMemoria + MaxDuracion /\ CotaPerfil = 2 * MaxDuracion + (TtlPerfil - 1)
    /\ CotaPermiso \in Nat /\ CotaPerfil \in Nat
BY Constantes DEF EdadRedis, EdadMemoria, CotaPermiso, CotaPerfil

\* A request that has ended is a request, and none of the others.
LEMMA LibreTipo ==
    ASSUME NEW h \in Procesos
    PROVE  /\ Libre(h) \in Peticion /\ Libre(h).paso = "libre" /\ Libre(h).op = "usar"
           /\ Libre(h).h = h
<1>1. (CHOOSE r \in Roles : TRUE) \in Roles /\ 0 \in 0..MaxDuracion
  BY Constantes
<1>2. QED
  BY <1>1 DEF Libre, Peticion, Operaciones, Pasos

\* The permissions of a user are permissions.
LEMMA TieneTipo == \A b \in Base : Tiene(b) \subseteq Claves
BY DEF Tiene, Base

\* What a request that ends holds is given back, and nothing else.
LEMMA SueltaTipo ==
    ASSUME fila \in [Filas -> Peticiones \cup {Nada}], NEW w \in Peticiones
    PROVE  /\ Suelta(w) \in [Filas -> Peticiones \cup {Nada}]
           /\ \A f \in Filas : Suelta(w)[f] # w
           /\ \A v \in Peticiones \ {w} : \A f \in Filas : Suelta(w)[f] = v <=> fila[f] = v
BY Constantes DEF Suelta

----------------------------------------------------------------------------
(* The initial states *)

\* The invariant holds before the first request.
LEMMA InitInv == Init => IInv
<1> SUFFICES ASSUME Init PROVE IInv
  OBVIOUS
<1>1. \A w \in Peticiones : pet[w] \in Peticion /\ pet[w].paso = "libre" /\ pet[w].op = "usar"
  BY LibreTipo DEF Init
<1>2. pet \in [Peticiones -> Peticion]
  BY <1>1 DEF Init
<1>3. /\ redis \in Redis /\ redis.permisos = {} /\ redis.ttl = 0 /\ redis.perfil = Nada
      /\ redis.ttlPerfil = 0
  BY Constantes DEF Init, RedisVacio, Redis
<1>4. memoria \in [Procesos -> Memoria] /\ \A h \in Procesos : memoria[h].permisos = {} /\ memoria[h].vida = 0
  <2>1. [permisos |-> {}, vida |-> 0] \in Memoria
    BY Constantes DEF Memoria
  <2>2. QED
    BY <2>1 DEF Init
<1>5. llave \in Llave /\ base \in Base /\ fila \in [Filas -> Peticiones \cup {Nada}]
  BY DEF Init, SinLlave, Llave
<1>6. TypeOK
  BY <1>2, <1>3, <1>4, <1>5 DEF TypeOK, Init
<1>7. Formas /\ Sabe
  <2>1. CotaPermiso + 1 \in Nat /\ 0 \in Nat
    BY Cotas
  <2>2. sin \in [Claves -> Nat]
    BY <2>1 DEF Init
  <2>3. Tiene(base) \subseteq Claves
    BY <1>5, TieneTipo
  <2>4. QED
    BY <1>6, <2>2, <2>3 DEF Formas, Sabe, Init
<1>8. EnRedis /\ EnMemoria
  BY <1>3, <1>4, Constantes DEF EnRedis, EnMemoria
<1>9. ASSUME NEW w \in Peticiones PROVE Lector(w) /\ Escritor(w)
  <2>1. \A f \in Filas : fila[f] # w
    BY Constantes DEF Init
  <2>2. QED
    BY <1>1, <2>1 DEF Lector, Escritor, En, Ops
<1>10. QED
  BY <1>7, <1>8, <1>9 DEF IInv

----------------------------------------------------------------------------
(* Steps of one request that commit nothing *)

SinCommit == UNCHANGED <<abiertas, base, llave, sin, inactivo>>

Cachadas ==
    /\ redis \in Redis /\ memoria \in [Procesos -> Memoria]
    /\ redis.permisos # {} <=> redis.ttl > 0
    /\ redis.perfil # Nada <=> redis.ttlPerfil > 0
    /\ \A h \in Procesos : memoria[h].permisos # {} <=> memoria[h].vida > 0

\* A step of one request matters to another only by what it puts in Redis.
LEMMA PasoPropio ==
    ASSUME IInv, NEW w \in Peticiones, NEW q \in Peticion, pet' = [pet EXCEPT ![w] = q],
           SinCommit, Cachadas', fila' \in [Filas -> Peticiones \cup {Nada}],
           EnRedis', EnMemoria', Lector(w)', Escritor(w)',
           \A v \in Peticiones \ {w} : \A f \in Filas : fila'[f] = v <=> fila[f] = v,
           \A v \in Peticiones \ {w} : pet[v].paso \in {"base", "guardar"} =>
               \A c \in redis'.permisos : sin[c] <= pet[v].edad + MaxDuracion
    PROVE  IInv'
<1>1. pet' \in [Peticiones -> Peticion]
  BY DEF IInv, Formas, TypeOK
<1>2. ASSUME NEW v \in Peticiones, v # w PROVE Lector(v)' /\ Escritor(v)'
  <2>1. pet'[v] = pet[v] /\ Lector(v) /\ Escritor(v)
    BY <1>2 DEF IInv, Formas, TypeOK
  <2>2. Lector(v)'
    BY <1>2, <2>1 DEF Lector, En, Ops, Reciente, SinCommit
  <2>3. Recurso(v)' = Recurso(v) /\ "llave" \in Filas
    BY <2>1 DEF Recurso, Ops, Filas
  <2>4. Escritor(v)'
    BY <1>2, <2>1, <2>3 DEF Escritor, En, Ops, SinCommit
  <2>5. QED
    BY <2>2, <2>4
<1>3. \A v \in Peticiones : Lector(v)' /\ Escritor(v)'
  BY <1>2
<1>4. TypeOK'
  <2>1. \A f \in Filas : fila'[f] # Nada => pet'[fila'[f]].paso \in Retienen
    BY <1>3 DEF Escritor
  <2>2. QED
    BY <1>1, <2>1 DEF TypeOK, Cachadas, Retienen, IInv, Formas, SinCommit
<1>5. Formas' /\ Sabe'
  BY <1>4 DEF Formas, Sabe, SinCommit, IInv
<1>6. QED
  BY <1>3, <1>5 DEF IInv

\* The types of the caches, apart.
LEMMA CachadasAhora == IInv => Cachadas /\ fila \in [Filas -> Peticiones \cup {Nada}]
BY DEF IInv, Formas, TypeOK, Cachadas

\* A step that changes only the request, and perhaps what it holds.
LEMMA PasoPet ==
    ASSUME IInv, NEW w \in Peticiones, NEW q \in Peticion, pet' = [pet EXCEPT ![w] = q],
           SinCommit, SinCaches, fila' \in [Filas -> Peticiones \cup {Nada}],
           Lector(w)', Escritor(w)',
           \A v \in Peticiones \ {w} : \A f \in Filas : fila'[f] = v <=> fila[f] = v
    PROVE  IInv'
<1>1. Cachadas' /\ EnRedis' /\ EnMemoria'
  BY CachadasAhora DEF Cachadas, SinCaches, IInv, EnRedis, EnMemoria, SinCommit
<1>2. \A v \in Peticiones \ {w} : pet[v].paso \in {"base", "guardar"} =>
               \A c \in redis'.permisos : sin[c] <= pet[v].edad + MaxDuracion
  BY DEF IInv, Lector, SinCaches
<1>3. QED
  BY <1>1, <1>2, PasoPropio

\* A request that does not write holds nothing.
LEMMA NadaTiene ==
    ASSUME IInv, NEW w \in Peticiones, pet[w].paso \notin Retienen
    PROVE  \A f \in Filas : fila[f] # w
BY DEF IInv, Escritor

\* The steps of a request that reads ask nothing of those that write.
LEMMA LectorNoEscribe ==
    ASSUME IInv, NEW w \in Peticiones, pet[w].paso \notin Retienen, fila' = fila,
           (pet'[w].op = pet[w].op /\ pet'[w].dato = pet[w].dato) \/ pet'[w].op = "usar",
           pet'[w].paso \notin Retienen \cup {"releer", "escribir"}
    PROVE  Escritor(w)'
<1>1. \A f \in Filas : fila'[f] # w
  BY NadaTiene
<1>2. Escritor(w)
  BY DEF IInv
<1>3. (Ops(w, {"asignar"}) => pet[w].dato \in {Siempre} \cup 1..MaxVigencia)'
  BY <1>2 DEF Escritor, Ops
<1>4. (Ops(w, {"ampliar"}) => pet[w].dato \in Claves)'
  BY <1>2 DEF Escritor, Ops
<1>5. QED
  BY <1>1, <1>3, <1>4 DEF Escritor, En, Retienen

\* A request ends, and gives back what it held.
LEMMA PasoTermina ==
    ASSUME IInv, NEW w \in Peticiones, Termina(w), SinCommit, SinCaches,
           fila' = Suelta(w) \/ (fila' = fila /\ pet[w].paso \notin Retienen)
    PROVE  IInv'
<1> DEFINE q == Libre(pet[w].h)
<1>1. pet[w].h \in Procesos /\ fila \in [Filas -> Peticiones \cup {Nada}] /\ pet \in [Peticiones -> Peticion]
  BY DEF IInv, Formas, TypeOK, Peticion
<1>2. q \in Peticion /\ q.paso = "libre" /\ q.op = "usar"
  BY <1>1, LibreTipo
<1>3. pet' = [pet EXCEPT ![w] = q] /\ pet'[w] = q
  BY <1>1 DEF Termina
<1> HIDE DEF q
<1>4. /\ fila' \in [Filas -> Peticiones \cup {Nada}] /\ \A f \in Filas : fila'[f] # w
      /\ \A v \in Peticiones \ {w} : \A f \in Filas : fila'[f] = v <=> fila[f] = v
  BY <1>1, SueltaTipo, NadaTiene
<1>5. Lector(w)' /\ Escritor(w)'
  BY <1>2, <1>3, <1>4 DEF Lector, Escritor, En, Ops
<1>6. QED
  BY <1>2, <1>3, <1>4, <1>5, PasoPet

----------------------------------------------------------------------------
(* The requests that read permissions *)

\* A request begins: it has read nothing and holds nothing.
LEMMA PasoEmpezar ==
    ASSUME IInv, NEW w \in Peticiones, NEW op \in Operaciones, Empezar(w, op)
    PROVE  IInv'
<1>0. PICK h \in Procesos :
       \E r \in IF op \in {"asignar", "revocar", "ampliar"} THEN Roles ELSE {Libre(h).rol} :
       \E d \in CASE op = "asignar" -> {Siempre} \cup 1..MaxVigencia
                  [] op = "ampliar" -> Claves
                  [] OTHER -> {Nada},
          a \in IF op = "estado" THEN BOOLEAN ELSE {FALSE} :
         pet' = [pet EXCEPT ![w] = [Libre(h) EXCEPT
                   !.op = op, !.rol = r, !.dato = d, !.activo = a,
                   !.paso = CASE op \in {"usar", "crear_llave"} -> "memoria"
                              [] op \in {"revocar", "login"} -> "escribir"
                              [] OTHER -> "leer"]]
  BY DEF Empezar
<1>1. PICK r \in IF op \in {"asignar", "revocar", "ampliar"} THEN Roles ELSE {Libre(h).rol},
           d \in CASE op = "asignar" -> {Siempre} \cup 1..MaxVigencia
                  [] op = "ampliar" -> Claves
                  [] OTHER -> {Nada},
           a \in IF op = "estado" THEN BOOLEAN ELSE {FALSE} :
         pet' = [pet EXCEPT ![w] = [Libre(h) EXCEPT
                   !.op = op, !.rol = r, !.dato = d, !.activo = a,
                   !.paso = CASE op \in {"usar", "crear_llave"} -> "memoria"
                              [] op \in {"revocar", "login"} -> "escribir"
                              [] OTHER -> "leer"]]
  BY <1>0
<1> DEFINE p == CASE op \in {"usar", "crear_llave"} -> "memoria"
                  [] op \in {"revocar", "login"} -> "escribir"
                  [] OTHER -> "leer"
           q == [Libre(h) EXCEPT !.op = op, !.rol = r, !.dato = d, !.activo = a, !.paso = p]
<1>2. /\ p \in {"memoria", "escribir", "leer"} /\ p \in Pasos
      /\ p = "escribir" => op \in {"revocar", "login"}
  BY DEF Pasos
<1>3. Libre(h) \in Peticion
  BY LibreTipo
<1>4. r \in Roles /\ a \in BOOLEAN
  BY <1>3 DEF Peticion
<1>5. /\ op = "asignar" => d \in {Siempre} \cup 1..MaxVigencia
      /\ op = "ampliar" => d \in Claves
      /\ d \in {Nada, Siempre} \cup 1..MaxVigencia \cup Claves
  <2>1. CASE op = "asignar"
    BY <2>1
  <2>2. CASE op = "ampliar"
    BY <2>2
  <2>3. CASE op \notin {"asignar", "ampliar"}
    BY <2>3
  <2>4. QED
    BY <2>1, <2>2, <2>3
<1> HIDE DEF p
<1>6. /\ q \in Peticion /\ q.op = op /\ q.paso = p /\ q.dato = d
  BY <1>2, <1>3, <1>4, <1>5 DEF Peticion
<1>7. pet' = [pet EXCEPT ![w] = q] /\ pet'[w] = q
  BY <1>1 DEF p, IInv, Formas, TypeOK
<1> HIDE DEF q
<1>8. pet[w].paso \notin Retienen /\ fila' = fila /\ SinCommit /\ SinCaches
  BY DEF Empezar, En, Retienen, SoloPet, SinBase, SinCommit
<1>9. \A f \in Filas : fila[f] # w
  BY <1>8, NadaTiene
<1>10. Lector(w)' /\ Escritor(w)'
  BY <1>2, <1>5, <1>6, <1>7, <1>8, <1>9 DEF Lector, Escritor, En, Ops
<1>11. fila' \in [Filas -> Peticiones \cup {Nada}]
  BY <1>8, CachadasAhora
<1>12. QED
  BY <1>6, <1>7, <1>8, <1>10, <1>11, PasoPet

\* A step that only moves a request that reads: what it may have read, and that the
\* rest of the caches is as it was.
LEMMA PasoLector ==
    ASSUME IInv, NEW w \in Peticiones, NEW q \in Peticion, pet' = [pet EXCEPT ![w] = q],
           SoloPet, pet[w].paso \notin Retienen, q.op = pet[w].op, q.dato = pet[w].dato,
           q.paso \notin Retienen \cup {"releer", "escribir"}, Lector(w)'
    PROVE  IInv'
<1>1. pet'[w] = q /\ fila' = fila /\ SinCommit /\ SinCaches
  BY DEF IInv, Formas, TypeOK, SoloPet, SinBase, SinCommit
<1>2. Escritor(w)'
  BY <1>1, LectorNoEscribe
<1>3. fila' \in [Filas -> Peticiones \cup {Nada}]
  BY <1>1, CachadasAhora
<1>4. QED
  BY <1>1, <1>2, <1>3, PasoPet

\* What the memory holds is as old as its age says.
LEMMA PasoMirarMemoria ==
    ASSUME IInv, NEW w \in Peticiones, MirarMemoria(w)
    PROVE  IInv'
<1> DEFINE m == memoria[pet[w].h]
<1>1. /\ pet[w] \in Peticion /\ pet \in [Peticiones -> Peticion] /\ pet[w].paso = "memoria"
      /\ pet[w].h \in Procesos /\ m \in Memoria /\ SoloPet /\ pet[w].edad \in Nat
  BY DEF IInv, Formas, TypeOK, Peticion, MirarMemoria, En
<1>2. UNCHANGED <<redis, sin, inactivo>>
  BY <1>1 DEF SoloPet, SinBase, SinCaches
<1>3. CASE m.vida > 0
  <2> DEFINE q == [pet[w] EXCEPT !.paso = "perfil", !.permisos = m.permisos]
  <2>1. q \in Peticion /\ q.paso = "perfil" /\ q.permisos = m.permisos /\ q.edad = pet[w].edad
        /\ q.op = pet[w].op /\ q.dato = pet[w].dato
    BY <1>1 DEF Peticion, Pasos, Memoria
  <2>2. pet' = [pet EXCEPT ![w] = q]
    BY <1>1, <1>3 DEF MirarMemoria
  <2> HIDE DEF q
  <2>3. pet'[w] = q
    BY <1>1, <2>2
  <2>4. ASSUME NEW c \in m.permisos PROVE sin[c] <= EdadMemoria + pet[w].edad
    <3>1. sin[c] <= EdadRedis + MaxDuracion + (TtlLocal + 1 - m.vida)
      BY <1>1 DEF IInv, EnMemoria
    <3>2. sin[c] \in Nat /\ m.vida \in Nat /\ m.vida >= 1
      BY <1>1, <1>3, Constantes DEF IInv, Formas, Memoria
    <3>3. QED
      BY <1>1, <3>1, <3>2, Cotas, Constantes
  <2>5. Lector(w)'
    BY <1>2, <2>1, <2>3, <2>4 DEF Lector, En, Reciente
  <2>6. QED
    BY <1>1, <2>1, <2>2, <2>5, PasoLector DEF Retienen
<1>4. CASE ~(m.vida > 0)
  <2> DEFINE q == [pet[w] EXCEPT !.paso = "redis"]
  <2>1. q \in Peticion /\ q.paso = "redis" /\ q.op = pet[w].op /\ q.dato = pet[w].dato
    BY <1>1 DEF Peticion, Pasos
  <2>2. pet' = [pet EXCEPT ![w] = q]
    BY <1>1, <1>4 DEF MirarMemoria, Pasa
  <2> HIDE DEF q
  <2>3. Lector(w)'
    BY <1>1, <2>1, <2>2 DEF Lector, En
  <2>4. QED
    BY <1>1, <2>1, <2>2, <2>3, PasoLector DEF Retienen
<1>5. QED
  BY <1>3, <1>4

\* What Redis holds is as old as its time left says; a request that finds it empty
\* reads what nobody has stored before.
LEMMA PasoMirarRedis ==
    ASSUME IInv, NEW w \in Peticiones, MirarRedis(w)
    PROVE  IInv'
<1>1. /\ pet[w] \in Peticion /\ pet \in [Peticiones -> Peticion] /\ pet[w].paso = "redis"
      /\ redis \in Redis /\ SoloPet /\ pet[w].edad \in Nat
  BY DEF IInv, Formas, TypeOK, Peticion, MirarRedis, En
<1>2. UNCHANGED <<redis, sin, inactivo>>
  BY <1>1 DEF SoloPet, SinBase, SinCaches
<1>3. CASE redis.permisos # {}
  <2> DEFINE q == [pet[w] EXCEPT !.paso = "recordar", !.permisos = redis.permisos]
  <2>1. q \in Peticion /\ q.paso = "recordar" /\ q.permisos = redis.permisos /\ q.edad = pet[w].edad
        /\ q.op = pet[w].op /\ q.dato = pet[w].dato
    BY <1>1 DEF Peticion, Pasos, Redis
  <2>2. pet' = [pet EXCEPT ![w] = q]
    BY <1>1, <1>3 DEF MirarRedis
  <2> HIDE DEF q
  <2>3. pet'[w] = q
    BY <1>1, <2>2
  <2>4. ASSUME NEW c \in redis.permisos PROVE sin[c] <= EdadRedis + pet[w].edad
    <3>1. sin[c] <= 2 * MaxDuracion + (TtlRedis - redis.ttl)
      BY DEF IInv, EnRedis
    <3>2. sin[c] \in Nat /\ redis.ttl \in Nat /\ redis.ttl >= 1
      BY <1>1, <1>3, Constantes DEF IInv, Formas, Redis, TypeOK
    <3>3. QED
      BY <1>1, <3>1, <3>2, Constantes DEF EdadRedis
  <2>5. Lector(w)'
    BY <1>2, <1>3, <2>1, <2>3, <2>4 DEF Lector, En, Reciente
  <2>6. QED
    BY <1>1, <2>1, <2>2, <2>5, PasoLector DEF Retienen
<1>4. CASE redis.permisos = {}
  <2> DEFINE q == [pet[w] EXCEPT !.paso = "base"]
  <2>1. q \in Peticion /\ q.paso = "base" /\ q.op = pet[w].op /\ q.dato = pet[w].dato
    BY <1>1 DEF Peticion, Pasos
  <2>2. pet' = [pet EXCEPT ![w] = q]
    BY <1>1, <1>4 DEF MirarRedis, Pasa
  <2> HIDE DEF q
  <2>3. Lector(w)'
    BY <1>1, <1>2, <1>4, <2>1, <2>2 DEF Lector, En
  <2>4. QED
    BY <1>1, <2>1, <2>2, <2>3, PasoLector DEF Retienen
<1>5. QED
  BY <1>3, <1>4

\* What is read from the database the user has now.
LEMMA PasoLeerPermisos ==
    ASSUME IInv, NEW w \in Peticiones, LeerPermisos(w)
    PROVE  IInv'
<1> DEFINE p == IF Tiene(base) = {} THEN "perfil" ELSE "guardar"
           q == [pet[w] EXCEPT !.permisos = Tiene(base), !.paso = p]
<1>1. /\ pet[w] \in Peticion /\ pet \in [Peticiones -> Peticion] /\ pet[w].paso = "base"
      /\ SoloPet /\ pet[w].edad \in Nat /\ Tiene(base) \subseteq Claves
  BY TieneTipo DEF IInv, Formas, TypeOK, Peticion, LeerPermisos, En
<1>2. UNCHANGED <<redis, sin, inactivo>>
  BY <1>1 DEF SoloPet, SinBase, SinCaches
<1>3. /\ q \in Peticion /\ q.paso = p /\ q.permisos = Tiene(base) /\ q.edad = pet[w].edad
      /\ q.op = pet[w].op /\ q.dato = pet[w].dato
  BY <1>1 DEF Peticion, Pasos
<1>4. pet' = [pet EXCEPT ![w] = q]
  BY <1>1 DEF LeerPermisos
<1> HIDE DEF q
<1>5. pet'[w] = q
  BY <1>1, <1>4
<1>6. \A c \in Tiene(base) : sin[c] <= 0 + pet[w].edad
  BY <1>1 DEF IInv, Sabe
<1>7. \A c \in redis.permisos : sin[c] <= pet[w].edad + MaxDuracion
  BY <1>1 DEF IInv, Lector
<1>8. Lector(w)'
  BY <1>2, <1>3, <1>5, <1>6, <1>7 DEF Lector, En, Reciente
<1>9. QED
  BY <1>1, <1>3, <1>4, <1>8, PasoLector DEF Retienen

\* sadd: what Redis had is hardly older than the request that found it empty, and from
\* then on lasts no longer than what the request has read.
LEMMA PasoGuardar ==
    ASSUME IInv, NEW w \in Peticiones, Guardar(w)
    PROVE  IInv'
<1> DEFINE q == [pet[w] EXCEPT !.paso = "recordar"]
           s == redis.permisos \cup pet[w].permisos
<1>1. /\ pet[w] \in Peticion /\ pet \in [Peticiones -> Peticion] /\ pet[w].paso = "guardar"
      /\ redis \in Redis /\ pet[w].edad \in Nat /\ pet[w].edad <= MaxDuracion
  BY Constantes DEF IInv, Formas, TypeOK, Peticion, Guardar, En
<1>2. /\ redis' = [redis EXCEPT !.permisos = @ \cup pet[w].permisos, !.ttl = TtlRedis]
      /\ SinCommit /\ UNCHANGED <<memoria, fila>>
  BY DEF Guardar, SinBase, SinCommit
<1>3. /\ redis'.permisos = s /\ redis'.ttl = TtlRedis /\ redis'.perfil = redis.perfil
      /\ redis'.ttlPerfil = redis.ttlPerfil /\ redis' \in Redis
  <2>1. s \subseteq Claves /\ TtlRedis \in 0..TtlRedis
    BY <1>1, Constantes DEF Redis, Peticion
  <2>2. QED
    BY <1>1, <1>2, <2>1 DEF Redis
<1>4. q \in Peticion /\ q.paso = "recordar" /\ q.permisos = pet[w].permisos /\ q.edad = pet[w].edad
      /\ q.op = pet[w].op /\ q.dato = pet[w].dato
  BY <1>1 DEF Peticion, Pasos
<1>5. pet' = [pet EXCEPT ![w] = q]
  BY <1>1 DEF Guardar, Pasa
<1> HIDE DEF q
<1>6. pet'[w] = q
  BY <1>1, <1>5
<1>7. pet[w].permisos # {} /\ \A c \in pet[w].permisos : sin[c] <= pet[w].edad /\ sin[c] \in Nat
  <2>1. pet[w].permisos # {} /\ \A c \in pet[w].permisos : sin[c] <= 0 + pet[w].edad
    BY <1>1 DEF IInv, Lector, Reciente, En
  <2>2. \A c \in pet[w].permisos : sin[c] \in Nat
    BY <1>1 DEF IInv, Formas, Peticion
  <2>3. QED
    BY <1>1, <2>1, <2>2
<1>8. \A c \in redis.permisos : sin[c] <= pet[w].edad + MaxDuracion /\ sin[c] \in Nat
  BY <1>1 DEF IInv, Formas, Lector, Redis
<1>9. EnRedis'
  <2>1. ASSUME NEW c \in s PROVE sin'[c] <= 2 * MaxDuracion + (TtlRedis - TtlRedis)
    BY <1>1, <1>2, <1>7, <1>8, Constantes DEF SinCommit
  <2>2. QED
    BY <1>2, <1>3, <2>1 DEF EnRedis, SinCommit, IInv
<1>10. Cachadas' /\ EnMemoria'
  BY <1>2, <1>3, <1>7, CachadasAhora, Constantes DEF Cachadas, EnMemoria, IInv, SinCommit
<1>11. ASSUME NEW v \in Peticiones, pet[v].paso \in {"base", "guardar"}
       PROVE  \A c \in s : sin[c] <= pet[v].edad + MaxDuracion
  <2>1. \A c \in redis.permisos : sin[c] <= pet[v].edad + MaxDuracion
    BY <1>11 DEF IInv, Lector
  <2>2. pet[v].edad \in Nat
    BY <1>1 DEF Peticion
  <2>3. \A c \in pet[w].permisos : sin[c] <= pet[v].edad + MaxDuracion
    BY <1>1, <1>7, <2>2, Constantes
  <2>4. QED
    BY <2>1, <2>3
<1>12. Lector(w)'
  <2>1. \A c \in pet[w].permisos : sin[c] <= EdadRedis + pet[w].edad
    BY <1>1, <1>7, Cotas
  <2>2. QED
    BY <1>2, <1>4, <1>6, <1>7, <2>1 DEF Lector, En, Reciente, SinCommit
<1>13. Escritor(w)'
  BY <1>1, <1>2, <1>4, <1>6, LectorNoEscribe DEF Retienen
<1>14. fila' \in [Filas -> Peticiones \cup {Nada}]
  BY <1>2, CachadasAhora
<1>15. QED
  BY <1>2, <1>3, <1>4, <1>5, <1>9, <1>10, <1>11, <1>12, <1>13, <1>14, PasoPropio

\* The memory takes what the request has read, for as long as it keeps anything.
LEMMA PasoRecordar ==
    ASSUME IInv, NEW w \in Peticiones, Recordar(w)
    PROVE  IInv'
<1> DEFINE q == [pet[w] EXCEPT !.paso = "perfil"]
           h == pet[w].h
<1>1. /\ pet[w] \in Peticion /\ pet \in [Peticiones -> Peticion] /\ pet[w].paso = "recordar"
      /\ memoria \in [Procesos -> Memoria] /\ pet[w].edad \in Nat /\ pet[w].edad <= MaxDuracion
      /\ h \in Procesos
  BY Constantes DEF IInv, Formas, TypeOK, Peticion, Recordar, En
<1>2. /\ memoria' = [memoria EXCEPT ![h] = [permisos |-> pet[w].permisos, vida |-> TtlLocal + 1]]
      /\ SinCommit /\ UNCHANGED <<redis, fila>>
  BY DEF Recordar, SinBase, SinCommit
<1>3. memoria' \in [Procesos -> Memoria]
  <2>1. [permisos |-> pet[w].permisos, vida |-> TtlLocal + 1] \in Memoria
    BY <1>1, Constantes DEF Memoria, Peticion
  <2>2. QED
    BY <1>1, <1>2, <2>1
<1>4. q \in Peticion /\ q.paso = "perfil" /\ q.permisos = pet[w].permisos /\ q.edad = pet[w].edad
      /\ q.op = pet[w].op /\ q.dato = pet[w].dato
  BY <1>1 DEF Peticion, Pasos
<1>5. pet' = [pet EXCEPT ![w] = q]
  BY <1>1 DEF Recordar, Pasa
<1> HIDE DEF q
<1>6. pet'[w] = q
  BY <1>1, <1>5
<1>7. /\ pet[w].permisos # {}
      /\ \A c \in pet[w].permisos : sin[c] <= EdadRedis + pet[w].edad /\ sin[c] \in Nat
  BY <1>1 DEF IInv, Formas, Lector, Reciente, En, Peticion
<1>8. EnMemoria'
  <2>1. ASSUME NEW c \in pet[w].permisos
        PROVE  sin[c] <= EdadRedis + MaxDuracion + (TtlLocal + 1 - (TtlLocal + 1))
    BY <1>1, <1>7, Cotas, Constantes
  <2>2. ASSUME NEW k \in Procesos, NEW c \in memoria'[k].permisos
        PROVE  sin'[c] <= EdadRedis + MaxDuracion + (TtlLocal + 1 - memoria'[k].vida)
    <3>1. CASE k = h
      BY <1>1, <1>2, <2>1, <2>2, <3>1 DEF SinCommit
    <3>2. CASE k # h
      BY <1>1, <1>2, <2>2, <3>2 DEF SinCommit, IInv, EnMemoria
    <3>3. QED
      BY <3>1, <3>2
  <2>3. QED
    BY <2>2 DEF EnMemoria
<1>9. Cachadas' /\ EnRedis'
  <2>1. \A k \in Procesos : memoria'[k].permisos # {} <=> memoria'[k].vida > 0
    BY <1>1, <1>2, <1>7, CachadasAhora, Constantes DEF Cachadas
  <2>2. QED
    BY <1>2, <1>3, <2>1, CachadasAhora DEF Cachadas, EnRedis, IInv, SinCommit
<1>10. Lector(w)'
  <2>1. \A c \in pet[w].permisos : sin[c] <= EdadMemoria + pet[w].edad
    BY <1>1, <1>7, Cotas, Constantes
  <2>2. QED
    BY <1>2, <1>4, <1>6, <2>1 DEF Lector, En, Reciente, SinCommit
<1>11. Escritor(w)'
  BY <1>1, <1>2, <1>4, <1>6, LectorNoEscribe DEF Retienen
<1>12. fila' \in [Filas -> Peticiones \cup {Nada}]
  BY <1>2, CachadasAhora
<1>13. \A v \in Peticiones \ {w} : pet[v].paso \in {"base", "guardar"} =>
               \A c \in redis'.permisos : sin[c] <= pet[v].edad + MaxDuracion
  BY <1>2 DEF IInv, Lector
<1>14. QED
  BY <1>2, <1>4, <1>5, <1>8, <1>9, <1>10, <1>11, <1>12, <1>13, PasoPropio

\* A memory forgets.
LEMMA PasoDesalojar ==
    ASSUME IInv, NEW h \in Procesos, Desalojar(h)
    PROVE  IInv'
<1>1. /\ memoria' = [memoria EXCEPT ![h] = [permisos |-> {}, vida |-> 0]]
      /\ UNCHANGED <<abiertas, base, fila, llave, sin, inactivo, redis, pet>>
  BY DEF Desalojar, SinBase
<1>2. memoria \in [Procesos -> Memoria]
  BY DEF IInv, Formas, TypeOK
<1>3. memoria' \in [Procesos -> Memoria]
  <2>1. [permisos |-> {}, vida |-> 0] \in Memoria
    BY Constantes DEF Memoria
  <2>2. QED
    BY <1>1, <1>2, <2>1
<1>4. \A k \in Procesos : \/ (memoria'[k] = memoria[k])
                         \/ (memoria'[k].permisos = {} /\ memoria'[k].vida = 0)
  <2>1. \A k \in Procesos : memoria'[k] = IF k = h THEN [permisos |-> {}, vida |-> 0] ELSE memoria[k]
    BY <1>1, <1>2
  <2>2. QED
    BY <2>1
<1>5. EnMemoria' /\ Formas'
  BY <1>1, <1>3, <1>4 DEF EnMemoria, IInv, Formas, TypeOK
<1>6. \A w \in Peticiones : Lector(w)' /\ Escritor(w)'
  BY <1>1 DEF IInv, Lector, Escritor, En, Ops, Reciente, Recurso
<1>7. QED
  BY <1>1, <1>5, <1>6 DEF IInv, Sabe, EnRedis

----------------------------------------------------------------------------
(* The profile, and the answer *)

\* A request that is let in: the permissions it has and the age of the profile.
LEMMA Entra ==
    ASSUME IInv, NEW w \in Peticiones, pet[w].paso \in {"perfil", "perfil_guardar"},
           SinCommit, Pasa(w, "atender"),
           inactivo <= MaxDuracion + (TtlPerfil - 1) + pet[w].edad
    PROVE  Lector(w)' /\ [pet[w] EXCEPT !.paso = "atender"] \in Peticion
<1> DEFINE q == [pet[w] EXCEPT !.paso = "atender"]
<1>1. pet[w] \in Peticion /\ pet \in [Peticiones -> Peticion]
  BY DEF IInv, Formas, TypeOK
<1>2. q \in Peticion /\ q.paso = "atender" /\ q.permisos = pet[w].permisos /\ q.edad = pet[w].edad
  BY <1>1 DEF Peticion, Pasos
<1>3. pet'[w] = q
  BY <1>1 DEF Pasa
<1> HIDE DEF q
<1>4. Reciente(w, EdadMemoria)
  BY DEF IInv, Lector
<1>5. Lector(w)'
  BY <1>2, <1>3, <1>4 DEF Lector, En, Reciente, SinCommit
<1>6. QED
  BY <1>2, <1>5 DEF q

\* A profile in the cache is as old as its time left says.
LEMMA PasoMirarPerfil ==
    ASSUME IInv, NEW w \in Peticiones, MirarPerfil(w)
    PROVE  IInv'
<1>1. /\ pet[w] \in Peticion /\ pet \in [Peticiones -> Peticion] /\ pet[w].paso = "perfil"
      /\ redis \in Redis /\ SoloPet /\ SinCommit /\ pet[w].edad \in Nat /\ pet[w].paso \notin Retienen
  BY DEF IInv, Formas, TypeOK, Peticion, MirarPerfil, En, SoloPet, SinBase, SinCommit, Retienen
<1>2. CASE redis.perfil # Nada /\ redis.perfil
  <2>1. Pasa(w, "atender")
    BY <1>2 DEF MirarPerfil, Admitir
  <2>2. inactivo <= MaxDuracion + (TtlPerfil - 1) + pet[w].edad
    <3>1. inactivo <= MaxDuracion + (TtlPerfil - redis.ttlPerfil) /\ inactivo \in Nat
      BY <1>1, <1>2 DEF IInv, Formas, EnRedis, Redis
    <3>2. redis.ttlPerfil \in Nat /\ redis.ttlPerfil >= 1
      <4>1. redis.ttlPerfil \in Nat
        BY <1>1, Constantes DEF Redis
      <4>2. redis.ttlPerfil > 0
        BY <1>2, CachadasAhora DEF Cachadas
      <4>3. QED
        BY <4>1, <4>2
    <3>3. QED
      BY <1>1, <3>1, <3>2, Constantes
  <2> DEFINE q == [pet[w] EXCEPT !.paso = "atender"]
  <2>3. q \in Peticion /\ Lector(w)'
    BY <1>1, <2>1, <2>2, Entra
  <2>4. q.paso = "atender" /\ q.op = pet[w].op /\ q.dato = pet[w].dato /\ pet' = [pet EXCEPT ![w] = q]
    BY <1>1, <2>1 DEF Peticion, Pasa
  <2> HIDE DEF q
  <2>5. QED
    BY <1>1, <2>3, <2>4, PasoLector DEF Retienen
<1>3. CASE redis.perfil # Nada /\ ~redis.perfil
  <2>1. Termina(w)
    BY <1>3 DEF MirarPerfil, Admitir
  <2>2. SinCaches /\ fila' = fila
    BY <1>1 DEF SoloPet, SinBase
  <2>3. QED
    BY <1>1, <2>1, <2>2, PasoTermina
<1>4. CASE redis.perfil = Nada
  <2> DEFINE q == [pet[w] EXCEPT !.paso = "perfil_base"]
  <2>1. /\ q \in Peticion /\ q.paso = "perfil_base" /\ q.op = pet[w].op /\ q.dato = pet[w].dato
        /\ q.permisos = pet[w].permisos /\ q.edad = pet[w].edad
    BY <1>1 DEF Peticion, Pasos
  <2>2. pet' = [pet EXCEPT ![w] = q]
    BY <1>1, <1>4 DEF MirarPerfil, Pasa
  <2> HIDE DEF q
  <2>3. Reciente(w, EdadMemoria)
    BY <1>1 DEF IInv, Lector
  <2>4. Lector(w)'
    BY <1>1, <2>1, <2>2, <2>3 DEF Lector, En, Reciente, SinCommit
  <2>5. QED
    BY <1>1, <2>1, <2>2, <2>4, PasoLector DEF Retienen
<1>5. QED
  BY <1>2, <1>3, <1>4

\* The row of the user says whether it is active now.
LEMMA PasoLeerPerfil ==
    ASSUME IInv, NEW w \in Peticiones, LeerPerfil(w)
    PROVE  IInv'
<1> DEFINE q == [pet[w] EXCEPT !.paso = "perfil_guardar", !.activo = base.activo]
<1>1. /\ pet[w] \in Peticion /\ pet \in [Peticiones -> Peticion] /\ pet[w].paso = "perfil_base"
      /\ base \in Base /\ SoloPet /\ SinCommit /\ pet[w].edad \in Nat /\ pet[w].paso \notin Retienen
  BY DEF IInv, Formas, TypeOK, Peticion, LeerPerfil, En, SoloPet, SinBase, SinCommit, Retienen
<1>2. base.activo \in BOOLEAN
  BY <1>1 DEF Base
<1>3. /\ q \in Peticion /\ q.paso = "perfil_guardar" /\ q.op = pet[w].op /\ q.dato = pet[w].dato
      /\ q.permisos = pet[w].permisos /\ q.edad = pet[w].edad /\ q.activo = base.activo
  BY <1>1, <1>2 DEF Peticion, Pasos
<1>4. pet' = [pet EXCEPT ![w] = q]
  BY <1>1 DEF LeerPerfil
<1> HIDE DEF q
<1>5. Reciente(w, EdadMemoria) /\ (base.activo => inactivo <= pet[w].edad)
  BY <1>1 DEF IInv, Lector, Sabe
<1>6. Lector(w)'
  BY <1>1, <1>3, <1>4, <1>5 DEF Lector, En, Reciente, SinCommit
<1>7. QED
  BY <1>1, <1>3, <1>4, <1>6, PasoLector DEF Retienen

\* The cache of the profile takes what the request has read, and the request goes on
\* only if the user was active.
LEMMA PasoGuardarPerfil ==
    ASSUME IInv, NEW w \in Peticiones, GuardarPerfil(w)
    PROVE  IInv'
<1>1. /\ pet[w] \in Peticion /\ pet \in [Peticiones -> Peticion] /\ pet[w].paso = "perfil_guardar"
      /\ redis \in Redis /\ SinCommit /\ pet[w].edad \in Nat /\ pet[w].paso \notin Retienen
      /\ fila' = fila /\ memoria' = memoria /\ pet[w].activo \in BOOLEAN /\ pet[w].edad <= MaxDuracion
      /\ pet[w].h \in Procesos
  BY Constantes DEF IInv, Formas, TypeOK, Peticion, GuardarPerfil, En, SinBase, SinCommit, Retienen
<1>2. redis' = [redis EXCEPT !.perfil = pet[w].activo, !.ttlPerfil = TtlPerfil]
  BY DEF GuardarPerfil
<1>3. /\ redis' \in Redis /\ redis'.perfil = pet[w].activo /\ redis'.ttlPerfil = TtlPerfil
      /\ redis'.permisos = redis.permisos /\ redis'.ttl = redis.ttl
  <2>1. TtlPerfil \in 0..TtlPerfil /\ pet[w].activo \in BOOLEAN \cup {Nada}
    BY <1>1, Constantes
  <2>2. QED
    BY <1>1, <1>2, <2>1 DEF Redis
<1>4. Cachadas' /\ EnMemoria'
  BY <1>1, <1>3, CachadasAhora, Constantes DEF Cachadas, EnMemoria, IInv, SinCommit
<1>5. inactivo \in Nat /\ (pet[w].activo => inactivo <= pet[w].edad)
  BY <1>1 DEF IInv, Formas, Lector, En
<1>6. EnRedis'
  <2>1. pet[w].activo => inactivo <= MaxDuracion + (TtlPerfil - TtlPerfil)
    BY <1>1, <1>5, Constantes
  <2>2. QED
    BY <1>1, <1>3, <2>1 DEF EnRedis, IInv, SinCommit
<1>7. \A v \in Peticiones \ {w} : pet[v].paso \in {"base", "guardar"} =>
               \A c \in redis'.permisos : sin[c] <= pet[v].edad + MaxDuracion
  BY <1>3 DEF IInv, Lector
<1>8. fila' \in [Filas -> Peticiones \cup {Nada}]
  BY <1>1, CachadasAhora
<1>9. CASE pet[w].activo
  <2>1. Pasa(w, "atender")
    BY <1>9 DEF GuardarPerfil, Admitir
  <2>2. inactivo <= MaxDuracion + (TtlPerfil - 1) + pet[w].edad
    BY <1>1, <1>5, <1>9, Constantes
  <2> DEFINE q == [pet[w] EXCEPT !.paso = "atender"]
  <2>3. q \in Peticion /\ Lector(w)'
    BY <1>1, <2>1, <2>2, Entra
  <2>4. q.paso = "atender" /\ q.op = pet[w].op /\ q.dato = pet[w].dato /\ pet' = [pet EXCEPT ![w] = q]
    BY <1>1, <2>1 DEF Peticion, Pasa
  <2> HIDE DEF q
  <2>5. Escritor(w)'
    BY <1>1, <2>4, LectorNoEscribe DEF Retienen
  <2>6. QED
    BY <1>1, <1>4, <1>6, <1>7, <1>8, <2>3, <2>4, <2>5, PasoPropio
<1>10. CASE ~pet[w].activo
  <2> DEFINE q == Libre(pet[w].h)
  <2>1. q \in Peticion /\ q.paso = "libre" /\ q.op = "usar"
    BY <1>1, LibreTipo
  <2>2. pet' = [pet EXCEPT ![w] = q]
    BY <1>10 DEF GuardarPerfil, Admitir, Termina
  <2> HIDE DEF q
  <2>3. Lector(w)' /\ Escritor(w)'
    BY <1>1, <2>1, <2>2, LectorNoEscribe DEF Lector, En, Retienen
  <2>4. QED
    BY <1>1, <1>4, <1>6, <1>7, <1>8, <2>1, <2>2, <2>3, PasoPropio
<1>11. QED
  BY <1>1, <1>9, <1>10

\* The handler ends the request.
LEMMA PasoAtender ==
    ASSUME IInv, NEW w \in Peticiones, Atender(w)
    PROVE  IInv'
<1>1. pet[w].paso \notin Retienen /\ Termina(w) /\ SinCommit /\ SinCaches /\ fila' = fila
  BY DEF Atender, En, Retienen, SoloPet, SinBase, SinCommit
<1>2. QED
  BY <1>1, PasoTermina

\* A key is created only where there was none: no request was using it.
LEMMA PasoCrearLlave ==
    ASSUME IInv, NEW w \in Peticiones, CrearLlave(w)
    PROVE  IInv'
<1> DEFINE q == Libre(pet[w].h)
<1>1. /\ pet[w] \in Peticion /\ pet \in [Peticiones -> Peticion] /\ llave \in Llave
      /\ pet[w].paso \notin Retienen /\ pet[w].h \in Procesos
      /\ UNCHANGED <<abiertas, base, fila, redis, memoria, sin, inactivo>>
  BY DEF IInv, Formas, TypeOK, Peticion, CrearLlave, En, Retienen, SinCaches
<1>2. q \in Peticion /\ q.paso = "libre" /\ q.op = "usar"
  BY <1>1, LibreTipo
<1>3. pet' = [pet EXCEPT ![w] = q]
  BY DEF CrearLlave, Termina
<1> HIDE DEF q
<1>4. pet' \in [Peticiones -> Peticion] /\ pet'[w] = q /\ \A v \in Peticiones \ {w} : pet'[v] = pet[v]
  BY <1>1, <1>2, <1>3
<1>5. llave' \in Llave /\ (llave.activa = TRUE => llave'.activa = TRUE)
  <2>1. CASE llave.activa = Nada
    <3>1. PICK s \in SUBSET pet[w].permisos, v \in {Siempre} \cup 0..MaxVigencia :
                 llave' = LlaveNueva(s, v)
      BY <2>1 DEF CrearLlave
    <3>2. s \subseteq Claves
      BY <1>1 DEF Peticion
    <3>3. QED
      BY <2>1, <3>1, <3>2, Constantes DEF LlaveNueva, Llave
  <2>2. CASE llave.activa # Nada
    BY <1>1, <2>2 DEF CrearLlave
  <2>3. QED
    BY <2>1, <2>2
<1>6. \A f \in Filas : fila[f] # w
  BY <1>1, NadaTiene
<1>7. Lector(w)' /\ Escritor(w)'
  BY <1>1, <1>2, <1>4, <1>6 DEF Lector, Escritor, En, Ops
<1>8. ASSUME NEW v \in Peticiones, v # w PROVE Lector(v)' /\ Escritor(v)'
  <2>1. pet'[v] = pet[v] /\ Lector(v) /\ Escritor(v)
    BY <1>4, <1>8 DEF IInv
  <2>2. Lector(v)'
    BY <1>1, <2>1 DEF Lector, En, Ops, Reciente
  <2>3. Escritor(v)'
    BY <1>1, <1>5, <2>1 DEF Escritor, En, Ops, Recurso
  <2>4. QED
    BY <2>2, <2>3
<1>9. \A v \in Peticiones : Lector(v)' /\ Escritor(v)'
  BY <1>7, <1>8
<1>10. TypeOK'
  <2>1. \A f \in Filas : fila'[f] # Nada => pet'[fila'[f]].paso \in Retienen
    BY <1>1, <1>9, CachadasAhora DEF Escritor
  <2>2. QED
    BY <1>1, <1>4, <1>5, <2>1 DEF TypeOK, Retienen, IInv, Formas
<1>11. QED
  BY <1>1, <1>9, <1>10 DEF IInv, Formas, Sabe, EnRedis, EnMemoria

----------------------------------------------------------------------------
(* The requests that write *)

\* What is asked of a request that reads permissions does not concern the others.
LEMMA NoLee ==
    ASSUME NEW w \in Peticiones,
           pet'[w].paso \in Retienen \cup {"leer", "releer", "escribir"}
               \/ (pet'[w].paso = "atender" /\ pet'[w].op = "usar_llave")
    PROVE  Lector(w)'
BY DEF Lector, En, Ops, Retienen

\* The row an operation writes.
LEMMA RecursoFila == \A w \in Peticiones : Recurso(w) \in Filas
BY DEF Recurso, Filas

\* A request takes a row that is free: those who hold others keep them.
LEMMA BloqueaTipo ==
    ASSUME IInv, NEW w \in Peticiones, Bloquea(w), pet[w].paso \notin Retienen
    PROVE  /\ fila' \in [Filas -> Peticiones \cup {Nada}] /\ fila'[Recurso(w)] = w
           /\ \A f \in Filas : fila'[f] = w => f = Recurso(w)
           /\ \A v \in Peticiones \ {w} : \A f \in Filas : fila'[f] = v <=> fila[f] = v
<1>1. fila \in [Filas -> Peticiones \cup {Nada}] /\ Recurso(w) \in Filas
  BY CachadasAhora, RecursoFila
<1>2. \A f \in Filas : fila[f] # w
  BY NadaTiene
<1>3. fila[Recurso(w)] = Nada /\ fila' = [fila EXCEPT ![Recurso(w)] = w]
  BY DEF Bloquea
<1>4. QED
  BY <1>1, <1>2, <1>3, Constantes

\* The step of a request that writes: it reads, or it writes and takes its row.
LEMMA PasoEscritor ==
    ASSUME IInv, NEW w \in Peticiones, NEW q \in Peticion, pet' = [pet EXCEPT ![w] = q],
           SinCommit, SinCaches, pet[w].paso \notin Retienen, Bloquea(w) \/ fila' = fila,
           q.op = pet[w].op, q.dato = pet[w].dato,
           q.paso \in Retienen \cup {"leer", "releer", "escribir"},
           Bloquea(w) => q.paso \in Retienen,
           q.paso = "propietario" => q.op = "usar_llave",
           q.paso \in {"borrar", "reborrar", "borrar_perfil"} =>
               q.op \in {"asignar", "revocar", "login"},
           q.paso = "commit" /\ q.op \in {"usar_llave", "revocar_llave"} => Bloquea(w),
           q.op = "revocar_llave" /\ q.paso \in {"releer", "escribir", "commit"} => ~q.activo
    PROVE  IInv'
<1>1. pet'[w] = q /\ fila \in [Filas -> Peticiones \cup {Nada}]
  BY CachadasAhora DEF IInv, Formas, TypeOK
<1>2. Recurso(w)' = Recurso(w)
  BY <1>1 DEF Recurso, Ops
<1>3. /\ fila' \in [Filas -> Peticiones \cup {Nada}]
      /\ \A f \in Filas : fila'[f] = w => f = Recurso(w)' /\ q.paso \in Retienen
      /\ \A v \in Peticiones \ {w} : \A f \in Filas : fila'[f] = v <=> fila[f] = v
  <2>1. CASE Bloquea(w)
    BY <1>2, <2>1, BloqueaTipo
  <2>2. CASE fila' = fila
    BY <1>1, <2>2, NadaTiene
  <2>3. QED
    BY <2>1, <2>2
<1>4. Bloquea(w) /\ q.op \in {"usar_llave", "revocar_llave"} => fila'["llave"] = w
  BY <1>1, BloqueaTipo DEF Recurso, Ops
<1>5. Lector(w)'
  BY <1>1, NoLee
<1>6. base' = base /\ llave' = llave
  BY DEF SinCommit
<1>7. (Ops(w, {"asignar"}) => pet[w].dato \in {Siempre} \cup 1..MaxVigencia)
      /\ (Ops(w, {"ampliar"}) => pet[w].dato \in Claves)
  BY DEF IInv, Escritor
<1>8. Escritor(w)'
  BY <1>1, <1>3, <1>4, <1>6, <1>7 DEF Escritor, En, Ops
<1>9. QED
  BY <1>3, <1>5, <1>8, PasoPet

\* What the proofs of the steps of a request that writes need of it.
LEMMA QuienEscribe ==
    ASSUME IInv, NEW w \in Peticiones
    PROVE  /\ pet[w] \in Peticion /\ pet \in [Peticiones -> Peticion] /\ base \in Base
           /\ llave \in Llave /\ redis \in Redis /\ pet[w].rol \in Roles
           /\ base.permisos[pet[w].rol] \subseteq Claves /\ Escritor(w)
<1>1. pet[w] \in Peticion /\ pet \in [Peticiones -> Peticion] /\ base \in Base
      /\ llave \in Llave /\ redis \in Redis /\ Escritor(w)
  BY DEF IInv, Formas, TypeOK
<1>2. pet[w].rol \in Roles
  BY <1>1 DEF Peticion
<1>3. base.permisos[pet[w].rol] \subseteq Claves
  BY <1>1, <1>2 DEF Base
<1>4. QED
  BY <1>1, <1>2, <1>3

\* An assignment that is in force is refused.
LEMMA PasoLeerAsignacion ==
    ASSUME IInv, NEW w \in Peticiones, LeerAsignacion(w)
    PROVE  IInv'
<1>1. pet[w].paso \notin Retienen /\ pet[w].op = "asignar" /\ SinCommit /\ SinCaches /\ fila' = fila
  BY DEF LeerAsignacion, En, Ops, SoloPet, SinBase, SinCommit, Retienen
<1>2. CASE Termina(w)
  BY <1>1, <1>2, PasoTermina
<1>3. CASE Pasa(w, "escribir")
  <2> DEFINE q == [pet[w] EXCEPT !.paso = "escribir"]
  <2>1. q \in Peticion /\ q.paso = "escribir" /\ q.op = "asignar" /\ q.dato = pet[w].dato
    BY <1>1, QuienEscribe DEF Peticion, Pasos
  <2>2. pet' = [pet EXCEPT ![w] = q]
    BY <1>3, QuienEscribe DEF Pasa
  <2> HIDE DEF q
  <2>3. ~Bloquea(w) \/ q.paso \in Retienen
    BY <1>1, QuienEscribe, CachadasAhora, RecursoFila, Constantes DEF Bloquea
  <2>4. QED
    BY <1>1, <2>1, <2>2, <2>3, PasoEscritor
<1>4. QED
  BY <1>2, <1>3 DEF LeerAsignacion

\* The role becomes what it has and the new permission.
LEMMA PasoLeerRol ==
    ASSUME IInv, NEW w \in Peticiones, LeerRol(w)
    PROVE  IInv'
<1> DEFINE s == base.permisos[pet[w].rol] \cup {pet[w].dato}
           q == [pet[w] EXCEPT !.paso = "releer", !.permisos = s, !.activo = FALSE]
<1>1. pet[w].paso \notin Retienen /\ pet[w].op = "ampliar" /\ SinCommit /\ SinCaches /\ fila' = fila
  BY DEF LeerRol, En, Ops, SoloPet, SinBase, SinCommit, Retienen
<1>2. s \subseteq Claves
  BY <1>1, QuienEscribe DEF Escritor, Ops
<1>3. /\ q \in Peticion /\ q.paso = "releer" /\ q.op = "ampliar" /\ q.dato = pet[w].dato
      /\ base.permisos[q.rol] \subseteq q.permisos
  <2>1. pet[w] \in Peticion /\ s \in SUBSET Claves
    BY <1>2, QuienEscribe
  <2>2. base.permisos[pet[w].rol] \subseteq s
    OBVIOUS
  <2> HIDE DEF s
  <2>3. q \in Peticion
    BY <2>1 DEF Peticion, Pasos
  <2>4. /\ q.paso = "releer" /\ q.op = pet[w].op /\ q.dato = pet[w].dato /\ q.rol = pet[w].rol
        /\ q.permisos = s
    BY <2>1 DEF Peticion
  <2> HIDE DEF q
  <2>5. QED
    BY <1>1, <2>2, <2>3, <2>4
<1>4. pet' = [pet EXCEPT ![w] = q]
  BY QuienEscribe DEF LeerRol, Lee
<1> HIDE DEF q
<1>5. ~Bloquea(w)
  BY <1>1, QuienEscribe, CachadasAhora, RecursoFila, Constantes DEF Bloquea
<1>6. QED
  BY <1>1, <1>3, <1>4, <1>5, PasoEscritor

\* A state the user already has is refused.
LEMMA PasoLeerUsuario ==
    ASSUME IInv, NEW w \in Peticiones, LeerUsuario(w)
    PROVE  IInv'
<1>1. pet[w].paso \notin Retienen /\ pet[w].op = "estado" /\ SinCommit /\ SinCaches /\ fila' = fila
  BY DEF LeerUsuario, En, Ops, SoloPet, SinBase, SinCommit, Retienen
<1>2. CASE Termina(w)
  BY <1>1, <1>2, PasoTermina
<1>3. CASE Pasa(w, "escribir")
  <2> DEFINE q == [pet[w] EXCEPT !.paso = "escribir"]
  <2>1. q \in Peticion /\ q.paso = "escribir" /\ q.op = "estado" /\ q.dato = pet[w].dato
    BY <1>1, QuienEscribe DEF Peticion, Pasos
  <2>2. pet' = [pet EXCEPT ![w] = q]
    BY <1>3, QuienEscribe DEF Pasa
  <2> HIDE DEF q
  <2>3. ~Bloquea(w)
    BY <1>1, QuienEscribe, CachadasAhora, RecursoFila, Constantes DEF Bloquea
  <2>4. QED
    BY <1>1, <2>1, <2>2, <2>3, PasoEscritor
<1>4. QED
  BY <1>2, <1>3 DEF LeerUsuario

\* A key is used only if it was active when it was read.
LEMMA PasoLeerLlave ==
    ASSUME IInv, NEW w \in Peticiones, LeerLlave(w)
    PROVE  IInv'
<1>1. /\ pet[w].paso \notin Retienen /\ pet[w].op \in {"usar_llave", "revocar_llave"}
      /\ SinCommit /\ SinCaches /\ fila' = fila
  BY DEF LeerLlave, En, Ops, SoloPet, SinBase, SinCommit, Retienen
<1>2. CASE llave.activa = Nada \/ (Ops(w, {"usar_llave"}) /\ SinUso)
  <2>1. Termina(w)
    BY <1>2 DEF LeerLlave
  <2>2. QED
    BY <1>1, <2>1, PasoTermina
<1>3. CASE ~(llave.activa = Nada \/ (Ops(w, {"usar_llave"}) /\ SinUso))
  <2>1. PICK p \in IF Ops(w, {"usar_llave"}) THEN {"propietario", "releer"} ELSE {"releer"} :
              Lee(w, p, llave.permisos, Ops(w, {"usar_llave"}))
    BY <1>3 DEF LeerLlave
  <2> DEFINE a == Ops(w, {"usar_llave"})
             q == [pet[w] EXCEPT !.paso = p, !.permisos = llave.permisos, !.activo = a]
  <2>2. p \in {"propietario", "releer"} /\ (p = "propietario" => pet[w].op = "usar_llave")
    BY <2>1 DEF Ops
  <2>3. a \in BOOLEAN /\ (pet[w].op = "revocar_llave" => ~a) /\ llave.permisos \subseteq Claves
    BY QuienEscribe DEF Ops, Llave
  <2>4. pet' = [pet EXCEPT ![w] = q]
    BY <2>1, QuienEscribe DEF Lee
  <2>5. pet[w].op = "usar_llave" => llave.activa = TRUE
    BY <1>3, QuienEscribe DEF Ops, Llave, SinUso
  <2> HIDE DEF a
  <2>6. q \in Peticion /\ q.paso = p /\ q.op = pet[w].op /\ q.dato = pet[w].dato /\ q.activo = a
    <3>1. pet[w] \in Peticion /\ llave.permisos \in SUBSET Claves /\ p \in Pasos
      BY <2>2, <2>3, QuienEscribe DEF Pasos
    <3>2. q \in Peticion
      BY <2>3, <3>1 DEF Peticion
    <3>3. q.paso = p /\ q.op = pet[w].op /\ q.dato = pet[w].dato /\ q.activo = a
      BY <3>1 DEF Peticion
    <3>4. QED
      BY <3>2, <3>3
  <2> HIDE DEF q
  <2>7. Bloquea(w) => FALSE
    BY <1>1, QuienEscribe, CachadasAhora, RecursoFila, Constantes DEF Bloquea
  <2>8. QED
    BY <1>1, <2>2, <2>3, <2>4, <2>5, <2>6, <2>7, PasoEscritor DEF Retienen
<1>4. QED
  BY <1>2, <1>3

\* The second SELECT: a role that nobody changed between the two loses nothing.
LEMMA PasoReleer ==
    ASSUME IInv, NEW w \in Peticiones, Releer(w)
    PROVE  IInv'
<1> DEFINE hay == base.permisos[pet[w].rol]
           quita == IF Ops(w, {"ampliar"}) THEN hay \ pet[w].permisos ELSE {}
           pone == IF Ops(w, {"ampliar"}) THEN pet[w].permisos \ hay ELSE pet[w].permisos
           escrito == Ops(w, {"ampliar"}) \/ llave.activa # pet[w].activo
           q == [pet[w] EXCEPT !.paso = "escribir", !.quita = quita, !.permisos = pone, !.escrito = escrito]
<1>1. pet[w].paso \notin Retienen /\ pet[w].paso = "releer" /\ SinCommit /\ SinCaches /\ fila' = fila
  BY DEF Releer, En, SoloPet, SinBase, SinCommit, Retienen
<1>2. quita \subseteq Claves /\ pone \subseteq Claves /\ escrito \in BOOLEAN
  BY QuienEscribe DEF Peticion
<1>4. pet' = [pet EXCEPT ![w] = q]
  BY QuienEscribe DEF Releer
<1> HIDE DEF quita, pone, escrito
<1>5. /\ q \in Peticion /\ q.paso = "escribir" /\ q.op = pet[w].op /\ q.dato = pet[w].dato
      /\ q.quita = quita /\ q.activo = pet[w].activo
  <2>1. pet[w] \in Peticion /\ quita \in SUBSET Claves /\ pone \in SUBSET Claves
    BY <1>2, QuienEscribe
  <2>2. q \in Peticion
    BY <1>2, <2>1 DEF Peticion, Pasos
  <2>3. /\ q.paso = "escribir" /\ q.op = pet[w].op /\ q.dato = pet[w].dato
        /\ q.quita = quita /\ q.activo = pet[w].activo
    BY <2>1 DEF Peticion
  <2>4. QED
    BY <2>2, <2>3
<1> HIDE DEF q
<1>6. pet[w].op = "revocar_llave" => ~pet[w].activo
  BY <1>1, QuienEscribe DEF Escritor, Ops
<1>7. Bloquea(w) => FALSE
  BY <1>1, QuienEscribe, CachadasAhora, RecursoFila, Constantes DEF Bloquea
<1>8. QED
  BY <1>1, <1>4, <1>5, <1>6, <1>7, PasoEscritor

\* The INSERT of an assignment fails, or takes the row.
LEMMA PasoAsignar ==
    ASSUME IInv, NEW w \in Peticiones, Asignar(w)
    PROVE  IInv'
<1>1. pet[w].paso \notin Retienen /\ pet[w].op = "asignar" /\ SinCommit /\ SinCaches
  BY DEF Asignar, En, Ops, SoloFila, SinCommit, Retienen
<1>2. CASE base.vigencia[pet[w].rol] # Nada /\ fila["asignacion"] = Nada
  <2>1. Termina(w) /\ fila' = fila
    BY <1>2 DEF Asignar
  <2>2. QED
    BY <1>1, <2>1, PasoTermina
<1>3. CASE ~(base.vigencia[pet[w].rol] # Nada /\ fila["asignacion"] = Nada)
  <2> DEFINE q == [pet[w] EXCEPT !.paso = "borrar", !.escrito = TRUE]
  <2>1. Bloquea(w) /\ pet' = [pet EXCEPT ![w] = q]
    BY <1>3, QuienEscribe DEF Asignar
  <2>2. q \in Peticion /\ q.paso = "borrar" /\ q.op = "asignar" /\ q.dato = pet[w].dato
    <3>1. pet[w] \in Peticion
      BY QuienEscribe
    <3>2. QED
      BY <1>1, <3>1 DEF Peticion, Pasos
  <2> HIDE DEF q
  <2>3. QED
    BY <1>1, <2>1, <2>2, PasoEscritor DEF Retienen
<1>4. QED
  BY <1>2, <1>3

\* The DELETE of an assignment takes the row there is.
LEMMA PasoRevocar ==
    ASSUME IInv, NEW w \in Peticiones, Revocar(w)
    PROVE  IInv'
<1>1. pet[w].paso \notin Retienen /\ pet[w].op = "revocar" /\ SinCommit /\ SinCaches
  BY DEF Revocar, En, Ops, SoloFila, SinCommit, Retienen
<1>2. PICK e \in BOOLEAN : /\ pet' = [pet EXCEPT ![w] = [pet[w] EXCEPT !.paso = "borrar", !.escrito = e]]
                            /\ (Bloquea(w) \/ fila' = fila)
  <2>1. CASE base.vigencia[pet[w].rol] = Nada
    <3>1. pet' = [pet EXCEPT ![w] = [pet[w] EXCEPT !.paso = "borrar"]] /\ fila' = fila
      BY <2>1, QuienEscribe DEF Revocar, Pasa
    <3>2. [pet[w] EXCEPT !.paso = "borrar"] = [pet[w] EXCEPT !.paso = "borrar", !.escrito = pet[w].escrito]
      BY QuienEscribe DEF Peticion
    <3>3. pet[w].escrito \in BOOLEAN
      BY QuienEscribe DEF Peticion
    <3>4. QED
      BY <3>1, <3>2, <3>3
  <2>2. CASE base.vigencia[pet[w].rol] # Nada
    BY <2>2, QuienEscribe DEF Revocar
  <2>3. QED
    BY <2>1, <2>2
<1> DEFINE q == [pet[w] EXCEPT !.paso = "borrar", !.escrito = e]
<1>3. q \in Peticion /\ q.paso = "borrar" /\ q.op = "revocar" /\ q.dato = pet[w].dato
  BY <1>1, QuienEscribe DEF Peticion, Pasos
<1> HIDE DEF q
<1>4. pet' = [pet EXCEPT ![w] = q]
  BY <1>2 DEF q
<1>5. QED
  BY <1>1, <1>2, <1>3, <1>4, PasoEscritor DEF Retienen

\* The rows of the role are taken, or found changed.
LEMMA PasoAmpliar ==
    ASSUME IInv, NEW w \in Peticiones, Ampliar(w)
    PROVE  IInv'
<1>1. /\ pet[w].paso \notin Retienen /\ pet[w].op = "ampliar" /\ pet[w].paso = "escribir"
      /\ SinCommit /\ SinCaches
  BY DEF Ampliar, En, Ops, SoloFila, SinCommit, Retienen
<1>2. CASE Termina(w) /\ fila' = fila
  BY <1>1, <1>2, PasoTermina
<1>3. CASE Bloquea(w) /\ Pasa(w, "commit")
  <2> DEFINE q == [pet[w] EXCEPT !.paso = "commit"]
  <2>1. pet' = [pet EXCEPT ![w] = q]
    BY <1>3, QuienEscribe DEF Pasa
  <2>2. /\ q \in Peticion /\ q.paso = "commit" /\ q.op = "ampliar" /\ q.dato = pet[w].dato
        /\ q.quita = pet[w].quita
    BY <1>1, QuienEscribe DEF Peticion, Pasos
  <2> HIDE DEF q
  <2>3. QED
    BY <1>1, <1>3, <2>1, <2>2, PasoEscritor DEF Retienen
<1>4. QED
  BY <1>2, <1>3 DEF Ampliar

\* The UPDATE of the user, or of the key, takes its row.
LEMMA PasoEscribir ==
    ASSUME IInv, NEW w \in Peticiones, Escribir(w)
    PROVE  IInv'
<1> DEFINE p == CASE Ops(w, {"login"}) -> "borrar"
                  [] Ops(w, {"usar_llave"}) -> "propietario"
                  [] OTHER -> "commit"
           e == pet[w].escrito \/ Ops(w, {"estado"})
           q == [pet[w] EXCEPT !.paso = p, !.escrito = e]
<1>1. /\ pet[w].paso \notin Retienen /\ pet[w].paso = "escribir" /\ SinCommit /\ SinCaches
      /\ pet[w].op \in {"login", "estado", "usar_llave", "revocar_llave"} /\ Bloquea(w)
  BY DEF Escribir, En, Ops, SoloFila, SinCommit, Retienen
<1>2. /\ p \in {"borrar", "propietario", "commit"}
      /\ p = "borrar" => pet[w].op = "login"
      /\ p = "propietario" => pet[w].op = "usar_llave"
  BY DEF Ops
<1>3. pet' = [pet EXCEPT ![w].paso = p, ![w].escrito = e]
  BY DEF Escribir
<1>4. e \in BOOLEAN
  BY QuienEscribe DEF Peticion
<1> HIDE DEF p, e
<1>5. /\ q \in Peticion /\ q.paso = p /\ q.op = pet[w].op /\ q.dato = pet[w].dato
      /\ q.activo = pet[w].activo
  <2>1. pet[w] \in Peticion /\ p \in Pasos
    BY <1>2, QuienEscribe DEF Pasos
  <2>2. QED
    BY <1>4, <2>1 DEF Peticion
<1> HIDE DEF q
<1>6. pet[w].op = "revocar_llave" => ~pet[w].activo
  BY <1>1, QuienEscribe DEF Escritor, Ops
<1>7. q.paso \in Retienen
  BY <1>2, <1>5 DEF Retienen
<1>8. pet' = [pet EXCEPT ![w] = q]
  BY <1>3, QuienEscribe DEF q
<1>9. QED
  BY <1>1, <1>2, <1>5, <1>6, <1>7, <1>8, PasoEscritor

\* The use of a key goes on to its COMMIT only if it has recorded something.
LEMMA PasoLeerPropietario ==
    ASSUME IInv, NEW w \in Peticiones, LeerPropietario(w)
    PROVE  IInv'
<1>1. pet[w].paso = "propietario" /\ pet[w].op = "usar_llave" /\ SinCommit /\ SinCaches
  BY QuienEscribe DEF LeerPropietario, En, Ops, SoloFila, SinCommit, Escritor
<1>2. CASE ~base.activo
  <2>1. Termina(w) /\ fila' = Suelta(w)
    BY <1>2 DEF LeerPropietario
  <2>2. QED
    BY <1>1, <2>1, PasoTermina
<1>3. CASE base.activo
  <2> DEFINE p == IF fila["llave"] = w THEN "commit" ELSE "atender"
             q == [pet[w] EXCEPT !.paso = p]
  <2>1. pet' = [pet EXCEPT ![w] = q] /\ fila' = fila
    BY <1>3, QuienEscribe DEF LeerPropietario, Pasa
  <2>2. p = IF fila["llave"] = w THEN "commit" ELSE "atender"
    OBVIOUS
  <2> HIDE DEF p
  <2>3. /\ q \in Peticion /\ q.paso = p /\ q.op = "usar_llave" /\ q.dato = pet[w].dato
    BY <1>1, <2>2, QuienEscribe DEF Peticion, Pasos
  <2> HIDE DEF q
  <2>4. pet'[w] = q /\ base' = base /\ llave' = llave
    BY <1>1, <2>1, QuienEscribe DEF SinCommit
  <2>5. Lector(w)'
    BY <2>2, <2>3, <2>4, NoLee DEF Retienen
  <2>6. \A f \in Filas : fila[f] = w => f = "llave"
    BY <1>1, QuienEscribe DEF Escritor, Recurso, Ops
  <2>7. Recurso(w)' = "llave"
    BY <2>3, <2>4 DEF Recurso, Ops
  <2>8. \A f \in Filas : fila'[f] = w => f = "llave" /\ p = "commit"
    BY <2>1, <2>2, <2>6
  <2>10. p = "commit" => fila'["llave"] = w
    BY <2>1, <2>2
  <2>11. p \in {"commit", "atender"}
    BY <2>2
  <2>12. Escritor(w)'
    BY <2>3, <2>4, <2>7, <2>8, <2>10, <2>11 DEF Escritor, En, Ops, Retienen
  <2>13. QED
    BY <1>1, <2>1, <2>3, <2>5, <2>12, CachadasAhora, PasoPet
<1>4. QED
  BY <1>2, <1>3

\* What is invalidated is as if it had never been stored.
LEMMA PasoBorrar ==
    ASSUME IInv, NEW w \in Peticiones, Borrar(w)
    PROVE  IInv'
<1>1. /\ pet[w].paso \in {"borrar", "reborrar", "borrar_perfil"} /\ SinCommit /\ fila' = fila
      /\ memoria' = memoria /\ pet[w].op \in {"asignar", "revocar", "login"}
  BY QuienEscribe DEF Borrar, En, Ops, SinBase, SinCommit, Escritor
<1>2. PICK p \in {"reborrar", "borrar_perfil", "commit"} : pet' = [pet EXCEPT ![w] = [pet[w] EXCEPT !.paso = p]]
  BY QuienEscribe DEF Borrar, Pasa
<1> DEFINE q == [pet[w] EXCEPT !.paso = p]
<1>3. q \in Peticion /\ q.paso = p /\ q.op = pet[w].op /\ q.dato = pet[w].dato
  BY QuienEscribe DEF Peticion, Pasos
<1>4. pet' = [pet EXCEPT ![w] = q]
  BY <1>2
<1> HIDE DEF q
<1>5. pet'[w] = q /\ base' = base /\ llave' = llave
  BY <1>1, <1>4, QuienEscribe DEF SinCommit
<1>6. \/ redis' = [redis EXCEPT !.permisos = {}, !.ttl = 0]
      \/ redis' = [redis EXCEPT !.perfil = Nada, !.ttlPerfil = 0]
  BY DEF Borrar
<1>7. /\ redis' \in Redis
      /\ redis'.permisos \subseteq redis.permisos
      /\ redis'.permisos # {} => redis'.ttl = redis.ttl
      /\ redis'.perfil = TRUE => redis.perfil = TRUE /\ redis'.ttlPerfil = redis.ttlPerfil
      /\ redis'.permisos # {} <=> redis'.ttl > 0
      /\ redis'.perfil # Nada <=> redis'.ttlPerfil > 0
  <2>1. redis \in Redis /\ 0 \in 0..TtlRedis /\ 0 \in 0..TtlPerfil
    BY QuienEscribe, Constantes
  <2>2. (redis.permisos # {} <=> redis.ttl > 0) /\ (redis.perfil # Nada <=> redis.ttlPerfil > 0)
    BY CachadasAhora DEF Cachadas
  <2>3. CASE redis' = [redis EXCEPT !.permisos = {}, !.ttl = 0]
    <3>1. /\ redis'.permisos = {} /\ redis'.ttl = 0 /\ redis'.perfil = redis.perfil
          /\ redis'.ttlPerfil = redis.ttlPerfil
      BY <2>1, <2>3 DEF Redis
    <3>2. redis' \in Redis
      BY <2>1, <2>3 DEF Redis
    <3>3. QED
      BY <2>2, <3>1, <3>2
  <2>4. CASE redis' = [redis EXCEPT !.perfil = Nada, !.ttlPerfil = 0]
    <3>1. /\ redis'.permisos = redis.permisos /\ redis'.ttl = redis.ttl /\ redis'.perfil = Nada
          /\ redis'.ttlPerfil = 0
      BY <2>1, <2>4 DEF Redis
    <3>2. redis' \in Redis
      BY <2>1, <2>4 DEF Redis
    <3>3. Nada # TRUE
      BY Constantes
    <3>4. redis'.perfil # TRUE
      BY <3>1, <3>3, Zenon
    <3>5. ~(redis'.ttlPerfil > 0) /\ redis'.perfil = Nada
      BY <3>1
    <3>6. (redis'.permisos # {} <=> redis'.ttl > 0) /\ redis'.permisos \subseteq redis.permisos
      BY <2>2, <3>1
    <3>7. QED
      BY <3>1, <3>2, <3>4, <3>5, <3>6, Zenon
  <2>5. QED
    BY <1>6, <2>3, <2>4
<1>8. Cachadas' /\ EnMemoria' /\ EnRedis'
  BY <1>1, <1>7, CachadasAhora DEF Cachadas, EnMemoria, EnRedis, IInv, SinCommit
<1>9. Lector(w)'
  BY <1>3, <1>5, NoLee DEF Retienen
<1>10. Recurso(w)' = Recurso(w)
  BY <1>3, <1>5 DEF Recurso, Ops
<1>11. Escritor(w)'
  <2>1. \A f \in Filas : fila'[f] = w => f = Recurso(w)'
    BY <1>1, <1>10, QuienEscribe DEF Escritor
  <2>2. (Ops(w, {"asignar"}) => pet[w].dato \in {Siempre} \cup 1..MaxVigencia)
    BY QuienEscribe DEF Escritor
  <2>3. QED
    BY <1>1, <1>3, <1>5, <2>1, <2>2 DEF Escritor, En, Ops, Retienen
<1>12. \A v \in Peticiones \ {w} : pet[v].paso \in {"base", "guardar"} =>
               \A c \in redis'.permisos : sin[c] <= pet[v].edad + MaxDuracion
  BY <1>7 DEF IInv, Lector
<1>13. QED
  BY <1>1, <1>3, <1>4, <1>8, <1>9, <1>11, <1>12, CachadasAhora, PasoPropio

\* A request that dies rolls back.
LEMMA PasoCaer ==
    ASSUME IInv, NEW w \in Peticiones, Caer(w)
    PROVE  IInv'
BY PasoTermina DEF Caer, SinCommit

----------------------------------------------------------------------------
(* COMMIT and the passing of time *)

\* What is committed is a state of the tables.
LEMMA AsentadaTipo ==
    ASSUME IInv, NEW w \in Peticiones
    PROVE  Asentada(w) \in Base
<1>1. /\ pet[w] \in Peticion /\ base \in Base /\ Escritor(w) /\ pet[w].rol \in Roles
      /\ pet[w].permisos \subseteq Claves /\ pet[w].activo \in BOOLEAN
      /\ base.permisos[pet[w].rol] \subseteq Claves
  BY QuienEscribe DEF Peticion
<1>2. CASE ~pet[w].escrito
  BY <1>1, <1>2 DEF Asentada
<1>3. CASE pet[w].escrito /\ pet[w].op = "asignar"
  <2>1. pet[w].dato \in {Nada, Siempre} \cup 0..MaxVigencia
    BY <1>1, <1>3, Constantes DEF Escritor, Ops
  <2>2. Asentada(w) = [base EXCEPT !.vigencia[pet[w].rol] = pet[w].dato]
    BY <1>3 DEF Asentada
  <2>3. QED
    BY <1>1, <2>1, <2>2 DEF Base
<1>4. CASE pet[w].escrito /\ pet[w].op = "revocar"
  <2>1. Asentada(w) = [base EXCEPT !.vigencia[pet[w].rol] = Nada]
    BY <1>4 DEF Asentada
  <2>2. QED
    BY <1>1, <2>1 DEF Base
<1>5. CASE pet[w].escrito /\ pet[w].op = "ampliar"
  <2> DEFINE s == (base.permisos[pet[w].rol] \ pet[w].quita) \cup pet[w].permisos
  <2>1. s \subseteq Claves
    BY <1>1
  <2>2. Asentada(w) = [base EXCEPT !.permisos[pet[w].rol] = s]
    BY <1>5 DEF Asentada
  <2> HIDE DEF s
  <2>3. QED
    BY <1>1, <2>1, <2>2 DEF Base
<1>6. CASE pet[w].escrito /\ pet[w].op = "estado"
  <2>1. Asentada(w) = [base EXCEPT !.activo = pet[w].activo]
    BY <1>6 DEF Asentada
  <2>2. QED
    BY <1>1, <2>1 DEF Base
<1>7. CASE pet[w].escrito /\ pet[w].op \notin {"asignar", "revocar", "ampliar", "estado"}
  BY <1>1, <1>7 DEF Asentada
<1>8. QED
  BY <1>2, <1>3, <1>4, <1>5, <1>6, <1>7

\* COMMIT makes what the others have read old news, never younger than it was.
LEMMA PasoCommit ==
    ASSUME IInv, NEW w \in Peticiones, Commit(w)
    PROVE  IInv'
<1>1. /\ pet \in [Peticiones -> Peticion] /\ pet[w] \in Peticion /\ llave \in Llave
      /\ pet[w].h \in Procesos /\ pet[w].activo \in BOOLEAN
      /\ fila \in [Filas -> Peticiones \cup {Nada}]
      /\ UNCHANGED <<abiertas, redis, memoria>>
  BY QuienEscribe, CachadasAhora DEF Peticion, Commit, SinCaches
<1>2. base' \in Base
  BY AsentadaTipo DEF Commit
<1>3. llave' \in Llave
  BY <1>1 DEF Commit, LlaveAsentada, Llave
<1>4. /\ fila' \in [Filas -> Peticiones \cup {Nada}] /\ \A f \in Filas : fila'[f] # w
      /\ \A v \in Peticiones \ {w} : \A f \in Filas : fila'[f] = v <=> fila[f] = v
  BY <1>1, SueltaTipo DEF Commit
<1>5. /\ pet'[w] = Libre(pet[w].h) /\ pet'[w] \in Peticion /\ pet'[w].paso = "libre"
      /\ pet'[w].op = "usar"
  BY <1>1, LibreTipo DEF Commit, Termina
<1>6. ASSUME NEW v \in Peticiones, v # w
      PROVE  /\ pet'[v] \in Peticion /\ pet'[v].paso = pet[v].paso /\ pet'[v].op = pet[v].op
             /\ pet'[v].edad = pet[v].edad /\ pet'[v].permisos = pet[v].permisos
             /\ pet'[v].dato = pet[v].dato /\ pet'[v].activo = pet[v].activo
  BY <1>1, <1>6 DEF Commit, Termina
<1>7. pet' \in [Peticiones -> Peticion]
  BY <1>1, <1>5 DEF Commit, Termina
<1>8. /\ sin' \in [Claves -> Nat] /\ \A c \in Claves : sin'[c] <= sin[c] /\ sin[c] \in Nat
      /\ \A c \in Tiene(base') : sin'[c] = 0
  <2>1. sin' = [c \in Claves |-> IF c \in Tiene(base') THEN 0 ELSE sin[c]]
    BY DEF Commit
  <2>2. sin \in [Claves -> Nat] /\ Tiene(base') \subseteq Claves
    BY <1>2, TieneTipo DEF IInv, Formas
  <2>3. QED
    BY <2>1, <2>2
<1>9. inactivo' \in Nat /\ inactivo' <= inactivo /\ (base'.activo => inactivo' = 0) /\ inactivo \in Nat
  BY DEF Commit, IInv, Formas
<1>10. redis \in Redis /\ memoria \in [Procesos -> Memoria]
  BY DEF IInv, Formas, TypeOK
<1>11. EnRedis' /\ EnMemoria'
  <2>1. ASSUME NEW c \in redis.permisos PROVE sin'[c] <= 2 * MaxDuracion + (TtlRedis - redis.ttl)
    <3>1. c \in Claves /\ redis.ttl \in Nat
      BY <1>10, Constantes DEF Redis
    <3>2. sin[c] <= 2 * MaxDuracion + (TtlRedis - redis.ttl)
      BY DEF IInv, EnRedis
    <3>3. sin'[c] \in Nat /\ sin'[c] <= sin[c] /\ sin[c] \in Nat
      BY <1>8, <3>1
    <3>4. QED
      BY <3>1, <3>2, <3>3, Constantes
  <2>2. ASSUME redis.perfil = TRUE PROVE inactivo' <= MaxDuracion + (TtlPerfil - redis.ttlPerfil)
    <3>1. redis.ttlPerfil \in Nat
      BY <1>10, Constantes DEF Redis
    <3>2. inactivo <= MaxDuracion + (TtlPerfil - redis.ttlPerfil)
      BY <2>2 DEF IInv, EnRedis
    <3>3. QED
      BY <1>9, <3>1, <3>2, Constantes
  <2>3. ASSUME NEW h \in Procesos, NEW c \in memoria[h].permisos
        PROVE  sin'[c] <= EdadRedis + MaxDuracion + (TtlLocal + 1 - memoria[h].vida)
    <3>1. c \in Claves /\ memoria[h].vida \in Nat
      BY <1>10, Constantes DEF Memoria
    <3>2. sin[c] <= EdadRedis + MaxDuracion + (TtlLocal + 1 - memoria[h].vida)
      BY DEF IInv, EnMemoria
    <3>3. sin'[c] \in Nat /\ sin'[c] <= sin[c] /\ sin[c] \in Nat
      BY <1>8, <3>1
    <3>4. QED
      BY <3>1, <3>2, <3>3, Constantes, Cotas
  <2>4. QED
    BY <1>1, <2>1, <2>2, <2>3 DEF EnRedis, EnMemoria
<1>12. Lector(w)' /\ Escritor(w)'
  BY <1>4, <1>5 DEF Lector, Escritor, En, Ops
<1>13. ASSUME NEW v \in Peticiones, v # w PROVE Lector(v)' /\ Escritor(v)'
  <2>1. Lector(v) /\ Escritor(v) /\ pet[v] \in Peticion /\ pet[v].edad \in Nat
    BY <1>1 DEF IInv, Peticion
  <2>2. ASSUME NEW n \in Nat, NEW c \in Claves, sin[c] <= n PROVE sin'[c] <= n
    BY <1>8, <2>2
  <2>3. ASSUME NEW n \in Nat, Reciente(v, n) PROVE Reciente(v, n)'
    <3>1. n + pet[v].edad \in Nat /\ pet[v].permisos \subseteq Claves
      BY <2>1 DEF Peticion
    <3>2. QED
      BY <1>6, <1>13, <2>2, <2>3, <3>1 DEF Reciente
  <2>4. pet[v].paso \in {"base", "guardar"} =>
         \A c \in redis'.permisos : sin'[c] <= pet[v].edad + MaxDuracion
    <3>1. pet[v].edad + MaxDuracion \in Nat /\ redis.permisos \subseteq Claves
      BY <1>10, <2>1, Constantes DEF Redis
    <3>2. QED
      BY <1>1, <2>1, <2>2, <3>1 DEF Lector
  <2>5. /\ En(v, "perfil_guardar") /\ pet[v].activo => inactivo' <= pet[v].edad
        /\ En(v, "atender") /\ Ops(v, {"usar", "crear_llave"}) =>
             inactivo' <= MaxDuracion + (TtlPerfil - 1) + pet[v].edad
    BY <1>9, <2>1, Constantes DEF Lector
  <2>6. Lector(v)'
    BY <1>6, <1>13, <2>1, <2>3, <2>4, <2>5, Cotas DEF Lector, En, Ops
  <2>7. Recurso(v)' = Recurso(v)
    BY <1>6, <1>13 DEF Recurso, Ops
  <2>8. /\ En(v, "commit") /\ Ops(v, {"usar_llave", "revocar_llave"}) => fila'["llave"] = v
        /\ \A f \in Filas : fila'[f] = v => f = Recurso(v) /\ pet[v].paso \in Retienen
    BY <1>4, <1>13, <2>1 DEF Escritor, Filas
  <2>9. Escritor(v)'
    BY <1>6, <1>13, <2>1, <2>7, <2>8 DEF Escritor, En, Ops
  <2>10. QED
    BY <2>6, <2>9
<1>14. \A v \in Peticiones : Lector(v)' /\ Escritor(v)'
  BY <1>12, <1>13
<1>15. TypeOK'
  <2>1. \A f \in Filas : fila'[f] # Nada => pet'[fila'[f]].paso \in Retienen
    BY <1>4, <1>14 DEF Escritor
  <2>2. QED
    BY <1>1, <1>2, <1>3, <1>4, <1>7, <2>1 DEF TypeOK, Retienen, IInv, Formas
<1>16. QED
  BY <1>8, <1>9, <1>11, <1>14, <1>15 DEF IInv, Formas, Sabe

\* A unit of time less to live is a unit of time more of age.
LEMMA PasoTic ==
    ASSUME IInv, Tic
    PROVE  IInv'
<1>1. /\ pet \in [Peticiones -> Peticion] /\ base \in Base /\ redis \in Redis
      /\ memoria \in [Procesos -> Memoria] /\ UNCHANGED <<abiertas, fila>>
      /\ sin \in [Claves -> Nat] /\ inactivo \in Nat
  BY DEF IInv, Formas, TypeOK, Tic
<1>18. llave' \in Llave /\ llave'.activa = llave.activa /\ llave'.permisos = llave.permisos
  <2>1. llave \in Llave
    BY DEF IInv, Formas, TypeOK
  <2>2. llave' = [llave EXCEPT !.vence = IF @ = Siempre THEN @ ELSE Menos(@)]
    BY DEF Tic
  <2>3. \A n \in 0..MaxVigencia : Menos(n) \in 0..MaxVigencia
    BY Constantes DEF Menos
  <2>4. (IF llave.vence = Siempre THEN llave.vence ELSE Menos(llave.vence))
          \in {Siempre} \cup 0..MaxVigencia
    BY <2>1, <2>3 DEF Llave
  <2>5. QED
    BY <2>1, <2>2, <2>4 DEF Llave
<1>2. base' \in Base /\ base'.permisos = base.permisos /\ base'.activo = base.activo
  <2> DEFINE f == [r \in Roles |-> IF base.vigencia[r] \in Nat THEN Menos(base.vigencia[r])
                                                             ELSE base.vigencia[r]]
  <2>1. base' = [base EXCEPT !.vigencia = f]
    BY DEF Tic
  <2>2. ASSUME NEW r \in Roles PROVE f[r] \in {Nada, Siempre} \cup 0..MaxVigencia
    <3>1. base.vigencia[r] \in {Nada, Siempre} \cup 0..MaxVigencia
      BY <1>1 DEF Base
    <3>2. CASE base.vigencia[r] \in Nat
      BY <3>1, <3>2, Constantes DEF Menos
    <3>3. CASE base.vigencia[r] \notin Nat
      BY <3>1, <3>3
    <3>4. QED
      BY <3>2, <3>3
  <2>3. f \in [Roles -> {Nada, Siempre} \cup 0..MaxVigencia]
    BY <2>2
  <2> HIDE DEF f
  <2>4. QED
    BY <1>1, <2>1, <2>3 DEF Base
<1>3. /\ redis'.permisos = IF redis.ttl = 1 THEN {} ELSE redis.permisos
      /\ redis'.ttl = Menos(redis.ttl)
      /\ redis'.perfil = IF redis.ttlPerfil = 1 THEN Nada ELSE redis.perfil
      /\ redis'.ttlPerfil = Menos(redis.ttlPerfil)
      /\ redis' = [permisos |-> IF redis.ttl = 1 THEN {} ELSE redis.permisos,
                   ttl |-> Menos(redis.ttl),
                   perfil |-> IF redis.ttlPerfil = 1 THEN Nada ELSE redis.perfil,
                   ttlPerfil |-> Menos(redis.ttlPerfil)]
  BY DEF Tic
<1>4. /\ redis.ttl \in 0..TtlRedis /\ redis.ttlPerfil \in 0..TtlPerfil /\ redis.permisos \subseteq Claves
      /\ redis.perfil \in BOOLEAN \cup {Nada}
      /\ redis.permisos # {} <=> redis.ttl > 0
      /\ redis.perfil # Nada <=> redis.ttlPerfil > 0
  BY <1>1, CachadasAhora DEF Redis, Cachadas
<1>5. /\ redis' \in Redis
      /\ redis'.permisos # {} <=> redis'.ttl > 0
      /\ redis'.perfil # Nada <=> redis'.ttlPerfil > 0
  <2>1. Menos(redis.ttl) \in 0..TtlRedis /\ Menos(redis.ttlPerfil) \in 0..TtlPerfil
    BY <1>4, Constantes DEF Menos
  <2>2. redis' \in Redis
    BY <1>3, <1>4, <2>1 DEF Redis
  <2>3. redis'.permisos # {} <=> redis'.ttl > 0
    BY <1>3, <1>4, Constantes DEF Menos
  <2>4. redis'.perfil # Nada <=> redis'.ttlPerfil > 0
    BY <1>3, <1>4, Constantes DEF Menos
  <2>5. QED
    BY <2>2, <2>3, <2>4
<1>6. ASSUME NEW h \in Procesos
      PROVE  /\ memoria'[h].permisos = IF memoria[h].vida = 1 THEN {} ELSE memoria[h].permisos
             /\ memoria'[h].vida = Menos(memoria[h].vida)
             /\ memoria[h].vida \in 0..TtlLocal + 1 /\ memoria[h].permisos \subseteq Claves
             /\ memoria[h].permisos # {} <=> memoria[h].vida > 0
             /\ memoria'[h] \in Memoria
             /\ memoria'[h].permisos # {} <=> memoria'[h].vida > 0
  <2>1. memoria'[h] = [permisos |-> IF memoria[h].vida = 1 THEN {} ELSE memoria[h].permisos,
                       vida |-> Menos(memoria[h].vida)]
    BY DEF Tic
  <2>2. /\ memoria[h].vida \in 0..TtlLocal + 1 /\ memoria[h].permisos \subseteq Claves
        /\ memoria[h].permisos # {} <=> memoria[h].vida > 0
    BY <1>1, CachadasAhora DEF Memoria, Cachadas
  <2>3. Menos(memoria[h].vida) \in 0..TtlLocal + 1
    BY <2>2, Constantes DEF Menos
  <2>4. memoria'[h] \in Memoria
    BY <2>1, <2>2, <2>3 DEF Memoria
  <2>5. memoria'[h].permisos # {} <=> memoria'[h].vida > 0
    BY <2>1, <2>2, Constantes DEF Menos
  <2>6. QED
    BY <2>1, <2>2, <2>4, <2>5
<1>7. memoria' \in [Procesos -> Memoria]
  <2>1. memoria' = [h \in Procesos |->
                     [permisos |-> IF memoria[h].vida = 1 THEN {} ELSE memoria[h].permisos,
                      vida |-> Menos(memoria[h].vida)]]
    BY DEF Tic
  <2>2. QED
    BY <1>6, <2>1
<1>8. ASSUME NEW w \in Peticiones
      PROVE  /\ pet'[w] \in Peticion /\ pet[w].edad \in Nat
             /\ pet[w].paso # "libre" => pet'[w].edad = pet[w].edad + 1
             /\ pet'[w].paso = pet[w].paso /\ pet'[w].op = pet[w].op /\ pet'[w].dato = pet[w].dato
             /\ pet'[w].permisos = pet[w].permisos /\ pet'[w].quita = pet[w].quita
             /\ pet'[w].activo = pet[w].activo
             /\ pet'[w].rol = pet[w].rol
  <2>1. pet[w] \in Peticion /\ pet[w].edad \in 0..MaxDuracion
    BY <1>1 DEF Peticion
  <2>2. CASE En(w, "libre")
    <3>1. pet'[w] = pet[w]
      BY <2>2 DEF Tic
    <3>2. QED
      BY <2>1, <2>2, <3>1 DEF En
  <2>3. CASE ~En(w, "libre")
    <3>1. pet'[w] = [pet[w] EXCEPT !.edad = @ + 1] /\ pet[w].edad < MaxDuracion
      BY <2>3 DEF Tic
    <3>2. pet[w].edad + 1 \in 0..MaxDuracion
      BY <2>1, <3>1, Constantes
    <3>3. QED
      BY <2>1, <3>1, <3>2 DEF Peticion
  <2>4. QED
    BY <2>2, <2>3
<1>9. pet' \in [Peticiones -> Peticion]
  <2>1. pet' = [w \in Peticiones |->
                 IF En(w, "libre") THEN pet[w] ELSE [pet[w] EXCEPT !.edad = @ + 1]]
    BY DEF Tic
  <2>2. QED
    BY <1>8, <2>1
<1>10. /\ sin' \in [Claves -> Nat]
       /\ \A c \in Claves : sin'[c] <= sin[c] + 1 /\ sin[c] \in Nat /\ sin'[c] \in Nat
       /\ \A c \in Tiene(base') : sin'[c] = 0
  <2>1. sin' = [c \in Claves |-> IF c \in Tiene(base') THEN 0 ELSE Mas(sin[c], CotaPermiso)]
    BY DEF Tic
  <2>2. \A n \in Nat : Mas(n, CotaPermiso) \in Nat /\ Mas(n, CotaPermiso) <= n + 1
    BY Cotas DEF Mas
  <2>3. Tiene(base') \subseteq Claves
    BY <1>2, TieneTipo
  <2>4. QED
    BY <1>1, <2>1, <2>2, <2>3
<1>11. inactivo' \in Nat /\ inactivo' <= inactivo + 1 /\ (base'.activo => inactivo' = 0)
  <2>1. inactivo' = IF base.activo THEN 0 ELSE Mas(inactivo, CotaPerfil)
    BY DEF Tic
  <2>2. Mas(inactivo, CotaPerfil) \in Nat /\ Mas(inactivo, CotaPerfil) <= inactivo + 1
    BY <1>1, Cotas DEF Mas
  <2>3. QED
    BY <1>1, <1>2, <2>1, <2>2
<1>12. EnRedis'
  <2>1. ASSUME NEW c \in redis'.permisos PROVE sin'[c] <= 2 * MaxDuracion + (TtlRedis - redis'.ttl)
    <3>1. c \in redis.permisos /\ redis.ttl # 1 /\ redis.ttl > 0
      BY <1>3, <1>4, <2>1
    <3>2. sin[c] <= 2 * MaxDuracion + (TtlRedis - redis.ttl)
      BY <3>1 DEF IInv, EnRedis
    <3>3. sin'[c] <= sin[c] + 1 /\ sin[c] \in Nat /\ sin'[c] \in Nat
      BY <1>4, <1>10, <3>1
    <3>4. redis'.ttl = redis.ttl - 1 /\ redis.ttl \in Nat
      BY <1>3, <1>4, <3>1, Constantes DEF Menos
    <3>5. QED
      BY <3>2, <3>3, <3>4, Constantes
  <2>2. ASSUME redis'.perfil = TRUE PROVE inactivo' <= MaxDuracion + (TtlPerfil - redis'.ttlPerfil)
    <3>0. Nada # TRUE
      BY Constantes
    <3>1. redis.perfil = TRUE /\ redis.ttlPerfil # 1
      BY <1>3, <2>2, <3>0, Zenon
    <3>2. redis.ttlPerfil > 0
      BY <1>4, <3>0, <3>1, Zenon
    <3>3. inactivo <= MaxDuracion + (TtlPerfil - redis.ttlPerfil)
      BY <3>1 DEF IInv, EnRedis
    <3>4. redis'.ttlPerfil = redis.ttlPerfil - 1 /\ redis.ttlPerfil \in Nat
      BY <1>3, <1>4, <3>1, <3>2, Constantes DEF Menos
    <3>5. QED
      BY <1>1, <1>11, <3>3, <3>4, Constantes
  <2>3. QED
    BY <2>1, <2>2 DEF EnRedis
<1>13. EnMemoria'
  <2>1. ASSUME NEW h \in Procesos, NEW c \in memoria'[h].permisos
        PROVE  sin'[c] <= EdadRedis + MaxDuracion + (TtlLocal + 1 - memoria'[h].vida)
    <3>1. c \in memoria[h].permisos /\ memoria[h].vida # 1 /\ memoria[h].vida > 0 /\ c \in Claves
      BY <1>6, <2>1
    <3>2. sin[c] <= EdadRedis + MaxDuracion + (TtlLocal + 1 - memoria[h].vida)
      BY <3>1 DEF IInv, EnMemoria
    <3>3. sin'[c] <= sin[c] + 1 /\ sin[c] \in Nat /\ sin'[c] \in Nat
      BY <1>10, <3>1
    <3>4. memoria'[h].vida = memoria[h].vida - 1 /\ memoria[h].vida \in Nat
      BY <1>6, <3>1, Constantes DEF Menos
    <3>5. QED
      BY <3>2, <3>3, <3>4, Constantes, Cotas
  <2>2. QED
    BY <2>1 DEF EnMemoria
<1>14. ASSUME NEW w \in Peticiones PROVE Lector(w)' /\ Escritor(w)'
  <2>1. Lector(w) /\ Escritor(w) /\ pet[w].permisos \subseteq Claves /\ pet[w].edad \in Nat
    BY <1>1, <1>8 DEF IInv, Peticion
  <2>2. ASSUME NEW n \in Nat, Reciente(w, n), pet[w].paso # "libre" PROVE Reciente(w, n)'
    <3>1. ASSUME NEW c \in pet[w].permisos PROVE sin'[c] <= n + (pet[w].edad + 1)
      <4>1. sin[c] <= n + pet[w].edad
        BY <2>2 DEF Reciente
      <4>2. sin'[c] <= sin[c] + 1 /\ sin[c] \in Nat /\ sin'[c] \in Nat
        BY <1>10, <2>1
      <4>3. QED
        BY <2>1, <4>1, <4>2
    <3>2. QED
      BY <1>8, <2>2, <3>1 DEF Reciente
  <2>3. ASSUME pet[w].paso \in {"base", "guardar"}, NEW c \in redis'.permisos
        PROVE  sin'[c] <= (pet[w].edad + 1) + MaxDuracion
    <3>1. c \in redis.permisos /\ c \in Claves
      BY <1>3, <1>4
    <3>2. sin[c] <= pet[w].edad + MaxDuracion
      BY <2>1, <2>3, <3>1 DEF Lector
    <3>3. QED
      BY <1>10, <2>1, <3>1, <3>2, Constantes
  <2>4. /\ En(w, "perfil_guardar") /\ pet[w].activo => inactivo' <= pet[w].edad + 1
        /\ En(w, "atender") /\ Ops(w, {"usar", "crear_llave"}) =>
             inactivo' <= MaxDuracion + (TtlPerfil - 1) + (pet[w].edad + 1)
    BY <1>1, <1>11, <2>1, Constantes DEF Lector
  <2>5. Lector(w)'
    <3>1. CASE pet[w].paso = "libre"
      BY <1>8, <3>1 DEF Lector, En
    <3>2. CASE pet[w].paso # "libre"
      BY <1>8, <2>1, <2>2, <2>3, <2>4, <3>2, Cotas DEF Lector, En, Ops
    <3>3. QED
      BY <3>1, <3>2
  <2>6. Recurso(w)' = Recurso(w)
    BY <1>8 DEF Recurso, Ops
  <2>7. Escritor(w)'
    BY <1>1, <1>2, <1>8, <1>18, <2>1, <2>6 DEF Escritor, En, Ops
  <2>8. QED
    BY <2>5, <2>7
<1>15. TypeOK'
  <2>1. \A f \in Filas : fila'[f] # Nada => pet'[fila'[f]].paso \in Retienen
    <3>1. \A f \in Filas : /\ fila'[f] = fila[f] /\ fila[f] \in Peticiones \cup {Nada}
                           /\ fila[f] # Nada => pet[fila[f]].paso \in Retienen
      BY <1>1 DEF IInv, Formas, TypeOK, Retienen
    <3>2. QED
      BY <1>8, <3>1
  <2>2. QED
    BY <1>1, <1>2, <1>5, <1>6, <1>7, <1>9, <1>18, <2>1 DEF TypeOK, Retienen, IInv, Formas
<1>16. QED
  BY <1>10, <1>11, <1>12, <1>13, <1>14, <1>15 DEF IInv, Formas, Sabe

----------------------------------------------------------------------------
(* Every step *)

\* The invariant survives every step.
LEMMA NextInv == IInv /\ [Next]_vars => IInv'
<1> SUFFICES ASSUME IInv, [Next]_vars PROVE IInv'
  OBVIOUS
<1>1. ASSUME NEW w \in Peticiones, NEW op \in Operaciones, Empezar(w, op) PROVE IInv'
  BY <1>1, PasoEmpezar
<1>2. ASSUME NEW w \in Peticiones, Sigue(w) PROVE IInv'
  <2>1. CASE MirarMemoria(w) \/ MirarRedis(w) \/ LeerPermisos(w) \/ Guardar(w) \/ Recordar(w)
    BY <2>1, PasoMirarMemoria, PasoMirarRedis, PasoLeerPermisos, PasoGuardar, PasoRecordar
  <2>2. CASE MirarPerfil(w) \/ LeerPerfil(w) \/ GuardarPerfil(w) \/ Atender(w) \/ CrearLlave(w)
    BY <2>2, PasoMirarPerfil, PasoLeerPerfil, PasoGuardarPerfil, PasoAtender, PasoCrearLlave
  <2>3. CASE LeerAsignacion(w) \/ LeerRol(w) \/ LeerUsuario(w) \/ LeerLlave(w) \/ Releer(w)
    BY <2>3, PasoLeerAsignacion, PasoLeerRol, PasoLeerUsuario, PasoLeerLlave, PasoReleer
  <2>4. CASE Toma(w)
    BY <2>4, PasoAsignar, PasoRevocar, PasoAmpliar, PasoEscribir DEF Toma
  <2>5. CASE LeerPropietario(w) \/ Borrar(w) \/ Commit(w)
    BY <2>5, PasoLeerPropietario, PasoBorrar, PasoCommit
  <2>6. QED
    BY <1>2, <2>1, <2>2, <2>3, <2>4, <2>5 DEF Sigue
<1>3. ASSUME NEW w \in Peticiones, Caer(w) PROVE IInv'
  BY <1>3, PasoCaer
<1>4. ASSUME NEW h \in Procesos, Desalojar(h) PROVE IInv'
  BY <1>4, PasoDesalojar
<1>5. CASE Tic
  BY <1>5, PasoTic
<1>6. CASE UNCHANGED vars
  <2>1. UNCHANGED <<abiertas, base, fila, redis, memoria, llave, pet, sin, inactivo>>
    BY <1>6 DEF vars
  <2>2. Formas' /\ Sabe' /\ EnRedis' /\ EnMemoria'
    BY <2>1 DEF IInv, Formas, TypeOK, Sabe, EnRedis, EnMemoria
  <2>3. \A w \in Peticiones : Lector(w)' /\ Escritor(w)'
    BY <2>1 DEF IInv, Lector, Escritor, En, Ops, Reciente, Recurso
  <2>4. QED
    BY <2>2, <2>3 DEF IInv
<1>7. QED
  BY <1>1, <1>2, <1>3, <1>4, <1>5, <1>6 DEF Next

\* The invariant holds in every reachable state.
THEOREM Invariante == Spec => []IInv
BY InitInv, NextInv, PTL DEF Spec

----------------------------------------------------------------------------
(* What it shows *)

\* The rows, the caches and the requests always have the form the code gives them; a
\* cached value has time left exactly while it is there, and only a request that has
\* written holds a row.
THEOREM Tipos == Spec => []TypeOK
<1>1. IInv => TypeOK
  BY DEF IInv, Formas
<1>2. QED
  BY <1>1, Invariante, PTL

\* However many requests overlap, read, fill and invalidate the two caches, nobody is
\* let in with a permission the user lost more than CotaPermiso ago.
THEOREM PermisosRecientes == Spec => []ObsolescenciaAcotada
<1>1. IInv => ObsolescenciaAcotada
  <2> SUFFICES ASSUME IInv, NEW w \in Peticiones, En(w, "atender"), Ops(w, {"usar", "crear_llave"}),
                      NEW c \in pet[w].permisos
               PROVE  sin[c] <= CotaPermiso
    BY DEF ObsolescenciaAcotada
  <2>1. sin[c] <= EdadMemoria + pet[w].edad
    BY DEF IInv, Lector, Reciente
  <2>2. pet[w].edad \in 0..MaxDuracion /\ pet[w].permisos \subseteq Claves
    BY QuienEscribe DEF Peticion
  <2>3. sin[c] \in Nat
    BY <2>2 DEF IInv, Formas
  <2>4. QED
    BY <2>1, <2>2, <2>3, Cotas, Constantes
<1>2. QED
  BY <1>1, Invariante, PTL

\* Nobody is let in whose user was deactivated more than CotaPerfil ago.
THEOREM PerfilReciente == Spec => []AdmisionAcotada
<1>1. IInv => AdmisionAcotada
  <2> SUFFICES ASSUME IInv, NEW w \in Peticiones, En(w, "atender"), Ops(w, {"usar", "crear_llave"})
               PROVE  inactivo <= CotaPerfil
    BY DEF AdmisionAcotada
  <2>1. inactivo <= MaxDuracion + (TtlPerfil - 1) + pet[w].edad /\ inactivo \in Nat
    BY DEF IInv, Formas, Lector
  <2>2. pet[w].edad \in 0..MaxDuracion
    BY QuienEscribe DEF Peticion
  <2>3. QED
    BY <2>1, <2>2, Cotas, Constantes
<1>2. QED
  BY <1>1, Invariante, PTL

\* Only COMMIT changes the permissions of a role; a key changes by COMMIT or is new.
LEMMA QuienCambia ==
    ASSUME IInv, [Next]_vars
    PROVE  \/ \E v \in Peticiones : Commit(v)
           \/ \E v \in Peticiones : CrearLlave(v)
           \/ (base'.permisos = base.permisos /\ llave'.activa = llave.activa)
<1>1. CASE \E w \in Peticiones : \E op \in Operaciones : Empezar(w, op)
  BY <1>1 DEF Empezar, SoloPet, SinBase
<1>2. ASSUME NEW w \in Peticiones, Sigue(w)
      PROVE  \/ Commit(w) \/ CrearLlave(w) \/ (base' = base /\ llave' = llave)
  <2>1. CASE MirarMemoria(w) \/ MirarRedis(w) \/ LeerPermisos(w) \/ Guardar(w) \/ Recordar(w)
             \/ MirarPerfil(w) \/ LeerPerfil(w) \/ GuardarPerfil(w) \/ Atender(w) \/ Borrar(w)
    BY <2>1 DEF MirarMemoria, MirarRedis, LeerPermisos, Guardar, Recordar, MirarPerfil, LeerPerfil,
                GuardarPerfil, Atender, Borrar, SoloPet, SinBase
  <2>2. CASE LeerAsignacion(w) \/ LeerRol(w) \/ LeerUsuario(w) \/ LeerLlave(w) \/ Releer(w)
    BY <2>2 DEF LeerAsignacion, LeerRol, LeerUsuario, LeerLlave, Releer, SoloPet, SinBase
  <2>3. CASE Toma(w) \/ LeerPropietario(w)
    BY <2>3 DEF Toma, Asignar, Revocar, Ampliar, Escribir, LeerPropietario, SoloFila
  <2>4. CASE Commit(w) \/ CrearLlave(w)
    BY <2>4
  <2>5. QED
    BY <1>2, <2>1, <2>2, <2>3, <2>4 DEF Sigue
<1>3. CASE \E w \in Peticiones : Caer(w)
  BY <1>3 DEF Caer
<1>4. CASE \E h \in Procesos : Desalojar(h)
  BY <1>4 DEF Desalojar, SinBase
<1>5. CASE Tic
  <2>1. base \in Base /\ llave \in Llave
    BY DEF IInv, Formas, TypeOK
  <2>2. QED
    BY <1>5, <2>1 DEF Tic, Base, Llave
<1>6. CASE UNCHANGED vars
  BY <1>6 DEF vars
<1>7. QED
  BY <1>1, <1>2, <1>3, <1>4, <1>5, <1>6 DEF Next

\* A row stays with the request that holds it when another commits.
LEMMA SueltaSuya ==
    ASSUME IInv, NEW v \in Peticiones, Commit(v), NEW f \in Filas, NEW w \in Peticiones,
           fila[f] = w, fila'[f] = Nada
    PROVE  v = w
BY Constantes DEF Commit, Suelta

----------------------------------------------------------------------------
(* What outlives the changes under way *)

\* The checks a request goes through before its handler.
Entrada == {"memoria", "redis", "base", "guardar", "recordar", "perfil", "perfil_base",
            "perfil_guardar"}

\* Only requests of the user go through them.
Ruta == \A w \in Peticiones : pet[w].paso \in Entrada => Ops(w, {"usar", "crear_llave"})

\* What a step does with a request, as far as its route goes.
Quieta(w) == /\ pet'[w].op = pet[w].op /\ pet'[w].paso = pet[w].paso /\ pet'[w].rol = pet[w].rol
             /\ pet'[w].permisos = pet[w].permisos /\ pet'[w].quita = pet[w].quita
Empieza(w) == \/ pet'[w].paso = "memoria" /\ pet'[w].op \in {"usar", "crear_llave"}
              \/ pet'[w].paso = "escribir" /\ pet'[w].op \in {"revocar", "login"}
              \/ pet'[w].paso \in {"leer", "libre"}
Recorre(w) == /\ pet[w].paso \in Entrada /\ pet'[w].op = pet[w].op
              /\ pet'[w].paso \in Entrada \cup {"atender"}
Otra(w) == /\ pet[w].op \in {"asignar", "revocar", "login", "estado"} /\ pet'[w].op = pet[w].op
           /\ pet'[w].paso \notin Entrada
Ajena(w) == Quieta(w) \/ Empieza(w) \/ Recorre(w) \/ Otra(w)

\* A request that passes from one step to another keeps the rest.
LEMMA PasaTipo ==
    ASSUME IInv, NEW w \in Peticiones, NEW p \in Pasos, Pasa(w, p)
    PROVE  pet'[w] = [pet[w] EXCEPT !.paso = p] /\ pet'[w].paso = p /\ pet'[w].op = pet[w].op
BY QuienEscribe DEF Pasa, Peticion

\* The step of a request, one action after another.
LEMMA Movimiento ==
    ASSUME IInv, [Next]_vars, NEW w \in Peticiones
    PROVE  \/ Ajena(w) \/ LeerRol(w) \/ LeerLlave(w) \/ Releer(w) \/ Ampliar(w) \/ Escribir(w)
           \/ LeerPropietario(w)
<1>1. /\ pet[w] \in Peticion /\ pet \in [Peticiones -> Peticion] /\ Escritor(w)
      /\ \A h \in Procesos : Libre(h).paso = "libre"
  BY QuienEscribe, LibreTipo
<1>2. Termina(w) => Ajena(w)
  BY <1>1 DEF Termina, Ajena, Empieza, Peticion
<1>3. ASSUME NEW v \in Peticiones, NEW op \in Operaciones, Empezar(v, op) PROVE Ajena(w)
  <2>1. CASE v # w
    BY <1>1, <1>3, <2>1 DEF Empezar, Ajena, Quieta
  <2>2. CASE v = w
    <3>1. PICK h \in Procesos :
             /\ pet'[w].paso = CASE op \in {"usar", "crear_llave"} -> "memoria"
                                 [] op \in {"revocar", "login"} -> "escribir"
                                 [] OTHER -> "leer"
             /\ pet'[w].op = op
      BY <1>1, <1>3, <2>2 DEF Empezar, Libre
    <3>2. QED
      BY <3>1 DEF Ajena, Empieza
  <2>3. QED
    BY <2>1, <2>2
<1>4. ASSUME NEW v \in Peticiones, v # w, Sigue(v) \/ Caer(v) PROVE Quieta(w)
  <2>1. pet'[w] = pet[w]
    <3>1. CASE Caer(v)
      BY <1>1, <1>4, <3>1 DEF Caer, Termina
    <3>2. CASE MirarMemoria(v) \/ MirarRedis(v) \/ LeerPermisos(v) \/ Guardar(v) \/ Recordar(v)
      BY <1>1, <1>4, <3>2 DEF MirarMemoria, MirarRedis, LeerPermisos, Guardar, Recordar, Pasa, Termina, Lee
    <3>3. CASE MirarPerfil(v) \/ LeerPerfil(v) \/ GuardarPerfil(v) \/ Atender(v) \/ CrearLlave(v)
      BY <1>1, <1>4, <3>3 DEF MirarPerfil, LeerPerfil, GuardarPerfil, Atender, CrearLlave, Admitir,
                              Pasa, Termina, Lee
    <3>4. CASE LeerAsignacion(v) \/ LeerRol(v) \/ LeerUsuario(v) \/ LeerLlave(v) \/ Releer(v)
      BY <1>1, <1>4, <3>4 DEF LeerAsignacion, LeerRol, LeerUsuario, LeerLlave, Releer, Pasa, Termina, Lee
    <3>5. CASE LeerPropietario(v) \/ Borrar(v) \/ Commit(v)
      BY <1>1, <1>4, <3>5 DEF LeerPropietario, Borrar, Commit, Pasa, Termina
    <3>6. CASE Toma(v)
      BY <1>1, <1>4, <3>6 DEF Toma, Asignar, Revocar, Ampliar, Escribir, Pasa, Termina
    <3>7. QED
      BY <1>4, <3>1, <3>2, <3>3, <3>4, <3>5, <3>6 DEF Sigue
  <2>2. QED
    BY <2>1 DEF Quieta
<1>5. CASE MirarMemoria(w) \/ MirarRedis(w) \/ LeerPermisos(w) \/ Guardar(w) \/ Recordar(w)
           \/ MirarPerfil(w) \/ LeerPerfil(w) \/ GuardarPerfil(w)
  <2>1. pet[w].paso \in Entrada
    BY <1>5 DEF MirarMemoria, MirarRedis, LeerPermisos, Guardar, Recordar, MirarPerfil, LeerPerfil,
                GuardarPerfil, En, Entrada
  <2>2. Termina(w) \/ \E p \in Entrada \cup {"atender"} : pet'[w].paso = p /\ pet'[w].op = pet[w].op
    <3>1. CASE MirarMemoria(w) \/ MirarRedis(w)
      BY <1>1, <3>1 DEF MirarMemoria, MirarRedis, Pasa, Lee, Peticion, Entrada
    <3>2. CASE LeerPermisos(w) \/ Guardar(w) \/ Recordar(w)
      BY <1>1, <3>2 DEF LeerPermisos, Guardar, Recordar, Pasa, Termina, Lee, Peticion, Entrada
    <3>3. CASE MirarPerfil(w)
      BY <1>1, <3>3 DEF MirarPerfil, Admitir, Pasa, Lee, Peticion, Entrada
    <3>4. CASE LeerPerfil(w) \/ GuardarPerfil(w)
      BY <1>1, <3>4 DEF LeerPerfil, GuardarPerfil, Admitir, Pasa, Lee, Peticion, Entrada
    <3>5. QED
      BY <1>5, <3>1, <3>2, <3>3, <3>4
  <2>3. QED
    BY <1>2, <2>1, <2>2 DEF Ajena, Recorre
<1>6. CASE Atender(w) \/ CrearLlave(w) \/ Commit(w) \/ Caer(w)
  BY <1>2, <1>6 DEF Atender, CrearLlave, Commit, Caer
<1>7. CASE LeerAsignacion(w) \/ LeerUsuario(w) \/ Asignar(w) \/ Revocar(w) \/ Borrar(w)
  <2>1. pet[w].op \in {"asignar", "revocar", "login", "estado"}
    BY <1>1, <1>7 DEF LeerAsignacion, LeerUsuario, Asignar, Revocar, Borrar, En, Ops, Escritor
  <2>2. \/ Termina(w)
        \/ pet'[w].op = pet[w].op /\ pet'[w].paso \in {"escribir", "borrar", "reborrar", "borrar_perfil", "commit"}
    <3>1. CASE LeerAsignacion(w) \/ LeerUsuario(w)
      BY <1>1, <3>1 DEF LeerAsignacion, LeerUsuario, Pasa, Peticion
    <3>2. CASE Asignar(w)
      BY <1>1, <3>2 DEF Asignar, Peticion
    <3>3. CASE Revocar(w)
      BY <1>1, <3>3 DEF Revocar, Pasa, Peticion
    <3>4. CASE Borrar(w)
      BY <1>1, <3>4 DEF Borrar, Pasa, Peticion
    <3>5. QED
      BY <1>7, <3>1, <3>2, <3>3, <3>4
  <2>3. QED
    BY <1>2, <2>1, <2>2 DEF Ajena, Otra, Entrada
<1>8. CASE Tic
  <2>1. pet'[w] = IF En(w, "libre") THEN pet[w] ELSE [pet[w] EXCEPT !.edad = @ + 1]
    BY <1>8 DEF Tic
  <2>2. QED
    BY <1>1, <2>1 DEF Ajena, Quieta, Peticion
<1>9. CASE (\E h \in Procesos : Desalojar(h)) \/ UNCHANGED vars
  BY <1>9 DEF Desalojar, SinBase, vars, Ajena, Quieta
<1>10. CASE \E v \in Peticiones : Sigue(v) \/ Caer(v)
  <2>1. PICK v \in Peticiones : Sigue(v) \/ Caer(v)
    BY <1>10
  <2>2. CASE v # w
    BY <1>4, <2>1, <2>2 DEF Ajena
  <2>3. CASE v = w
    BY <1>5, <1>6, <1>7, <2>1, <2>3 DEF Sigue, Toma
  <2>4. QED
    BY <2>2, <2>3
<1>11. QED
  BY <1>3, <1>8, <1>9, <1>10 DEF Next

\* Where the six steps that are not Ajena leave the request.
LEMMA Destino ==
    ASSUME IInv, NEW w \in Peticiones
    PROVE  /\ LeerRol(w) => /\ pet'[w].paso = "releer" /\ pet'[w].op = "ampliar"
                            /\ pet'[w].rol = pet[w].rol
                            /\ base.permisos[pet[w].rol] \subseteq pet'[w].permisos
           /\ LeerLlave(w) => \/ pet'[w].paso = "libre"
                              \/ /\ pet'[w].paso \in {"propietario", "releer"}
                                 /\ pet'[w].op = pet[w].op /\ pet[w].op \in {"usar_llave", "revocar_llave"}
                                 /\ pet[w].op = "usar_llave" => llave.activa # FALSE
           /\ Releer(w) => /\ pet[w].paso = "releer" /\ pet'[w].paso = "escribir"
                           /\ pet'[w].op = pet[w].op /\ pet'[w].rol = pet[w].rol
                           /\ pet[w].op = "ampliar" => pet'[w].quita \cap pet[w].permisos = {}
           /\ Ampliar(w) => /\ pet[w].paso = "escribir"
                            /\ \/ pet'[w].paso = "libre"
                               \/ /\ pet'[w].paso = "commit" /\ pet'[w].op = pet[w].op
                                  /\ pet'[w].rol = pet[w].rol /\ pet'[w].quita = pet[w].quita
                                  /\ pet[w].op = "ampliar"
           /\ Escribir(w) => /\ pet[w].paso = "escribir" /\ pet[w].op # "ampliar"
                             /\ pet'[w].paso \in {"borrar", "propietario", "commit"}
                             /\ pet'[w].op = pet[w].op
           /\ LeerPropietario(w) => /\ pet[w].paso = "propietario" /\ pet[w].op = "usar_llave"
                                    /\ \/ pet'[w].paso = "libre"
                                       \/ /\ pet'[w].paso \in {"commit", "atender"}
                                          /\ pet'[w].op = pet[w].op
<1>1. /\ pet[w] \in Peticion /\ pet \in [Peticiones -> Peticion] /\ Escritor(w)
      /\ Libre(pet[w].h).paso = "libre"
  BY QuienEscribe, LibreTipo DEF Peticion
<1>2. Termina(w) => pet'[w].paso = "libre"
  BY <1>1 DEF Termina
<1>3. ASSUME LeerRol(w)
      PROVE  /\ pet'[w].paso = "releer" /\ pet'[w].op = "ampliar" /\ pet'[w].rol = pet[w].rol
             /\ base.permisos[pet[w].rol] \subseteq pet'[w].permisos
  BY <1>1, <1>3 DEF LeerRol, Lee, Peticion, Ops
<1>4. ASSUME LeerLlave(w)
      PROVE  \/ pet'[w].paso = "libre"
             \/ /\ pet'[w].paso \in {"propietario", "releer"}
                /\ pet'[w].op = pet[w].op /\ pet[w].op \in {"usar_llave", "revocar_llave"}
                /\ pet[w].op = "usar_llave" => llave.activa # FALSE
  <2>1. CASE llave.activa = Nada \/ (Ops(w, {"usar_llave"}) /\ SinUso)
    BY <1>2, <1>4, <2>1 DEF LeerLlave
  <2>2. CASE ~(llave.activa = Nada \/ (Ops(w, {"usar_llave"}) /\ SinUso))
    <3>1. PICK p \in IF Ops(w, {"usar_llave"}) THEN {"propietario", "releer"} ELSE {"releer"} :
            Lee(w, p, llave.permisos, Ops(w, {"usar_llave"}))
      BY <1>4, <2>2 DEF LeerLlave
    <3>2. p \in {"propietario", "releer"}
      BY <3>1
    <3>3. pet'[w].paso = p /\ pet'[w].op = pet[w].op
      BY <1>1, <3>1 DEF Lee, Peticion
    <3>4. pet[w].op \in {"usar_llave", "revocar_llave"}
      BY <1>4 DEF LeerLlave, Ops
    <3>5. pet[w].op = "usar_llave" => llave.activa # FALSE
      BY <2>2 DEF Ops, SinUso
    <3>6. QED
      BY <3>2, <3>3, <3>4, <3>5
  <2>3. QED
    BY <2>1, <2>2
<1>5. ASSUME Releer(w)
      PROVE  /\ pet[w].paso = "releer" /\ pet'[w].paso = "escribir"
             /\ pet'[w].op = pet[w].op /\ pet'[w].rol = pet[w].rol
             /\ pet[w].op = "ampliar" => pet'[w].quita \cap pet[w].permisos = {}
  BY <1>1, <1>5 DEF Releer, En, Ops, Peticion
<1>6. ASSUME Ampliar(w)
      PROVE  /\ pet[w].paso = "escribir"
             /\ \/ pet'[w].paso = "libre"
                \/ /\ pet'[w].paso = "commit" /\ pet'[w].op = pet[w].op
                   /\ pet'[w].rol = pet[w].rol /\ pet'[w].quita = pet[w].quita
                   /\ pet[w].op = "ampliar"
  BY <1>1, <1>2, <1>6 DEF Ampliar, Pasa, En, Ops, Peticion
<1>7. ASSUME Escribir(w)
      PROVE  /\ pet[w].paso = "escribir" /\ pet[w].op # "ampliar"
             /\ pet'[w].paso \in {"borrar", "propietario", "commit"} /\ pet'[w].op = pet[w].op
  BY <1>1, <1>7 DEF Escribir, En, Ops, Peticion
<1>8. ASSUME LeerPropietario(w)
      PROVE  /\ pet[w].paso = "propietario" /\ pet[w].op = "usar_llave"
             /\ \/ pet'[w].paso = "libre"
                \/ pet'[w].paso \in {"commit", "atender"} /\ pet'[w].op = pet[w].op
  BY <1>1, <1>2, <1>8 DEF LeerPropietario, Pasa, En, Ops, Escritor, Peticion
<1>9. QED
  BY <1>3, <1>4, <1>5, <1>6, <1>7, <1>8

\* A request of the user comes to its handler and goes no further; the others take no part.
LEMMA RutaSigue ==
    ASSUME IInv, Ruta, [Next]_vars
    PROVE  Ruta'
<1> SUFFICES ASSUME NEW w \in Peticiones, pet'[w].paso \in Entrada
             PROVE  pet'[w].op \in {"usar", "crear_llave"}
  BY DEF Ruta, Ops
<1>1. pet[w].paso \in Entrada => pet[w].op \in {"usar", "crear_llave"}
  BY DEF Ruta, Ops
<1>2. CASE Ajena(w)
  BY <1>1, <1>2 DEF Ajena, Quieta, Empieza, Recorre, Otra, Entrada
<1>3. CASE ~Ajena(w)
  BY <1>3, Movimiento, Destino DEF Entrada
<1>4. QED
  BY <1>2, <1>3

\* A request does not begin to leave out a permission that the role has.
LEMMA NadieOmite ==
    ASSUME IInv, [Next]_vars, NEW w \in Peticiones, NEW r \in Roles, NEW c \in base.permisos[r],
           ~Omite(w, r, c)
    PROVE  ~Omite(w, r, c)'
<1>1. CASE Ajena(w)
  BY <1>1 DEF Ajena, Quieta, Empieza, Recorre, Otra, Entrada, Omite, En, Ops
<1>2. CASE ~Ajena(w)
  BY <1>2, Movimiento, Destino DEF Omite, En, Ops
<1>3. QED
  BY <1>1, <1>2

\* COMMIT takes from a role only what its request omits.
LEMMA RolAsentado ==
    ASSUME IInv, [Next]_vars, NEW r \in Roles, NEW c \in base.permisos[r],
           \A w \in Peticiones : ~Omite(w, r, c)
    PROVE  c \in base'.permisos[r]
<1>1. base \in Base
  BY DEF IInv, Formas, TypeOK
<1>2. ASSUME NEW v \in Peticiones, Commit(v) PROVE c \in base'.permisos[r]
  <2>1. base' = Asentada(v) /\ pet[v].paso = "commit" /\ pet[v].rol \in Roles
    BY <1>2, QuienEscribe DEF Commit, En
  <2>2. CASE pet[v].op = "ampliar" /\ pet[v].escrito
    <3>1. base' = [base EXCEPT !.permisos[pet[v].rol] = (@ \ pet[v].quita) \cup pet[v].permisos]
      BY <2>1, <2>2 DEF Asentada
    <3>2. pet[v].rol = r => c \notin pet[v].quita
      BY <2>1, <2>2 DEF Omite, En, Ops
    <3>3. QED
      BY <1>1, <2>1, <3>1, <3>2 DEF Base
  <2>3. CASE ~(pet[v].op = "ampliar" /\ pet[v].escrito)
    BY <1>1, <2>1, <2>3 DEF Asentada, Base
  <2>4. QED
    BY <2>2, <2>3
<1>3. CASE \E v \in Peticiones : CrearLlave(v)
  BY <1>3 DEF CrearLlave
<1>4. QED
  BY <1>2, <1>3, QuienCambia

\* What an addition leaves out it read before another was committed, and no later one
\* does: a permission that survives the additions under way is not lost.
THEOREM RolConserva == Spec => RolSoloCrece
<1>1. IInv /\ [Next]_vars => \A r \in Roles, c \in Claves : Firme(r, c) => Firme(r, c)'
  <2> SUFFICES ASSUME IInv, [Next]_vars, NEW r \in Roles, NEW c \in Claves, Firme(r, c)
               PROVE  Firme(r, c)'
    OBVIOUS
  <2>1. c \in base.permisos[r] /\ \A w \in Peticiones : ~Omite(w, r, c)
    BY DEF Firme
  <2>2. c \in base'.permisos[r]
    BY <2>1, RolAsentado
  <2>3. \A w \in Peticiones : ~Omite(w, r, c)'
    BY <2>1, NadieOmite
  <2>4. QED
    BY <2>2, <2>3 DEF Firme
<1>2. QED
  BY <1>1, Invariante, PTL DEF Spec, RolSoloCrece

\* Only a use that read the key before its revocation writes it back as active.
THEOREM LlaveMuerta == Spec => LlaveNoRevive
<1>1. Init => Ruta
  BY LibreTipo DEF Init, Ruta, Entrada
<1>2. IInv /\ Ruta /\ [Next]_vars => (Muerta => Muerta')
  <2> SUFFICES ASSUME IInv, Ruta, [Next]_vars, Muerta
               PROVE  Muerta'
    OBVIOUS
  <2>1. llave.activa = FALSE /\ \A w \in Peticiones : ~Usandola(w)
    BY DEF Muerta
  <2>2. llave'.activa = FALSE
    <3>1. ASSUME NEW v \in Peticiones, Commit(v) PROVE llave'.activa = FALSE
      <4>1. llave' = LlaveAsentada(v) /\ pet[v].paso = "commit" /\ Escritor(v) /\ llave \in Llave
            /\ pet[v].activo \in BOOLEAN
        BY <3>1, QuienEscribe DEF Commit, En, Peticion
      <4>2. pet[v].op # "usar_llave"
        BY <2>1, <4>1 DEF Usandola, Ops
      <4>3. CASE pet[v].op = "revocar_llave"
        BY <2>1, <4>1, <4>3 DEF LlaveAsentada, Escritor, Ops, Llave
      <4>4. CASE pet[v].op # "revocar_llave"
        BY <2>1, <4>1, <4>2, <4>4 DEF LlaveAsentada, Ops
      <4>5. QED
        BY <4>3, <4>4
    <3>2. ASSUME NEW v \in Peticiones, CrearLlave(v) PROVE llave'.activa = FALSE
      BY <2>1, <3>2, Constantes DEF CrearLlave
    <3>3. QED
      BY <2>1, <3>1, <3>2, QuienCambia
  <2>3. ASSUME NEW w \in Peticiones PROVE ~Usandola(w)'
    <3>1. ~(pet[w].op = "usar_llave"
              /\ pet[w].paso \in {"propietario", "releer", "escribir", "commit", "atender"})
      BY <2>1 DEF Usandola, Ops
    <3>2. pet[w].paso \in Entrada => pet[w].op \in {"usar", "crear_llave"}
      BY DEF Ruta, Ops
    <3>3. CASE Ajena(w)
      BY <3>1, <3>2, <3>3 DEF Ajena, Quieta, Empieza, Recorre, Otra, Usandola, Ops
    <3>4. CASE ~Ajena(w)
      BY <2>1, <3>1, <3>4, Movimiento, Destino DEF Usandola, Ops
    <3>5. QED
      BY <3>3, <3>4
  <2>4. QED
    BY <2>2, <2>3 DEF Muerta
<1>3. QED
  BY <1>1, <1>2, Invariante, RutaSigue, PTL DEF Spec, LlaveNoRevive
=============================================================================
