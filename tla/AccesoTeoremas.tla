--------------------------- MODULE AccesoTeoremas ---------------------------
(* What Acceso guarantees for any number of requests, links and attempts, and for
   any times to live. *)
EXTENDS Acceso, FiniteSetTheorems, TLAPS

----------------------------------------------------------------------------
(* The inductive invariant *)

Cuentas == [hechas : Nat, fallos : Nat, caidas : Nat, olvidados : Nat,
            cierre : BOOLEAN, usados : SUBSET Enlaces]

Formas == TypeOK /\ cuenta \in Cuentas

\* The mark of a used token lasts as long as it has to.
Marcas == \A t \in DOMAIN token :
            token[t].gastado => token[t].marca + token[t].hace >= TtlMarca

Sesion == cuenta.cierre => redis.sesion = 0 /\ \A w \in Peticiones : ~En(w, "renovar")

Usados == \A k \in cuenta.usados : enlace[k].ttl = 0 /\ enlace[k].tipo # "ninguno"

\* The requests that are to set the lock, and those a lock does not stop any more.
Bloqueando == {w \in Peticiones : pet[w].paso = "bloquear"}
Pasaron == {w \in Peticiones : pet[w].op = "fallo" /\ pet[w].paso \in {"leer", "comparar"}}

\* The failures that the counter of Redis answers for without a lock.
Contados == IF redis.intentos < MaxIntentos THEN redis.intentos ELSE MaxIntentos - 1

Fallos ==
    /\ redis.bloqueo = 0 =>
         cuenta.fallos <= Contados + Cardinality(Bloqueando) + cuenta.caidas + cuenta.olvidados
    /\ redis.bloqueo > 0 =>
         cuenta.fallos + Cardinality(Pasaron)
           <= (MaxIntentos - 1) + Cardinality(Peticiones) + cuenta.caidas + cuenta.olvidados

ConEntidad == {"comparar", "recargar", "actualizar", "abrir", "borrar", "commit"}
ConCampos == {"actualizar", "abrir", "borrar", "commit"}
Retienen == {"abrir", "borrar", "commit"}
Campos == {"estado", "email_verificado"}

\* What each request holds and has read.
Una(w) ==
    /\ pet[w].paso \in {"reclamar", "revocar"} => pet[w].ref \in DOMAIN token
    /\ En(w, "enlace") => pet[w].ref \in Enlaces
    /\ pet[w].op = "verificar" /\ pet[w].paso \in {"leer"} \cup ConEntidad =>
         pet[w].ref \in Enlaces /\ enlace[pet[w].ref].tipo # "ninguno"
    /\ pet[w].op = "verificar" /\ En(w, "commit") => enlace[pet[w].ref].ttl = 0
    /\ pet[w].op = "verificar" =>
         pet[w].paso \in {"enlace", "leer", "recargar", "actualizar", "borrar", "commit"}
    /\ pet[w].op = "fallo" => pet[w].paso \in {"mirar", "leer", "comparar", "bloquear", "reponer"}
    /\ En(w, "borrar") => pet[w].op = "verificar"
    /\ En(w, "abrir") => pet[w].op = "login"
    /\ En(w, "comparar") => pet[w].op \in {"login", "fallo"}
    /\ pet[w].paso \in ConEntidad =>
         pet[w].leido \in Fila /\ (~pet[w].rancio => pet[w].leido = usuario)
    /\ pet[w].paso \in ConCampos /\ ~pet[w].rancio =>
         pet[w].campos = {c \in Campos : Entidad(w)[c] # usuario[c]}
    /\ pet[w].op = "cambiar_estado" /\ pet[w].paso \in ConEntidad =>
         <<pet[w].leido.estado, pet[w].nuevo>> \in TransicionesValidas

IInv == /\ Formas /\ Marcas /\ Sesion /\ Usados /\ Fallos
        /\ \A w \in Peticiones : Una(w)

----------------------------------------------------------------------------
(* Facts about the definitions *)

\* What the proofs need of the constants, one fact after another.
LEMMA Constantes ==
    /\ MaxPeticiones \in Nat /\ MaxReloj \in Nat /\ MaxIntentos \in Nat /\ MaxIntentos >= 1
    /\ TtlBloqueo \in Nat /\ TtlBloqueo >= 1 /\ TtlSesion \in Nat /\ TtlSesion >= 1
    /\ TtlMarca \in Nat /\ TtlMarca >= 1 /\ VidaRefresh \in Nat /\ VidaRefresh >= 1
    /\ TtlEnlace \in Nat /\ TtlEnlace >= 1 /\ TtlPausa \in Nat /\ TtlPausa >= 1
    /\ Nada \notin Peticiones /\ Nada \notin Enlaces /\ Nada \notin Estados /\ Nada \notin Fila
    /\ IsFiniteSet(Peticiones)
BY ConstantesAcceso

\* The requests of either kind are finitely many, none is of both, and all of them are
\* no more than there are.
LEMMA Conteo ==
    /\ IsFiniteSet(Bloqueando) /\ IsFiniteSet(Pasaron)
    /\ Cardinality(Bloqueando) \in Nat /\ Cardinality(Pasaron) \in Nat
    /\ Cardinality(Peticiones) \in Nat
    /\ Cardinality(Bloqueando) + Cardinality(Pasaron) <= Cardinality(Peticiones)
<1>1. Bloqueando \subseteq Peticiones /\ Pasaron \subseteq Peticiones
  BY DEF Bloqueando, Pasaron
<1>2. IsFiniteSet(Bloqueando) /\ IsFiniteSet(Pasaron)
  BY <1>1, Constantes, FS_Subset
<1>3. Cardinality(Bloqueando) \in Nat /\ Cardinality(Pasaron) \in Nat /\ Cardinality(Peticiones) \in Nat
  BY <1>2, Constantes, FS_CardinalityType
<1>4. Bloqueando \cap Pasaron = {}
  BY DEF Bloqueando, Pasaron
<1>5. Cardinality(Bloqueando \cap Pasaron) = 0
  BY <1>4, FS_EmptySet
<1>6. Cardinality(Bloqueando \cup Pasaron) =
        Cardinality(Bloqueando) + Cardinality(Pasaron) - Cardinality(Bloqueando \cap Pasaron)
  BY <1>2, FS_Union
<1>7. Cardinality(Bloqueando \cup Pasaron) <= Cardinality(Peticiones)
  BY <1>1, Constantes, FS_Subset
<1>8. QED
  BY <1>2, <1>3, <1>5, <1>6, <1>7

\* The requests of either kind after one of them changes.
LEMMA ConteoPaso ==
    ASSUME pet \in [Peticiones -> Peticion], NEW w \in Peticiones, NEW q,
           pet' = [pet EXCEPT ![w] = q]
    PROVE  /\ Bloqueando' = IF q.paso = "bloquear" THEN Bloqueando \cup {w} ELSE Bloqueando \ {w}
           /\ Pasaron' = IF q.op = "fallo" /\ q.paso \in {"leer", "comparar"}
                         THEN Pasaron \cup {w} ELSE Pasaron \ {w}
<1>1. pet'[w] = q /\ \A v \in Peticiones \ {w} : pet'[v] = pet[v]
  OBVIOUS
<1>2. QED
  BY <1>1 DEF Bloqueando, Pasaron

\* One more, or one less.
LEMMA ConteoUno ==
    ASSUME NEW S, IsFiniteSet(S), NEW w
    PROVE  /\ Cardinality(S) \in Nat
           /\ w \notin S => Cardinality(S \cup {w}) = Cardinality(S) + 1 /\ S \ {w} = S
           /\ w \in S => Cardinality(S \ {w}) = Cardinality(S) - 1 /\ S \cup {w} = S
<1>1. Cardinality(S) \in Nat
  BY FS_CardinalityType
<1>2. ASSUME w \notin S PROVE Cardinality(S \cup {w}) = Cardinality(S) + 1 /\ S \ {w} = S
  BY <1>2, FS_AddElement
<1>3. ASSUME w \in S PROVE Cardinality(S \ {w}) = Cardinality(S) - 1 /\ S \cup {w} = S
  BY <1>3, FS_RemoveElement
<1>4. QED
  BY <1>1, <1>2, <1>3

\* A request that has ended is a request.
LEMMA LibreTipo == Libre \in Peticion /\ Libre.paso = "libre" /\ Libre.op = "login"
BY DEF Libre, Peticion, Operaciones, OperacionesAuth, OperacionesUsuarios, Pasos

\* A new token is a token, and nobody has used it.
LEMMA TokenNuevoTipo == TokenNuevo \in Token /\ ~TokenNuevo.gastado
BY Constantes DEF TokenNuevo, Token

\* An account as the code leaves it is an account.
LEMMA FilaTipo ==
    /\ \A u \in Fila : Activar(u) \in Fila /\ Activar(u).estado = "activo"
    /\ \A u \in Fila : \A e \in Estados : CambiarEstado(u, e) \in Fila /\ CambiarEstado(u, e).estado = e
BY DEF Activar, CambiarEstado, Fila, Estados

\* The invariant of one request says what is known of all of them.
LEMMA QuienEs ==
    ASSUME IInv, NEW w \in Peticiones
    PROVE  /\ pet \in [Peticiones -> Peticion] /\ pet[w] \in Peticion /\ usuario \in Fila
           /\ redis \in Redis /\ token \in Seq(Token) /\ enlace \in [Enlaces -> Enlace]
           /\ fila \in Peticiones \cup {Nada} /\ cuenta \in Cuentas /\ Una(w)
           /\ fila = w => pet[w].paso \in Retienen
BY Constantes DEF IInv, Formas, TypeOK, Retienen

----------------------------------------------------------------------------
(* The initial states *)

\* The invariant holds before the first request.
LEMMA InitInv == Init => IInv
<1> SUFFICES ASSUME Init PROVE IInv
  OBVIOUS
<1>1. \A w \in Peticiones : pet[w] = Libre
  BY DEF Init
<1>2. redis \in Redis /\ redis.intentos = 0
  BY Constantes DEF Init, RedisVacio, Redis
<1>3. cuenta \in Cuentas /\ cuenta.fallos = 0 /\ ~cuenta.cierre /\ cuenta.usados = {}
      /\ cuenta.caidas = 0 /\ cuenta.olvidados = 0
  BY DEF Init, CuentaInicial, Cuentas
<1>4. enlace \in [Enlaces -> Enlace] /\ usuario \in Fila /\ token \in Seq(Token)
  BY Constantes DEF Init, Enlace, Nuevo, Fila, Estados
<1>5. Formas
  BY <1>1, <1>2, <1>3, <1>4, LibreTipo, Constantes DEF Formas, TypeOK, Init
<1>6. Bloqueando = {} /\ Pasaron = {} /\ Cardinality({}) = 0
  BY <1>1, LibreTipo, FS_EmptySet DEF Bloqueando, Pasaron
<1>7. Fallos
  BY <1>2, <1>3, <1>6, Conteo, Constantes DEF Fallos, Contados
<1>8. Marcas /\ Sesion /\ Usados
  BY <1>3 DEF Marcas, Sesion, Usados, Init
<1>9. \A w \in Peticiones : Una(w)
  BY <1>1, LibreTipo DEF Una, En, ConEntidad, ConCampos
<1>10. QED
  BY <1>5, <1>7, <1>8, <1>9 DEF IInv

----------------------------------------------------------------------------
(* Steps of one request that commit nothing *)

\* The failures are counted as before if nobody starts to lock or gets past the check.
LEMMA FallosSiguen ==
    ASSUME IInv, NEW w \in Peticiones, NEW q, pet' = [pet EXCEPT ![w] = q],
           redis'.bloqueo = redis.bloqueo, redis'.intentos = redis.intentos,
           cuenta'.fallos = cuenta.fallos, cuenta'.caidas = cuenta.caidas,
           cuenta'.olvidados = cuenta.olvidados,
           pet[w].paso # "bloquear", q.paso # "bloquear",
           w \in Pasaron \/ q.op # "fallo" \/ q.paso \notin {"leer", "comparar"} \/ redis.bloqueo = 0
    PROVE  Fallos'
<1>1. redis.bloqueo \in Nat /\ cuenta \in Cuentas
  BY Constantes, QuienEs DEF Redis
<1>2. Bloqueando' = Bloqueando
  BY ConteoPaso, QuienEs DEF Bloqueando
<1>3. redis.bloqueo > 0 => Cardinality(Pasaron') <= Cardinality(Pasaron) /\ Cardinality(Pasaron') \in Nat
  <2>1. redis.bloqueo > 0 => Pasaron' = Pasaron \/ Pasaron' = Pasaron \ {w}
    BY <1>1, ConteoPaso, QuienEs DEF Pasaron
  <2>2. Cardinality(Pasaron \ {w}) <= Cardinality(Pasaron) /\ Cardinality(Pasaron \ {w}) \in Nat
    <3>1. Cardinality(Pasaron) \in Nat /\ IsFiniteSet(Pasaron)
      BY Conteo
    <3>2. Pasaron \ {w} \subseteq Pasaron
      OBVIOUS
    <3>3. QED
      BY <3>1, <3>2, FS_Subset, FS_CardinalityType
  <2>3. QED
    BY <2>1, <2>2, Conteo
<1>4. Contados' = Contados
  BY DEF Contados
<1>5. Fallos
  BY DEF IInv
<1>6. QED
  BY <1>1, <1>2, <1>3, <1>4, <1>5, Conteo, Constantes DEF Fallos, Cuentas

\* A step of one request matters to another only by the links and the tokens.
LEMMA PasoPropio ==
    ASSUME IInv, NEW w \in Peticiones, NEW q \in Peticion, pet' = [pet EXCEPT ![w] = q],
           UNCHANGED <<abiertas, usuario, reloj>>, redis' \in Redis, token' \in Seq(Token),
           enlace' \in [Enlaces -> Enlace], cuenta' \in Cuentas,
           fila' \in Peticiones \cup {Nada}, \A v \in Peticiones \ {w} : fila' = v <=> fila = v,
           fila' = w => q.paso \in Retienen,
           DOMAIN token \subseteq DOMAIN token',
           \A k \in Enlaces : enlace[k].tipo # "ninguno" =>
               enlace'[k].tipo # "ninguno" /\ (enlace[k].ttl = 0 => enlace'[k].ttl = 0),
           Marcas', Sesion', Usados', Fallos', Una(w)'
    PROVE  IInv'
<1>1. pet' \in [Peticiones -> Peticion] /\ pet'[w] = q
      /\ \A v \in Peticiones \ {w} : pet'[v] = pet[v]
  BY QuienEs
<1>2. ASSUME NEW v \in Peticiones, v # w PROVE Una(v)'
  <2>1. pet'[v] = pet[v] /\ Una(v) /\ usuario' = usuario
    BY <1>1, <1>2, QuienEs
  <2>2. Entidad(v)' = Entidad(v)
    BY <2>1 DEF Entidad
  <2>3. pet[v].op = "verificar" /\ pet[v].paso \in {"leer"} \cup ConEntidad =>
         /\ pet[v].ref \in Enlaces /\ enlace'[pet[v].ref].tipo # "ninguno"
         /\ pet[v].paso = "commit" => enlace'[pet[v].ref].ttl = 0
    BY <2>1 DEF Una, En
  <2>4. QED
    BY <2>1, <2>2, <2>3 DEF Una, En, ConEntidad
<1>3. \A v \in Peticiones : Una(v)'
  BY <1>2
<1>4. TypeOK'
  <2>1. fila' # Nada => pet'[fila'].paso \in Retienen
    <3>1. CASE fila' = w
      BY <1>1, <3>1
    <3>2. CASE fila' # w /\ fila' # Nada
      <4>1. PICK v \in Peticiones \ {w} : fila' = v
        BY <3>2
      <4>2. QED
        BY <1>1, <4>1, QuienEs
    <3>3. QED
      BY <3>1, <3>2
  <2>2. QED
    BY <1>1, <2>1 DEF TypeOK, IInv, Formas, Retienen
<1>5. QED
  BY <1>3, <1>4 DEF IInv, Formas

\* A step that changes only the request.
LEMMA PasoPet ==
    ASSUME IInv, NEW w \in Peticiones, NEW q \in Peticion, pet' = [pet EXCEPT ![w] = q],
           SoloPet, fila = w => q.paso \in Retienen, q.paso # "bloquear", pet[w].paso # "bloquear",
           w \in Pasaron \/ q.op # "fallo" \/ q.paso \notin {"leer", "comparar"} \/ redis.bloqueo = 0,
           q.paso = "renovar" => ~cuenta.cierre, Una(w)'
    PROVE  IInv'
<1>1. UNCHANGED <<abiertas, usuario, fila, reloj, redis, token, enlace, cuenta>>
  BY DEF SoloPet, SinFila
<1>2. Fallos'
  BY <1>1, FallosSiguen
<1>3. Sesion'
  <2>1. pet'[w] = q /\ \A v \in Peticiones \ {w} : pet'[v] = pet[v]
    BY QuienEs
  <2>2. QED
    BY <1>1, <2>1 DEF Sesion, IInv, En
<1>4. Marcas' /\ Usados'
  BY <1>1 DEF IInv, Marcas, Usados
<1>5. QED
  BY <1>1, <1>2, <1>3, <1>4, QuienEs, PasoPropio

\* A request ends, and if it held the row it gives it back.
LEMMA PasoTermina ==
    ASSUME IInv, NEW w \in Peticiones, Termina(w), UNCHANGED <<abiertas, usuario, reloj>>,
           redis' \in Redis, token' \in Seq(Token), enlace' = enlace, cuenta' \in Cuentas,
           fila' = IF fila = w THEN Nada ELSE fila, DOMAIN token \subseteq DOMAIN token',
           Marcas', cuenta'.usados = cuenta.usados, Fallos',
           cuenta'.cierre => redis'.sesion = 0 /\ \A v \in Peticiones \ {w} : ~En(v, "renovar")
    PROVE  IInv'
<1>1. pet' = [pet EXCEPT ![w] = Libre] /\ pet'[w] = Libre
      /\ \A v \in Peticiones \ {w} : pet'[v] = pet[v]
  BY QuienEs DEF Termina
<1>2. Una(w)'
  BY <1>1, LibreTipo DEF Una, En, ConEntidad, ConCampos
<1>3. Sesion'
  BY <1>1, LibreTipo DEF Sesion, En
<1>4. /\ fila' \in Peticiones \cup {Nada} /\ fila' # w
      /\ \A v \in Peticiones \ {w} : fila' = v <=> fila = v
  BY QuienEs, Constantes
<1>5. Usados'
  BY DEF IInv, Usados
<1>6. QED
  BY <1>1, <1>2, <1>3, <1>4, <1>5, LibreTipo, QuienEs, PasoPropio

\* A request that is refused: nothing but itself changes.
LEMMA PasoRechazo ==
    ASSUME IInv, NEW w \in Peticiones, Termina(w), SoloPet, fila # w, pet[w].paso # "bloquear"
    PROVE  IInv'
<1>1. UNCHANGED <<abiertas, usuario, fila, reloj, redis, token, enlace, cuenta>>
  BY DEF SoloPet, SinFila
<1>2. pet' = [pet EXCEPT ![w] = Libre]
  BY DEF Termina
<1>3. Fallos'
  BY <1>1, <1>2, LibreTipo, FallosSiguen
<1>4. Marcas' /\ (cuenta'.cierre => redis'.sesion = 0 /\ \A v \in Peticiones \ {w} : ~En(v, "renovar"))
  BY <1>1 DEF IInv, Marcas, Sesion
<1>5. QED
  BY <1>1, <1>3, <1>4, QuienEs, PasoTermina

----------------------------------------------------------------------------
(* The arrival of a request and what it reads *)

\* A request begins: it brings a token or a link of those there are.
LEMMA PasoEmpezar ==
    ASSUME IInv, NEW w \in Peticiones, NEW op \in Operaciones, Empezar(w, op)
    PROVE  IInv'
<1>1. PICK r \in CASE op \in {"refresh", "logout"} -> DOMAIN token
                  [] op \in {"verificar", "restablecer"} -> Enlaces
                  [] OTHER -> {0} :
       \E e \in IF op = "cambiar_estado" THEN Estados ELSE {Nada} :
          pet' = [pet EXCEPT ![w] = [Libre EXCEPT !.op = op, !.paso = Inicio(op),
                                                  !.ref = r, !.nuevo = e]]
  BY DEF Empezar
<1>2. PICK e \in IF op = "cambiar_estado" THEN Estados ELSE {Nada} :
          pet' = [pet EXCEPT ![w] = [Libre EXCEPT !.op = op, !.paso = Inicio(op),
                                                  !.ref = r, !.nuevo = e]]
  BY <1>1
<1> DEFINE q == [Libre EXCEPT !.op = op, !.paso = Inicio(op), !.ref = r, !.nuevo = e]
<1>3. /\ Inicio(op) \in {"mirar", "reclamar", "revocar", "enlace", "pausa", "leer"}
      /\ Inicio(op) \in {"reclamar", "revocar"} => op \in {"refresh", "logout"}
      /\ Inicio(op) = "enlace" => op \in {"verificar", "restablecer"}
      /\ Inicio(op) = "leer" => op \notin {"verificar", "fallo", "login"}
      /\ op = "verificar" => Inicio(op) = "enlace"
      /\ op = "fallo" => Inicio(op) = "mirar"
  BY DEF Inicio
<1>4. DOMAIN token \subseteq Nat
  BY QuienEs
<1>5. /\ op \in {"refresh", "logout"} => r \in DOMAIN token
      /\ op \in {"verificar", "restablecer"} => r \in Enlaces
      /\ r \in Enlaces \cup Nat
  <2>1. CASE op \in {"refresh", "logout"}
    BY <1>4, <2>1
  <2>2. CASE op \in {"verificar", "restablecer"}
    BY <2>2
  <2>3. CASE op \notin {"refresh", "logout", "verificar", "restablecer"}
    BY <2>3
  <2>4. QED
    BY <2>1, <2>2, <2>3
<1>6. e \in Estados \cup {Nada}
  OBVIOUS
<1>7. /\ q \in Peticion /\ q.op = op /\ q.paso = Inicio(op) /\ q.ref = r
  BY <1>3, <1>5, <1>6, LibreTipo DEF Peticion, Pasos
<1>8. pet' = [pet EXCEPT ![w] = q]
  BY <1>2
<1> HIDE DEF q
<1>9. pet'[w] = q /\ pet[w].paso = "libre"
  BY <1>8, QuienEs DEF Empezar, En
<1>10. /\ UNCHANGED <<abiertas, usuario, fila, reloj, redis, token, enlace>>
       /\ cuenta' = [cuenta EXCEPT !.hechas = @ + 1]
  BY DEF Empezar, SinFila
<1>11. /\ cuenta' \in Cuentas /\ cuenta'.fallos = cuenta.fallos /\ cuenta'.caidas = cuenta.caidas
       /\ cuenta'.olvidados = cuenta.olvidados /\ cuenta'.cierre = cuenta.cierre
       /\ cuenta'.usados = cuenta.usados
  BY <1>10, QuienEs DEF Cuentas
<1>12. Fallos'
  BY <1>3, <1>7, <1>8, <1>9, <1>10, <1>11, FallosSiguen
<1>13. Una(w)'
  BY <1>3, <1>5, <1>7, <1>9, <1>10 DEF Una, En, ConEntidad, ConCampos
<1>14. Sesion'
  <2>1. pet'[w] = q /\ \A v \in Peticiones \ {w} : pet'[v] = pet[v]
    BY <1>8, QuienEs
  <2>2. QED
    BY <1>3, <1>7, <1>10, <1>11, <2>1 DEF Sesion, IInv, En
<1>15. Marcas' /\ Usados'
  BY <1>10, <1>11 DEF IInv, Marcas, Usados
<1>16. fila # w
  BY <1>9, QuienEs DEF Retienen
<1>17. QED
  BY <1>7, <1>8, <1>10, <1>11, <1>12, <1>13, <1>14, <1>15, <1>16, QuienEs, PasoPropio

\* A request that goes on to another step, and nothing else of it changes.
LEMMA PasoPasa ==
    ASSUME IInv, NEW w \in Peticiones, NEW p \in Pasos, Pasa(w, p), SoloPet,
           fila = w => p \in Retienen, p # "bloquear", pet[w].paso # "bloquear",
           w \in Pasaron \/ pet[w].op # "fallo" \/ p \notin {"leer", "comparar"} \/ redis.bloqueo = 0,
           p = "renovar" => ~cuenta.cierre,
           p \in {"reclamar", "revocar"} => pet[w].ref \in DOMAIN token,
           p = "enlace" => pet[w].ref \in Enlaces,
           pet[w].op = "verificar" /\ p \in {"leer"} \cup ConEntidad =>
             /\ pet[w].ref \in Enlaces /\ enlace[pet[w].ref].tipo # "ninguno"
             /\ p = "commit" => enlace[pet[w].ref].ttl = 0,
           pet[w].op = "verificar" => p \in {"enlace", "leer"},
           pet[w].op = "fallo" => p \in {"mirar", "leer", "reponer"},
           p \notin ConEntidad
    PROVE  IInv'
<1> DEFINE q == [pet[w] EXCEPT !.paso = p]
<1>1. q \in Peticion /\ q.paso = p /\ q.op = pet[w].op /\ q.ref = pet[w].ref
  BY QuienEs DEF Peticion
<1>2. pet' = [pet EXCEPT ![w] = q]
  BY QuienEs DEF Pasa
<1> HIDE DEF q
<1>3. pet'[w] = q /\ enlace' = enlace /\ token' = token
  BY <1>2, QuienEs DEF SoloPet
<1>4. Una(w)'
  BY <1>1, <1>3 DEF Una, En, ConEntidad, ConCampos
<1>5. QED
  BY <1>1, <1>2, <1>4, PasoPet

\* A lock stops a login.
LEMMA PasoMirarBloqueo ==
    ASSUME IInv, NEW w \in Peticiones, MirarBloqueo(w)
    PROVE  IInv'
<1>1. pet[w].paso = "mirar" /\ SoloPet /\ fila # w
  BY QuienEs DEF MirarBloqueo, En, Retienen
<1>2. CASE redis.bloqueo = 0
  <2>1. Pasa(w, "leer")
    BY <1>2 DEF MirarBloqueo, PasaSi
  <2>2. pet[w].op # "verificar"
    BY <1>1, QuienEs DEF Una
  <2>3. QED
    BY <1>1, <1>2, <2>1, <2>2, PasoPasa DEF ConEntidad, Pasos
<1>3. CASE redis.bloqueo # 0
  <2>1. Termina(w)
    BY <1>3 DEF MirarBloqueo, PasaSi
  <2>2. QED
    BY <1>1, <2>1, PasoRechazo
<1>4. QED
  BY <1>2, <1>3

\* What a request has read is the account as it is.
LEMMA PasoLeer ==
    ASSUME IInv, NEW w \in Peticiones, Leer(w)
    PROVE  IInv'
<1>1. pet[w].paso = "leer" /\ pet[w].op # "refresh" /\ SoloPet /\ fila # w
  BY QuienEs DEF Leer, En, Retienen
<1>2. CASE ~Admite(w, usuario)
  <2>1. Termina(w)
    BY <1>2 DEF Leer
  <2>2. QED
    BY <1>1, <2>1, PasoRechazo
<1>3. CASE Admite(w, usuario)
  <2> DEFINE q == [pet[w] EXCEPT !.paso = TrasLeer(w), !.leido = usuario, !.rancio = FALSE]
  <2>1. /\ TrasLeer(w) \in {"comparar", "pausa", "crear", "recargar"}
        /\ TrasLeer(w) = "comparar" => pet[w].op \in {"login", "fallo"}
        /\ pet[w].op = "fallo" => TrasLeer(w) = "comparar"
        /\ pet[w].op = "verificar" => TrasLeer(w) = "recargar"
    BY DEF TrasLeer
  <2>2. TrasLeer(w) \in Pasos
    BY <2>1 DEF Pasos
  <2>3. /\ q \in Peticion /\ q.paso = TrasLeer(w) /\ q.op = pet[w].op /\ q.ref = pet[w].ref
        /\ q.leido = usuario /\ q.nuevo = pet[w].nuevo
    BY <2>2, QuienEs DEF Peticion
  <2>4. pet' = [pet EXCEPT ![w] = q]
    BY <1>3, QuienEs DEF Leer
  <2> HIDE DEF q
  <2>5. pet'[w] = q /\ enlace' = enlace /\ usuario' = usuario
    BY <1>1, <2>4, QuienEs DEF SoloPet, SinFila
  <2>6. pet[w].op = "cambiar_estado" => <<usuario.estado, pet[w].nuevo>> \in TransicionesValidas
    BY <1>3 DEF Admite
  <2>7. pet[w].op = "verificar" => pet[w].ref \in Enlaces /\ enlace[pet[w].ref].tipo # "ninguno"
    BY <1>1, QuienEs DEF Una
  <2>8. Una(w)'
    BY <2>1, <2>3, <2>5, <2>6, <2>7, QuienEs DEF Una, En, ConEntidad, ConCampos
  <2>9. pet[w].op = "fallo" => w \in Pasaron
    BY <1>1 DEF Pasaron
  <2>10. QED
    BY <1>1, <2>1, <2>3, <2>4, <2>8, <2>9, PasoPet
<1>4. QED
  BY <1>2, <1>3

\* Another token: those there were stay as they are.
LEMMA TokenMas ==
    ASSUME IInv, token' = Append(token, TokenNuevo)
    PROVE  /\ token' \in Seq(Token) /\ DOMAIN token \subseteq DOMAIN token'
           /\ \A t \in DOMAIN token' : token'[t].gastado => token'[t].marca + token'[t].hace >= TtlMarca
<1>1. token \in Seq(Token)
  BY DEF IInv, Formas, TypeOK
<1>2. /\ token' \in Seq(Token) /\ DOMAIN token \subseteq DOMAIN token'
      /\ \A t \in DOMAIN token' : (t \in DOMAIN token /\ token'[t] = token[t]) \/ token'[t] = TokenNuevo
  BY <1>1, TokenNuevoTipo
<1>3. QED
  BY <1>2, TokenNuevoTipo DEF IInv, Marcas

\* A refresh that goes well leaves a new token.
LEMMA PasoRefrescar ==
    ASSUME IInv, NEW w \in Peticiones, Refrescar(w)
    PROVE  IInv'
<1>1. /\ pet[w].paso = "leer" /\ Termina(w) /\ fila # w
      /\ UNCHANGED <<abiertas, usuario, fila, reloj, redis, enlace, cuenta>>
  BY QuienEs DEF Refrescar, En, Retienen, SinFila
<1>2. token' \in Seq(Token) /\ DOMAIN token \subseteq DOMAIN token' /\ Marcas'
  <2>1. CASE token' = token
    BY <2>1, QuienEs DEF IInv, Marcas
  <2>2. CASE token' = Append(token, TokenNuevo)
    BY <2>2, TokenMas DEF Marcas
  <2>3. QED
    BY <2>1, <2>2 DEF Refrescar
<1>3. Fallos'
  BY <1>1, LibreTipo, FallosSiguen DEF Termina
<1>4. cuenta'.cierre => redis'.sesion = 0 /\ \A v \in Peticiones \ {w} : ~En(v, "renovar")
  BY <1>1 DEF IInv, Sesion
<1>5. QED
  BY <1>1, <1>2, <1>3, <1>4, QuienEs, PasoTermina

\* The failures after a step: the requests of either kind are no more than all.
LEMMA ConteoAhora ==
    /\ Cardinality(Bloqueando') \in Nat /\ Cardinality(Pasaron') \in Nat
    /\ Cardinality(Pasaron') <= Cardinality(Peticiones)
<1>1. Bloqueando' \subseteq Peticiones /\ Pasaron' \subseteq Peticiones
  BY DEF Bloqueando, Pasaron
<1>2. QED
  BY <1>1, Constantes, FS_Subset, FS_CardinalityType

\* A good password resets the counter, and a bad one is counted once more, or is the one
\* that locks.
LEMMA PasoComparar ==
    ASSUME IInv, NEW w \in Peticiones, Comparar(w)
    PROVE  IInv'
<1>1. /\ pet[w].paso = "comparar" /\ fila # w /\ pet[w].op \in {"login", "fallo"}
      /\ UNCHANGED <<abiertas, usuario, fila, reloj, token, enlace>>
  BY QuienEs DEF Comparar, En, Retienen, SinFila, Una
<1>2. /\ redis \in Redis /\ cuenta \in Cuentas /\ redis.bloqueo \in Nat /\ redis.intentos \in Nat
      /\ cuenta.fallos \in Nat /\ cuenta.caidas \in Nat /\ cuenta.olvidados \in Nat
  BY QuienEs, Constantes DEF Redis, Cuentas
<1>3. Fallos
  BY DEF IInv
<1>4. Marcas'
  BY <1>1 DEF IInv, Marcas
<1>5. CASE pet[w].op = "login"
  <2> DEFINE q == [pet[w] EXCEPT !.paso = "recargar"]
  <2>1. /\ redis' = [redis EXCEPT !.intentos = 0, !.ventana = 0]
        /\ cuenta' = [cuenta EXCEPT !.fallos = 0] /\ pet' = [pet EXCEPT ![w] = q]
    BY <1>5, QuienEs DEF Comparar, Pasa
  <2>2. redis' \in Redis /\ redis'.sesion = redis.sesion /\ redis'.bloqueo = redis.bloqueo
    <3>1. 0 \in 0..TtlBloqueo /\ 0 \in Nat
      BY Constantes
    <3>2. redis' \in Redis
      BY <1>2, <2>1, <3>1 DEF Redis
    <3>3. QED
      BY <1>2, <2>1, <3>2 DEF Redis
  <2>3. /\ cuenta' \in Cuentas /\ cuenta'.fallos = 0 /\ cuenta'.cierre = cuenta.cierre
        /\ cuenta'.usados = cuenta.usados /\ cuenta'.caidas = cuenta.caidas
        /\ cuenta'.olvidados = cuenta.olvidados
    BY <1>2, <2>1 DEF Cuentas
  <2>4. /\ q \in Peticion /\ q.paso = "recargar" /\ q.op = "login" /\ q.leido = pet[w].leido
        /\ q.rancio = pet[w].rancio
    BY <1>5, QuienEs DEF Peticion, Pasos
  <2> HIDE DEF q
  <2>5. pet'[w] = q /\ \A v \in Peticiones \ {w} : pet'[v] = pet[v]
    BY <2>1, QuienEs
  <2>6. Fallos'
    <3>1. Contados' \in Nat
      BY <1>2, <2>1, Constantes DEF Contados, Redis
    <3>2. QED
      BY <1>2, <2>2, <2>3, <3>1, ConteoAhora, Conteo, Constantes DEF Fallos
  <2>7. Sesion' /\ Usados'
    BY <1>1, <2>2, <2>3, <2>4, <2>5 DEF IInv, Sesion, Usados, En
  <2>8. pet[w].leido \in Fila /\ (~pet[w].rancio => pet[w].leido = usuario)
    BY <1>1, QuienEs DEF Una, ConEntidad
  <2>9. Una(w)'
    BY <1>1, <2>4, <2>5, <2>8 DEF Una, En, ConEntidad, ConCampos
  <2>10. QED
    BY <1>1, <1>4, <2>1, <2>2, <2>3, <2>4, <2>6, <2>7, <2>9, QuienEs, PasoPropio
<1>6. CASE pet[w].op = "fallo"
  <2>1. /\ redis' = [redis EXCEPT !.intentos = @ + 1, !.ventana = IF @ = 0 THEN TtlBloqueo ELSE @]
        /\ cuenta' = [cuenta EXCEPT !.fallos = @ + 1]
        /\ PasaSi(w, redis'.intentos >= MaxIntentos, "bloquear")
    BY <1>6 DEF Comparar
  <2>2. /\ redis' \in Redis /\ redis'.sesion = redis.sesion /\ redis'.bloqueo = redis.bloqueo
        /\ redis'.intentos = redis.intentos + 1
    <3>1. (IF redis.ventana = 0 THEN TtlBloqueo ELSE redis.ventana) \in 0..TtlBloqueo
      BY <1>2, Constantes DEF Redis
    <3>2. redis.intentos + 1 \in Nat
      BY <1>2
    <3>3. QED
      BY <1>2, <2>1, <3>1, <3>2 DEF Redis
  <2>3. /\ cuenta' \in Cuentas /\ cuenta'.fallos = cuenta.fallos + 1 /\ cuenta'.cierre = cuenta.cierre
        /\ cuenta'.usados = cuenta.usados /\ cuenta'.caidas = cuenta.caidas
        /\ cuenta'.olvidados = cuenta.olvidados
    <3>1. cuenta.fallos + 1 \in Nat
      BY <1>2
    <3>2. QED
      BY <1>2, <2>1, <3>1 DEF Cuentas
  <2>4. w \in Pasaron /\ w \notin Bloqueando
    BY <1>1, <1>6 DEF Pasaron, Bloqueando
  <2>5. /\ Cardinality(Pasaron \ {w}) = Cardinality(Pasaron) - 1
        /\ Cardinality(Bloqueando \cup {w}) = Cardinality(Bloqueando) + 1
        /\ Bloqueando \ {w} = Bloqueando
    BY <2>4, Conteo, ConteoUno
  <2>6. CASE redis'.intentos >= MaxIntentos
    <3> DEFINE q == [pet[w] EXCEPT !.paso = "bloquear"]
    <3>1. pet' = [pet EXCEPT ![w] = q]
      BY <2>1, <2>6, QuienEs DEF PasaSi, Pasa
    <3>2. q \in Peticion /\ q.paso = "bloquear" /\ q.op = "fallo"
      BY <1>6, QuienEs DEF Peticion, Pasos
    <3> HIDE DEF q
    <3>3. pet'[w] = q /\ \A v \in Peticiones \ {w} : pet'[v] = pet[v]
      BY <3>1, QuienEs
    <3>4. Bloqueando' = Bloqueando \cup {w} /\ Pasaron' = Pasaron \ {w}
      BY <3>1, <3>2, ConteoPaso, QuienEs
    <3>5. Contados <= Contados' /\ Contados \in Nat /\ Contados' \in Nat
      BY <1>2, <2>2, <2>6, Constantes DEF Contados
    <3>6. /\ Cardinality(Bloqueando') = Cardinality(Bloqueando) + 1
          /\ Cardinality(Pasaron') = Cardinality(Pasaron) - 1
      BY <2>5, <3>4
    <3>7. Fallos'
      BY <1>2, <1>3, <2>2, <2>3, <3>5, <3>6, Conteo, Constantes DEF Fallos
    <3>8. Sesion' /\ Usados'
      BY <1>1, <2>2, <2>3, <3>2, <3>3 DEF IInv, Sesion, Usados, En
    <3>9. Una(w)'
      BY <3>2, <3>3 DEF Una, En, ConEntidad, ConCampos
    <3>10. QED
      BY <1>1, <1>4, <2>2, <2>3, <3>1, <3>2, <3>7, <3>8, <3>9, QuienEs, PasoPropio
  <2>7. CASE ~(redis'.intentos >= MaxIntentos)
    <3>1. Termina(w) /\ pet' = [pet EXCEPT ![w] = Libre]
      BY <2>1, <2>7 DEF PasaSi, Termina
    <3>2. Bloqueando' = Bloqueando \ {w} /\ Pasaron' = Pasaron \ {w}
      BY <3>1, LibreTipo, ConteoPaso, QuienEs
    <3>3. Contados' = Contados + 1 /\ Contados \in Nat
      BY <1>2, <2>2, <2>7, Constantes DEF Contados
    <3>4. /\ Cardinality(Bloqueando') = Cardinality(Bloqueando)
          /\ Cardinality(Pasaron') = Cardinality(Pasaron) - 1
      BY <2>5, <3>2
    <3>5. Fallos'
      BY <1>2, <1>3, <2>2, <2>3, <3>3, <3>4, Conteo, Constantes DEF Fallos
    <3>6. cuenta'.cierre => redis'.sesion = 0 /\ \A v \in Peticiones \ {w} : ~En(v, "renovar")
      BY <2>2, <2>3 DEF IInv, Sesion
    <3>7. QED
      BY <1>1, <1>4, <2>2, <2>3, <3>1, <3>5, <3>6, QuienEs, PasoTermina
  <2>8. QED
    BY <2>6, <2>7
<1>7. QED
  BY <1>1, <1>5, <1>6

\* The lock goes up before the counter goes down: a deletion that comes too late is
\* counted.
LEMMA PasoBloquear ==
    ASSUME IInv, NEW w \in Peticiones, Bloquear(w)
    PROVE  IInv'
<1>1. /\ pet[w].paso \in {"bloquear", "reponer"} /\ fila # w
      /\ UNCHANGED <<abiertas, usuario, fila, reloj, token, enlace>>
  BY QuienEs DEF Bloquear, En, Retienen, SinFila
<1>2. /\ redis \in Redis /\ cuenta \in Cuentas /\ redis.bloqueo \in Nat /\ redis.intentos \in Nat
      /\ cuenta.fallos \in Nat /\ cuenta.caidas \in Nat /\ cuenta.olvidados \in Nat
      /\ 0 \in 0..TtlBloqueo /\ TtlBloqueo \in 0..TtlBloqueo
  BY QuienEs, Constantes DEF Redis, Cuentas
<1>3. Fallos
  BY DEF IInv
<1>4. Marcas'
  BY <1>1 DEF IInv, Marcas
<1>5. Contados \in Nat /\ Contados <= MaxIntentos - 1 /\ Contados <= redis.intentos
  BY <1>2, Constantes DEF Contados
<1>6. CASE En(w, "bloquear") /\ Pasa(w, "reponer") /\ redis' = [redis EXCEPT !.bloqueo = TtlBloqueo]
             /\ UNCHANGED cuenta
  <2> DEFINE q == [pet[w] EXCEPT !.paso = "reponer"]
  <2>1. pet' = [pet EXCEPT ![w] = q]
    BY <1>6, QuienEs DEF Pasa
  <2>2. q \in Peticion /\ q.paso = "reponer" /\ q.op = pet[w].op
    BY QuienEs DEF Peticion, Pasos
  <2> HIDE DEF q
  <2>3. pet'[w] = q /\ \A v \in Peticiones \ {w} : pet'[v] = pet[v]
    BY <2>1, QuienEs
  <2>4. redis' \in Redis /\ redis'.sesion = redis.sesion /\ redis'.bloqueo = TtlBloqueo
    BY <1>2, <1>6 DEF Redis
  <2>5. Pasaron' = Pasaron
    <3>1. w \notin Pasaron
      BY <1>1 DEF Pasaron
    <3>2. Pasaron' = Pasaron \ {w}
      BY <2>1, <2>2, ConteoPaso, QuienEs
    <3>3. QED
      BY <3>1, <3>2
  <2>6. Fallos'
    BY <1>2, <1>3, <1>5, <1>6, <2>4, <2>5, Conteo, Constantes DEF Fallos
  <2>7. Sesion' /\ Usados'
    BY <1>1, <1>6, <2>2, <2>3, <2>4 DEF IInv, Sesion, Usados, En
  <2>8. pet[w].op # "verificar"
    BY <1>1, QuienEs DEF Una
  <2>9. Una(w)'
    BY <2>2, <2>3, <2>8 DEF Una, En, ConEntidad, ConCampos
  <2>10. QED
    BY <1>1, <1>2, <1>4, <1>6, <2>1, <2>2, <2>4, <2>6, <2>7, <2>9, QuienEs, PasoPropio
<1>7. CASE /\ En(w, "reponer") /\ Termina(w) /\ redis' = [redis EXCEPT !.intentos = 0, !.ventana = 0]
           /\ cuenta' = IF redis.bloqueo = 0
                        THEN [cuenta EXCEPT !.olvidados = @ + redis.intentos] ELSE cuenta
  <2>1. /\ redis' \in Redis /\ redis'.sesion = redis.sesion /\ redis'.bloqueo = redis.bloqueo
        /\ redis'.intentos = 0
    BY <1>2, <1>7 DEF Redis
  <2>2. /\ cuenta' \in Cuentas /\ cuenta'.fallos = cuenta.fallos /\ cuenta'.caidas = cuenta.caidas
        /\ cuenta'.cierre = cuenta.cierre /\ cuenta'.usados = cuenta.usados
        /\ redis.bloqueo = 0 => cuenta'.olvidados = cuenta.olvidados + redis.intentos
        /\ redis.bloqueo > 0 => cuenta'.olvidados = cuenta.olvidados
    <3>1. cuenta.olvidados + redis.intentos \in Nat
      BY <1>2
    <3>2. CASE redis.bloqueo = 0
      <4>1. cuenta' = [cuenta EXCEPT !.olvidados = cuenta.olvidados + redis.intentos]
        BY <1>7, <3>2
      <4>2. QED
        BY <1>2, <3>1, <3>2, <4>1 DEF Cuentas
    <3>3. CASE redis.bloqueo # 0
      BY <1>2, <1>7, <3>3
    <3>4. QED
      BY <3>2, <3>3
  <2>3. pet' = [pet EXCEPT ![w] = Libre]
    BY <1>7 DEF Termina
  <2>4. Bloqueando' = Bloqueando /\ Pasaron' = Pasaron
    <3>1. w \notin Bloqueando /\ w \notin Pasaron
      BY <1>7 DEF Bloqueando, Pasaron, En
    <3>2. Bloqueando' = Bloqueando \ {w} /\ Pasaron' = Pasaron \ {w}
      BY <2>3, LibreTipo, ConteoPaso, QuienEs
    <3>3. QED
      BY <3>1, <3>2
  <2>5. Contados' = 0
    BY <2>1, Constantes DEF Contados
  <2>6. Fallos'
    BY <1>2, <1>3, <1>5, <2>1, <2>2, <2>4, <2>5, Conteo, Constantes DEF Fallos
  <2>7. cuenta'.cierre => redis'.sesion = 0 /\ \A v \in Peticiones \ {w} : ~En(v, "renovar")
    BY <2>1, <2>2 DEF IInv, Sesion
  <2>8. QED
    BY <1>1, <1>4, <1>7, <2>1, <2>2, <2>6, <2>7, QuienEs, PasoTermina
<1>8. QED
  BY <1>6, <1>7 DEF Bloquear

----------------------------------------------------------------------------
(* The UPDATE of the account *)

\* The entity a request writes back does not change while it only goes on.
LEMMA EntidadIgual ==
    ASSUME NEW w \in Peticiones, pet'[w].op = pet[w].op, pet'[w].leido = pet[w].leido,
           pet'[w].nuevo = pet[w].nuevo
    PROVE  Entidad(w)' = Entidad(w)
BY DEF Entidad

\* What goes in the UPDATE is where the entity differs from the second read.
LEMMA PasoRecargar ==
    ASSUME IInv, NEW w \in Peticiones, Recargar(w)
    PROVE  IInv'
<1> DEFINE d == {c \in Campos : Entidad(w)[c] # usuario[c]}
           q == [pet[w] EXCEPT !.paso = "actualizar", !.campos = d]
<1>1. pet[w].paso = "recargar" /\ SoloPet /\ fila # w /\ usuario' = usuario /\ enlace' = enlace
  BY QuienEs DEF Recargar, En, Retienen, SoloPet, SinFila
<1>2. DOMAIN usuario = Campos
  BY QuienEs DEF Fila, Campos
<1>3. pet' = [pet EXCEPT ![w] = q]
  BY <1>2, QuienEs DEF Recargar
<1>4. d \in SUBSET {"estado", "email_verificado"} /\ d = {c \in Campos : Entidad(w)[c] # usuario[c]}
  BY DEF Campos
<1> HIDE DEF d
<1>5. /\ q \in Peticion /\ q.paso = "actualizar" /\ q.op = pet[w].op /\ q.ref = pet[w].ref
      /\ q.leido = pet[w].leido /\ q.rancio = pet[w].rancio /\ q.nuevo = pet[w].nuevo /\ q.campos = d
  <2>1. pet[w] \in Peticion
    BY QuienEs
  <2>2. "actualizar" \in Pasos
    BY DEF Pasos
  <2>3. QED
    BY <1>4, <2>1, <2>2 DEF Peticion
<1> HIDE DEF q
<1>6. pet'[w] = q
  BY <1>3, QuienEs
<1>7. Entidad(w)' = Entidad(w)
  BY <1>5, <1>6, EntidadIgual
<1>8. pet[w].op # "fallo"
  BY <1>1, QuienEs DEF Una
<1>9. Una(w)'
  BY <1>1, <1>4, <1>5, <1>6, <1>7, <1>8, QuienEs DEF Una, En, ConEntidad, ConCampos
<1>10. QED
  BY <1>1, <1>3, <1>5, <1>8, <1>9, PasoPet

\* A request with its entity goes on to its COMMIT.
LEMMA PasoEntidad ==
    ASSUME IInv, NEW w \in Peticiones, NEW p \in ConCampos, pet[w].paso \in ConCampos, Pasa(w, p),
           UNCHANGED <<abiertas, usuario, reloj>>, redis' \in Redis, token' = token,
           enlace' \in [Enlaces -> Enlace], cuenta' \in Cuentas,
           fila' = fila \/ (fila = Nada /\ fila' = w), fila' = w => p \in Retienen,
           \A k \in Enlaces : enlace'[k].tipo = enlace[k].tipo /\ (enlace[k].ttl = 0 => enlace'[k].ttl = 0),
           cuenta'.cierre => redis'.sesion = 0 /\ cuenta.cierre, cuenta'.usados = cuenta.usados,
           redis'.bloqueo = redis.bloqueo, redis'.intentos = redis.intentos,
           cuenta'.fallos = cuenta.fallos, cuenta'.caidas = cuenta.caidas,
           cuenta'.olvidados = cuenta.olvidados,
           p = "borrar" => pet[w].op = "verificar", p = "abrir" => pet[w].op = "login",
           pet[w].op = "verificar" => /\ p \in {"borrar", "commit"}
                                      /\ p = "commit" => enlace'[pet[w].ref].ttl = 0
    PROVE  IInv'
<1> DEFINE q == [pet[w] EXCEPT !.paso = p]
<1>1. p \in Pasos /\ p \in ConEntidad
  BY DEF ConCampos, Pasos, ConEntidad
<1>2. /\ q \in Peticion /\ q.paso = p /\ q.op = pet[w].op /\ q.ref = pet[w].ref
      /\ q.leido = pet[w].leido /\ q.rancio = pet[w].rancio /\ q.nuevo = pet[w].nuevo
      /\ q.campos = pet[w].campos
  BY <1>1, QuienEs DEF Peticion
<1>3. pet' = [pet EXCEPT ![w] = q]
  BY QuienEs DEF Pasa
<1> HIDE DEF q
<1>4. pet'[w] = q /\ \A v \in Peticiones \ {w} : pet'[v] = pet[v]
  BY <1>3, QuienEs
<1>5. Entidad(w)' = Entidad(w)
  BY <1>2, <1>4, EntidadIgual
<1>6. pet[w].paso \in ConEntidad /\ pet[w].op # "fallo" /\ pet[w].paso # "bloquear"
  BY QuienEs DEF Una, ConEntidad, ConCampos
<1>7. Fallos'
  BY <1>1, <1>2, <1>3, <1>6, FallosSiguen DEF ConEntidad
<1>8. Una(w)'
  BY <1>1, <1>2, <1>4, <1>5, <1>6, QuienEs DEF Una, En, ConEntidad, ConCampos
<1>9. Sesion'
  <2>1. q.paso # "renovar"
    BY <1>1, <1>2 DEF ConEntidad
  <2>2. QED
    BY <1>4, <2>1 DEF IInv, Sesion, En
<1>10. Marcas' /\ Usados'
  BY QuienEs DEF IInv, Marcas, Usados, Cuentas
<1>11. fila' \in Peticiones \cup {Nada} /\ \A v \in Peticiones \ {w} : fila' = v <=> fila = v
  BY QuienEs, Constantes
<1>12. QED
  BY <1>2, <1>3, <1>7, <1>8, <1>9, <1>10, <1>11, QuienEs, PasoPropio

\* The UPDATE takes the row.
LEMMA PasoActualizar ==
    ASSUME IInv, NEW w \in Peticiones, Actualizar(w)
    PROVE  IInv'
<1> DEFINE p == CASE pet[w].op = "login" -> "abrir"
                  [] pet[w].op = "verificar" -> "borrar"
                  [] OTHER -> "commit"
<1>1. /\ pet[w].paso = "actualizar" /\ fila = Nada /\ fila' = w /\ Pasa(w, p)
      /\ UNCHANGED <<abiertas, usuario, redis, token, enlace, reloj, cuenta>>
  BY DEF Actualizar, En
<1>2. /\ p \in {"abrir", "borrar", "commit"}
      /\ p = "abrir" => pet[w].op = "login"
      /\ p = "borrar" => pet[w].op = "verificar"
      /\ pet[w].op = "verificar" => p = "borrar"
  OBVIOUS
<1> HIDE DEF p
<1>3. cuenta'.cierre => redis'.sesion = 0 /\ cuenta.cierre
  BY <1>1 DEF IInv, Sesion
<1>4. QED
  BY <1>1, <1>2, <1>3, QuienEs, PasoEntidad DEF ConCampos, Retienen

\* A login opens the session before its COMMIT.
LEMMA PasoAbrir ==
    ASSUME IInv, NEW w \in Peticiones, Abrir(w)
    PROVE  IInv'
<1>1. /\ pet[w].paso = "abrir" /\ Pasa(w, "commit")
      /\ UNCHANGED <<abiertas, usuario, fila, token, enlace, reloj>>
      /\ redis' = [redis EXCEPT !.sesion = TtlSesion] /\ cuenta' = [cuenta EXCEPT !.cierre = FALSE]
  BY DEF Abrir, En, SinFila
<1>2. redis' \in Redis /\ redis'.bloqueo = redis.bloqueo /\ redis'.intentos = redis.intentos
  <2>1. redis \in Redis /\ TtlSesion \in 0..TtlSesion
    BY QuienEs, Constantes
  <2>2. QED
    BY <1>1, <2>1 DEF Redis
<1>3. /\ cuenta' \in Cuentas /\ ~cuenta'.cierre /\ cuenta'.usados = cuenta.usados
      /\ cuenta'.fallos = cuenta.fallos /\ cuenta'.caidas = cuenta.caidas
      /\ cuenta'.olvidados = cuenta.olvidados
  BY <1>1, QuienEs DEF Cuentas
<1>4. pet[w].op = "login"
  BY <1>1, QuienEs DEF Una, En
<1>5. QED
  BY <1>1, <1>2, <1>3, <1>4, QuienEs, PasoEntidad DEF ConCampos, Retienen

\* The link is deleted before the COMMIT of the verification.
LEMMA PasoBorrar ==
    ASSUME IInv, NEW w \in Peticiones, Borrar(w)
    PROVE  IInv'
<1>1. /\ pet[w].paso = "borrar" /\ Pasa(w, "commit")
      /\ UNCHANGED <<abiertas, usuario, fila, token, redis, reloj, cuenta>>
      /\ enlace' = [enlace EXCEPT ![pet[w].ref].ttl = 0]
  BY DEF Borrar, En, SinFila
<1>2. pet[w].op = "verificar" /\ pet[w].ref \in Enlaces
  BY <1>1, QuienEs DEF Una, En, ConEntidad
<1>3. /\ enlace' \in [Enlaces -> Enlace] /\ enlace'[pet[w].ref].ttl = 0
      /\ \A k \in Enlaces : enlace'[k].tipo = enlace[k].tipo /\ (enlace[k].ttl = 0 => enlace'[k].ttl = 0)
  <2>1. enlace \in [Enlaces -> Enlace] /\ 0 \in 0..TtlEnlace
    BY QuienEs, Constantes
  <2> DEFINE n == [enlace[pet[w].ref] EXCEPT !.ttl = 0]
  <2>3. n \in Enlace /\ n.ttl = 0 /\ n.tipo = enlace[pet[w].ref].tipo
    BY <1>2, <2>1 DEF Enlace
  <2>4. enlace' = [enlace EXCEPT ![pet[w].ref] = n]
    BY <1>1
  <2> HIDE DEF n
  <2>5. QED
    BY <1>2, <2>1, <2>3, <2>4
<1>4. cuenta'.cierre => redis'.sesion = 0 /\ cuenta.cierre
  BY <1>1 DEF IInv, Sesion
<1>5. QED
  BY <1>1, <1>2, <1>3, <1>4, QuienEs, PasoEntidad DEF ConCampos, Retienen

----------------------------------------------------------------------------
(* The tokens and the session *)

\* One token changes: the others keep their marks.
LEMMA TokenUno ==
    ASSUME IInv, NEW t \in DOMAIN token, NEW n \in Token, token' = [token EXCEPT ![t] = n],
           n.gastado => n.marca + n.hace >= TtlMarca
    PROVE  token' \in Seq(Token) /\ DOMAIN token' = DOMAIN token /\ Marcas'
<1>1. token \in Seq(Token)
  BY DEF IInv, Formas, TypeOK
<1>2. /\ token' \in Seq(Token) /\ DOMAIN token' = DOMAIN token /\ token'[t] = n
      /\ \A u \in DOMAIN token \ {t} : token'[u] = token[u]
  BY <1>1
<1>3. ASSUME NEW u \in DOMAIN token' PROVE token'[u].gastado => token'[u].marca + token'[u].hace >= TtlMarca
  <2>1. CASE u = t
    BY <1>2, <2>1
  <2>2. CASE u # t
    BY <1>2, <2>2 DEF IInv, Marcas
  <2>3. QED
    BY <2>1, <2>2
<1>4. QED
  BY <1>2, <1>3 DEF Marcas

\* A request that neither verifies nor logs in goes on to a step where it holds nothing.
LEMMA PasoSigue ==
    ASSUME IInv, NEW w \in Peticiones, NEW p \in {"existe", "cerrar", "leer", "anotar"}, Pasa(w, p),
           pet[w].op \notin {"verificar", "fallo"}, pet[w].paso # "bloquear", fila # w,
           UNCHANGED <<abiertas, usuario, fila, reloj, cuenta>>, redis' \in Redis,
           redis'.bloqueo = redis.bloqueo, redis'.intentos = redis.intentos,
           cuenta.cierre => redis'.sesion = 0, token' \in Seq(Token),
           DOMAIN token \subseteq DOMAIN token', Marcas', enlace' \in [Enlaces -> Enlace],
           \A k \in Enlaces : enlace[k].tipo # "ninguno" => enlace'[k] = enlace[k]
    PROVE  IInv'
<1> DEFINE q == [pet[w] EXCEPT !.paso = p]
<1>1. pet[w] \in Peticion /\ p \in Pasos
  BY QuienEs DEF Pasos
<1>2. q \in Peticion /\ q.paso = p /\ q.op = pet[w].op
  BY <1>1 DEF Peticion
<1>3. pet' = [pet EXCEPT ![w] = q]
  BY QuienEs DEF Pasa
<1> HIDE DEF q
<1>4. pet'[w] = q /\ \A v \in Peticiones \ {w} : pet'[v] = pet[v]
  BY <1>3, QuienEs
<1>5. Fallos'
  BY <1>2, <1>3, FallosSiguen
<1>6. Una(w)'
  BY <1>2, <1>4 DEF Una, En, ConEntidad, ConCampos
<1>7. Sesion'
  BY <1>2, <1>4 DEF IInv, Sesion, En
<1>8. Usados'
  BY QuienEs DEF IInv, Usados, Cuentas
<1>9. QED
  BY <1>2, <1>3, <1>5, <1>6, <1>7, <1>8, QuienEs, PasoPropio

\* A refresh takes its token, or is refused.
LEMMA PasoReclamar ==
    ASSUME IInv, NEW w \in Peticiones, Reclamar(w)
    PROVE  IInv'
<1> DEFINE t == pet[w].ref
<1>1. /\ pet[w].paso = "reclamar" /\ fila # w
      /\ UNCHANGED <<abiertas, usuario, fila, reloj, redis, enlace, cuenta>>
  BY QuienEs DEF Reclamar, En, Retienen, SinFila
<1>2. t \in DOMAIN token /\ pet[w].op \notin {"verificar", "fallo"}
  BY <1>1, QuienEs DEF Una
<1>3. CASE Aceptable(t)
  <2> DEFINE n == [token[t] EXCEPT !.marca = TtlMarca, !.gastado = TRUE, !.hace = 0]
  <2>1. token[t] \in Token /\ TtlMarca \in 0..TtlMarca /\ 0 \in 0..TtlMarca /\ TtlMarca \in Nat
    BY <1>2, QuienEs, Constantes
  <2>2. n \in Token /\ n.marca = TtlMarca /\ n.hace = 0
    BY <2>1 DEF Token
  <2>3. token' = [token EXCEPT ![t] = n] /\ Pasa(w, "existe")
    BY <1>3 DEF Reclamar, Aceptado, PasaSi
  <2> HIDE DEF n
  <2>4. n.marca + n.hace >= TtlMarca
    BY <2>1, <2>2
  <2>5. token' \in Seq(Token) /\ DOMAIN token' = DOMAIN token /\ Marcas'
    BY <1>2, <2>2, <2>3, <2>4, TokenUno
  <2>6. cuenta.cierre => redis'.sesion = 0
    BY <1>1 DEF IInv, Sesion
  <2>7. QED
    BY <1>1, <1>2, <2>3, <2>5, <2>6, QuienEs, PasoSigue
<1>4. CASE ~Aceptable(t)
  <2>1. SoloPet /\ Termina(w)
    BY <1>1, <1>4 DEF Reclamar, PasaSi, SoloPet, SinFila
  <2>2. QED
    BY <1>1, <2>1, PasoRechazo
<1>5. QED
  BY <1>3, <1>4

\* A refresh goes on only if it finds the session, and then no logout has ended it.
LEMMA PasoExiste ==
    ASSUME IInv, NEW w \in Peticiones, Existe(w)
    PROVE  IInv'
<1>1. pet[w].paso = "existe" /\ SoloPet /\ fila # w
  BY QuienEs DEF Existe, En, Retienen
<1>2. CASE redis.sesion > 0
  <2>1. Pasa(w, "renovar")
    BY <1>2 DEF Existe, PasaSi
  <2>2. pet[w].op \notin {"verificar", "fallo"}
    BY <1>1, QuienEs DEF Una
  <2>3. ~cuenta.cierre
    BY <1>2 DEF IInv, Sesion
  <2>4. "renovar" \in Pasos /\ "renovar" \notin ConEntidad
    BY DEF Pasos, ConEntidad
  <2>5. QED
    BY <1>1, <2>1, <2>2, <2>3, <2>4, PasoPasa
<1>3. CASE ~(redis.sesion > 0)
  <2>1. Termina(w)
    BY <1>3 DEF Existe, PasaSi
  <2>2. QED
    BY <1>1, <2>1, PasoRechazo
<1>4. QED
  BY <1>2, <1>3

\* A refresh that found the session sets it anew: nobody counts it as ended.
LEMMA PasoRenovar ==
    ASSUME IInv, NEW w \in Peticiones, Renovar(w)
    PROVE  IInv'
<1>1. /\ pet[w].paso = "renovar" /\ fila # w /\ Pasa(w, "leer")
      /\ UNCHANGED <<abiertas, usuario, fila, reloj, token, enlace, cuenta>>
      /\ redis' = [redis EXCEPT !.sesion = TtlSesion]
  BY QuienEs DEF Renovar, En, Retienen, SinFila
<1>2. pet[w].op \notin {"verificar", "fallo"}
  BY <1>1, QuienEs DEF Una
<1>3. ~cuenta.cierre
  BY <1>1 DEF IInv, Sesion, En
<1>4. redis' \in Redis /\ redis'.bloqueo = redis.bloqueo /\ redis'.intentos = redis.intentos
  <2>1. redis \in Redis /\ TtlSesion \in 0..TtlSesion
    BY QuienEs, Constantes
  <2>2. QED
    BY <1>1, <2>1 DEF Redis
<1>5. Marcas'
  BY <1>1 DEF IInv, Marcas
<1>6. QED
  BY <1>1, <1>2, <1>3, <1>4, <1>5, QuienEs, PasoSigue

\* A logout marks its token over whatever mark it had.
LEMMA PasoRevocar ==
    ASSUME IInv, NEW w \in Peticiones, Revocar(w)
    PROVE  IInv'
<1> DEFINE t == pet[w].ref
<1>1. /\ pet[w].paso = "revocar" /\ fila # w
      /\ UNCHANGED <<abiertas, usuario, fila, reloj, redis, enlace, cuenta>>
  BY QuienEs DEF Revocar, En, Retienen, SinFila
<1>2. t \in DOMAIN token /\ pet[w].op \notin {"verificar", "fallo"}
  BY <1>1, QuienEs DEF Una
<1>3. CASE token[t].vida > 0
  <2> DEFINE n == [token[t] EXCEPT !.marca = TtlMarca]
  <2>1. token[t] \in Token /\ TtlMarca \in 0..TtlMarca /\ TtlMarca \in Nat
    BY <1>2, QuienEs, Constantes
  <2>2. n \in Token /\ n.marca = TtlMarca /\ n.hace \in 0..TtlMarca
    BY <2>1 DEF Token
  <2>3. token' = [token EXCEPT ![t] = n] /\ Pasa(w, "cerrar")
    BY <1>3 DEF Revocar, PasaSi
  <2> HIDE DEF n
  <2>4. n.marca + n.hace >= TtlMarca
    BY <2>1, <2>2
  <2>5. token' \in Seq(Token) /\ DOMAIN token' = DOMAIN token /\ Marcas'
    BY <1>2, <2>2, <2>3, <2>4, TokenUno
  <2>6. cuenta.cierre => redis'.sesion = 0
    BY <1>1 DEF IInv, Sesion
  <2>7. QED
    BY <1>1, <1>2, <2>3, <2>5, <2>6, QuienEs, PasoSigue
<1>4. CASE ~(token[t].vida > 0)
  <2>1. SoloPet /\ Termina(w)
    BY <1>1, <1>4 DEF Revocar, PasaSi, SoloPet, SinFila
  <2>2. QED
    BY <1>1, <2>1, PasoRechazo
<1>5. QED
  BY <1>3, <1>4

\* A logout ends the session, for good if no refresh is about to set it.
LEMMA PasoCerrar ==
    ASSUME IInv, NEW w \in Peticiones, Cerrar(w)
    PROVE  IInv'
<1>1. /\ pet[w].paso = "cerrar" /\ fila # w /\ Termina(w)
      /\ UNCHANGED <<abiertas, usuario, fila, reloj, token, enlace>>
      /\ redis' = [redis EXCEPT !.sesion = 0]
      /\ cuenta' = [cuenta EXCEPT !.cierre = \A v \in Peticiones : ~En(v, "renovar")]
  BY QuienEs DEF Cerrar, En, Retienen, SinFila
<1>2. /\ redis' \in Redis /\ redis'.sesion = 0 /\ redis'.bloqueo = redis.bloqueo
      /\ redis'.intentos = redis.intentos
  <2>1. redis \in Redis /\ 0 \in 0..TtlSesion
    BY QuienEs, Constantes
  <2>2. QED
    BY <1>1, <2>1 DEF Redis
<1> DEFINE b == \A v \in Peticiones : ~En(v, "renovar")
<1>3. b \in BOOLEAN
  OBVIOUS
<1>4. cuenta' = [cuenta EXCEPT !.cierre = b]
  BY <1>1
<1> HIDE DEF b
<1>5. /\ cuenta' \in Cuentas /\ cuenta'.cierre = b /\ cuenta'.usados = cuenta.usados
      /\ cuenta'.fallos = cuenta.fallos /\ cuenta'.caidas = cuenta.caidas
      /\ cuenta'.olvidados = cuenta.olvidados
  BY <1>3, <1>4, QuienEs DEF Cuentas
<1>6. Fallos'
  BY <1>1, <1>2, <1>5, LibreTipo, FallosSiguen DEF Termina
<1>7. Marcas'
  BY <1>1 DEF IInv, Marcas
<1>8. cuenta'.cierre => redis'.sesion = 0 /\ \A v \in Peticiones \ {w} : ~En(v, "renovar")
  BY <1>2, <1>5 DEF b
<1>9. QED
  BY <1>1, <1>2, <1>5, <1>6, <1>7, <1>8, QuienEs, PasoTermina

----------------------------------------------------------------------------
(* The links, and a request that dies *)

\* The kind of mail of a request.
LEMMA CorreoTipo == \A w \in Peticiones : Correo(w) \in {"correo", "clave"}
BY DEF Correo

\* A request gets in with a link that was mailed.
LEMMA PasoUsarEnlace ==
    ASSUME IInv, NEW w \in Peticiones, UsarEnlace(w)
    PROVE  IInv'
<1> DEFINE c == enlace[pet[w].ref].tipo = Correo(w) /\ enlace[pet[w].ref].ttl > 0
<1>1. pet[w].paso = "enlace" /\ SoloPet /\ fila # w
  BY QuienEs DEF UsarEnlace, En, Retienen
<1>2. CASE c
  <2>1. Pasa(w, "leer")
    BY <1>2 DEF UsarEnlace, PasaSi
  <2>2. pet[w].ref \in Enlaces /\ pet[w].op # "fallo"
    BY <1>1, QuienEs DEF Una, En
  <2>3. enlace[pet[w].ref].tipo # "ninguno"
    BY <1>2, CorreoTipo
  <2>4. "leer" \in Pasos /\ "leer" \notin ConEntidad
    BY DEF Pasos, ConEntidad
  <2>5. QED
    BY <1>1, <2>1, <2>2, <2>3, <2>4, PasoPasa
<1>3. CASE ~c
  <2>1. Termina(w)
    BY <1>3 DEF UsarEnlace, PasaSi
  <2>2. QED
    BY <1>1, <2>1, PasoRechazo
<1>4. QED
  BY <1>2, <1>3

\* A request that is to mail a link looks whether one was mailed just before.
LEMMA PasoMirarPausa ==
    ASSUME IInv, NEW w \in Peticiones, MirarPausa(w)
    PROVE  IInv'
<1> DEFINE p == IF pet[w].op = "reenviar" THEN "crear" ELSE "leer"
<1>1. pet[w].paso = "pausa" /\ SoloPet /\ fila # w
  BY QuienEs DEF MirarPausa, En, Retienen
<1>2. CASE redis.pausa[Correo(w)] = 0
  <2>1. Pasa(w, p)
    BY <1>2 DEF MirarPausa, PasaSi
  <2>2. pet[w].op \notin {"verificar", "fallo"}
    BY <1>1, QuienEs DEF Una
  <2>3. p \in Pasos /\ p \notin ConEntidad /\ p \in {"crear", "leer"}
    BY DEF Pasos, ConEntidad
  <2> HIDE DEF p
  <2>4. QED
    BY <1>1, <2>1, <2>2, <2>3, PasoPasa
<1>3. CASE redis.pausa[Correo(w)] # 0
  <2>1. Termina(w)
    BY <1>3 DEF MirarPausa, PasaSi
  <2>2. QED
    BY <1>1, <2>1, PasoRechazo
<1>4. QED
  BY <1>2, <1>3

\* A link is mailed: those mailed before stay.
LEMMA PasoCrearEnlace ==
    ASSUME IInv, NEW w \in Peticiones, CrearEnlace(w)
    PROVE  IInv'
<1>1. /\ pet[w].paso = "crear" /\ fila # w /\ Pasa(w, "anotar")
      /\ UNCHANGED <<abiertas, usuario, fila, reloj, redis, token, cuenta>>
  BY QuienEs DEF CrearEnlace, En, Retienen, SinFila
<1>2. pet[w].op \notin {"verificar", "fallo"}
  BY <1>1, QuienEs DEF Una
<1>3. PICK k \in Enlaces : /\ enlace[k].tipo = "ninguno"
                           /\ enlace' = [enlace EXCEPT ![k] = [tipo |-> Correo(w), ttl |-> TtlEnlace]]
  BY DEF CrearEnlace
<1> DEFINE n == [tipo |-> Correo(w), ttl |-> TtlEnlace]
<1>4. n \in Enlace
  BY CorreoTipo, Constantes DEF Enlace
<1>5. enlace \in [Enlaces -> Enlace] /\ enlace' = [enlace EXCEPT ![k] = n]
  BY <1>3, QuienEs
<1> HIDE DEF n
<1>6. /\ enlace' \in [Enlaces -> Enlace]
      /\ \A j \in Enlaces : enlace[j].tipo # "ninguno" => enlace'[j] = enlace[j]
  BY <1>3, <1>4, <1>5
<1>7. Marcas' /\ (cuenta.cierre => redis'.sesion = 0)
  BY <1>1 DEF IInv, Marcas, Sesion
<1>8. QED
  BY <1>1, <1>2, <1>6, <1>7, QuienEs, PasoSigue

\* A request that mailed a link notes it down and ends.
LEMMA PasoAnotarPausa ==
    ASSUME IInv, NEW w \in Peticiones, AnotarPausa(w)
    PROVE  IInv'
<1>1. /\ pet[w].paso = "anotar" /\ fila # w /\ Termina(w)
      /\ UNCHANGED <<abiertas, usuario, fila, reloj, token, enlace, cuenta>>
      /\ redis' = [redis EXCEPT !.pausa[Correo(w)] = TtlPausa]
  BY QuienEs DEF AnotarPausa, En, Retienen, SinFila
<1>2. /\ redis' \in Redis /\ redis'.bloqueo = redis.bloqueo /\ redis'.intentos = redis.intentos
      /\ redis'.sesion = redis.sesion
  <2>1. redis \in Redis /\ TtlPausa \in 0..TtlPausa
    BY QuienEs, Constantes
  <2>2. [redis.pausa EXCEPT ![Correo(w)] = TtlPausa] \in [{"correo", "clave"} -> 0..TtlPausa]
    BY <2>1 DEF Redis
  <2>3. redis' = [redis EXCEPT !.pausa = [redis.pausa EXCEPT ![Correo(w)] = TtlPausa]]
    BY <1>1
  <2>4. QED
    BY <2>1, <2>2, <2>3 DEF Redis
<1>3. Fallos'
  BY <1>1, <1>2, LibreTipo, FallosSiguen DEF Termina
<1>4. Marcas' /\ (cuenta'.cierre => redis'.sesion = 0 /\ \A v \in Peticiones \ {w} : ~En(v, "renovar"))
  BY <1>1, <1>2 DEF IInv, Marcas, Sesion
<1>5. QED
  BY <1>1, <1>2, <1>3, <1>4, QuienEs, PasoTermina

\* A request that dies before it sets the lock is counted.
LEMMA PasoCaer ==
    ASSUME IInv, NEW w \in Peticiones, Caer(w)
    PROVE  IInv'
<1>1. /\ Termina(w) /\ fila' = IF fila = w THEN Nada ELSE fila
      /\ UNCHANGED <<abiertas, usuario, redis, token, enlace, reloj>>
      /\ pet' = [pet EXCEPT ![w] = Libre]
  BY DEF Caer, Termina
<1>2. Marcas'
  BY <1>1 DEF IInv, Marcas
<1>3. cuenta \in Cuentas /\ redis \in Redis /\ cuenta.caidas \in Nat /\ cuenta.fallos \in Nat
      /\ cuenta.olvidados \in Nat
  BY QuienEs DEF Cuentas
<1>4. CASE pet[w].paso = "bloquear"
  <2>1. cuenta' = [cuenta EXCEPT !.caidas = @ + 1]
    BY <1>4 DEF Caer, En
  <2>2. /\ cuenta' \in Cuentas /\ cuenta'.fallos = cuenta.fallos /\ cuenta'.cierre = cuenta.cierre
        /\ cuenta'.usados = cuenta.usados /\ cuenta'.caidas = cuenta.caidas + 1
        /\ cuenta'.olvidados = cuenta.olvidados
    <3>1. cuenta.caidas + 1 \in Nat
      BY <1>3
    <3>2. QED
      BY <1>3, <2>1, <3>1 DEF Cuentas
  <2>3. w \in Bloqueando /\ w \notin Pasaron
    BY <1>4 DEF Bloqueando, Pasaron
  <2>4. Bloqueando' = Bloqueando \ {w} /\ Pasaron' = Pasaron \ {w}
    BY <1>1, LibreTipo, ConteoPaso, QuienEs
  <2>5. /\ Cardinality(Bloqueando') = Cardinality(Bloqueando) - 1
        /\ Cardinality(Pasaron') = Cardinality(Pasaron)
    BY <2>3, <2>4, Conteo, ConteoUno
  <2>6. Contados' = Contados /\ redis' = redis
    BY <1>1 DEF Contados
  <2>7. Contados \in Nat /\ redis.bloqueo \in Nat
    BY <1>3, Constantes DEF Contados, Redis
  <2>8. Fallos
    BY DEF IInv
  <2>9. Fallos'
    BY <1>3, <2>2, <2>5, <2>6, <2>7, <2>8, Conteo, Constantes DEF Fallos
  <2>10. cuenta'.cierre => redis'.sesion = 0 /\ \A v \in Peticiones \ {w} : ~En(v, "renovar")
    BY <1>1, <2>2 DEF IInv, Sesion
  <2>11. QED
    BY <1>1, <1>2, <2>2, <2>9, <2>10, QuienEs, PasoTermina
<1>5. CASE pet[w].paso # "bloquear"
  <2>1. cuenta' = cuenta
    BY <1>5 DEF Caer, En
  <2>2. Fallos'
    BY <1>1, <1>5, <2>1, LibreTipo, FallosSiguen
  <2>3. cuenta'.cierre => redis'.sesion = 0 /\ \A v \in Peticiones \ {w} : ~En(v, "renovar")
    BY <1>1, <2>1 DEF IInv, Sesion
  <2>4. QED
    BY <1>1, <1>2, <2>1, <2>2, <2>3, QuienEs, PasoTermina
<1>6. QED
  BY <1>4, <1>5

----------------------------------------------------------------------------
(* COMMIT and the passing of time *)

\* What a request writes back is an account.
LEMMA EntidadTipo ==
    ASSUME IInv, NEW w \in Peticiones, pet[w].paso \in ConEntidad
    PROVE  Entidad(w) \in Fila /\ Escrita(w) \in Fila
<1>1. pet[w].leido \in Fila /\ pet[w] \in Peticion /\ usuario \in Fila
  BY QuienEs DEF Una
<1>2. pet[w].op = "cambiar_estado" => pet[w].nuevo \in Estados
  BY QuienEs DEF Una, TransicionesValidas, Estados
<1>3. Entidad(w) \in Fila
  BY <1>1, <1>2, FilaTipo DEF Entidad
<1>4. Escrita(w) \in Fila
  BY <1>1, <1>3 DEF Escrita, Fila
<1>5. QED
  BY <1>3, <1>4

\* What the others hold may be out of date after a COMMIT, and they know it.
LEMMA PasoCommit ==
    ASSUME IInv, NEW w \in Peticiones, Commit(w)
    PROVE  IInv'
<1> DEFINE r(v) == [pet[v] EXCEPT !.rancio = @ \/ pet[v].leido # Nada]
<1>1. /\ pet[w].paso = "commit" /\ usuario' = Escrita(w) /\ fila' = Nada
      /\ pet' = [v \in Peticiones |-> IF v = w THEN Libre ELSE r(v)]
      /\ token' = IF pet[w].op = "login" THEN Append(token, TokenNuevo) ELSE token
      /\ UNCHANGED <<abiertas, redis, enlace, reloj>>
  BY DEF Commit, En
<1>2. cuenta' = IF pet[w].op = "verificar"
                THEN [cuenta EXCEPT !.usados = @ \cup {pet[w].ref}] ELSE cuenta
  BY DEF Commit
<1>3. /\ pet[w].op = "verificar" => /\ pet[w].ref \in Enlaces /\ enlace[pet[w].ref].ttl = 0
                                    /\ enlace[pet[w].ref].tipo # "ninguno"
      /\ cuenta \in Cuentas
  BY <1>1, QuienEs DEF Una, En, ConEntidad
<1>4. /\ cuenta' \in Cuentas /\ cuenta'.fallos = cuenta.fallos /\ cuenta'.caidas = cuenta.caidas
      /\ cuenta'.olvidados = cuenta.olvidados /\ cuenta'.cierre = cuenta.cierre
      /\ cuenta'.usados \subseteq cuenta.usados \cup
           {k \in Enlaces : enlace[k].ttl = 0 /\ enlace[k].tipo # "ninguno"}
  <2>1. CASE pet[w].op = "verificar"
    <3>1. cuenta' = [cuenta EXCEPT !.usados = cuenta.usados \cup {pet[w].ref}]
      BY <1>2, <2>1
    <3>2. QED
      BY <1>3, <2>1, <3>1 DEF Cuentas
  <2>2. CASE pet[w].op # "verificar"
    BY <1>2, <1>3, <2>2
  <2>3. QED
    BY <2>1, <2>2
<1>5. ASSUME NEW v \in Peticiones, v # w
      PROVE  /\ pet'[v] = r(v) /\ r(v) \in Peticion /\ r(v).op = pet[v].op /\ r(v).paso = pet[v].paso
             /\ r(v).ref = pet[v].ref /\ r(v).leido = pet[v].leido /\ r(v).nuevo = pet[v].nuevo
             /\ pet[v].leido \in Fila => r(v).rancio
  <2>1. pet[v] \in Peticion
    BY QuienEs
  <2>2. (pet[v].rancio \/ pet[v].leido # Nada) \in BOOLEAN
    OBVIOUS
  <2>3. pet'[v] = r(v)
    BY <1>1, <1>5
  <2>4. /\ r(v) \in Peticion /\ r(v).op = pet[v].op /\ r(v).paso = pet[v].paso
        /\ r(v).ref = pet[v].ref /\ r(v).leido = pet[v].leido /\ r(v).nuevo = pet[v].nuevo
        /\ r(v).rancio = (pet[v].rancio \/ pet[v].leido # Nada)
    BY <2>1, <2>2 DEF Peticion
  <2>5. QED
    BY <2>3, <2>4, Constantes
<1>6. pet'[w] = Libre
  BY <1>1
<1> HIDE DEF r
<1>7. pet' \in [Peticiones -> Peticion]
  <2>1. \A v \in Peticiones : (IF v = w THEN Libre ELSE r(v)) \in Peticion
    BY <1>5, LibreTipo
  <2>2. QED
    BY <1>1, <2>1
<1>8. \A v \in Peticiones : Una(v)'
  <2>1. Una(w)'
    BY <1>6, LibreTipo DEF Una, En, ConEntidad, ConCampos
  <2>2. ASSUME NEW v \in Peticiones, v # w PROVE Una(v)'
    <3>1. DOMAIN token \subseteq DOMAIN token'
      BY <1>1, TokenMas
    <3>2. Una(v) /\ pet'[v] = r(v) /\ enlace' = enlace
      BY <1>1, <1>5, <2>2, QuienEs
    <3>3. pet[v].paso \in ConEntidad => pet[v].leido \in Fila /\ r(v).rancio
      BY <1>5, <2>2, <3>2 DEF Una
    <3>4. QED
      BY <1>5, <2>2, <3>1, <3>2, <3>3 DEF Una, En, ConEntidad, ConCampos
  <2>3. QED
    BY <2>1, <2>2
<1>9. Marcas' /\ token' \in Seq(Token)
  <2>1. CASE token' = token
    BY <2>1, QuienEs DEF IInv, Marcas
  <2>2. CASE token' = Append(token, TokenNuevo)
    BY <2>2, TokenMas DEF Marcas
  <2>3. QED
    BY <1>1, <2>1, <2>2
<1>10. Sesion' /\ Usados'
  <2>1. \A v \in Peticiones : En(v, "renovar")' => En(v, "renovar")
    BY <1>5, <1>6, LibreTipo DEF En
  <2>2. QED
    BY <1>1, <1>4, <2>1 DEF IInv, Sesion, Usados
<1>11. Fallos'
  <2>1. w \notin Bloqueando /\ w \notin Pasaron
    BY <1>1 DEF Bloqueando, Pasaron
  <2>2. Bloqueando' = Bloqueando /\ Pasaron' = Pasaron
    BY <1>5, <1>6, <2>1, LibreTipo DEF Bloqueando, Pasaron
  <2>3. Contados' = Contados
    BY <1>1 DEF Contados
  <2>4. Fallos
    BY DEF IInv
  <2>5. QED
    BY <1>1, <1>4, <2>2, <2>3, <2>4 DEF Fallos
<1>12. usuario' \in Fila
  BY <1>1, EntidadTipo DEF ConEntidad
<1>13. TypeOK'
  BY <1>1, <1>7, <1>9, <1>12, QuienEs DEF IInv, Formas, TypeOK
<1>14. QED
  BY <1>4, <1>8, <1>9, <1>10, <1>11, <1>13 DEF IInv, Formas

\* One less, and never less than none.
LEMMA MenosTipo == \A m \in Nat : \A n \in 0..m : Menos(n) \in 0..m /\ Menos(n) >= n - 1 /\ (n <= 1 <=> Menos(n) = 0)
BY DEF Menos

\* A unit of time: a lock and a counter that end take the failures with them.
LEMMA PasoTic ==
    ASSUME IInv, Tic
    PROVE  IInv'
<1>1. /\ reloj < MaxReloj /\ reloj' = reloj + 1 /\ UNCHANGED <<abiertas, usuario, fila, pet>>
      /\ redis' = [sesion |-> Menos(redis.sesion), bloqueo |-> Menos(redis.bloqueo),
                   ventana |-> Menos(redis.ventana),
                   intentos |-> IF redis.ventana = 1 THEN 0 ELSE redis.intentos,
                   pausa |-> [c \in DOMAIN redis.pausa |-> Menos(redis.pausa[c])]]
      /\ token' = [t \in DOMAIN token |->
                     [token[t] EXCEPT !.vida = Menos(@), !.marca = Menos(@),
                                      !.hace = IF @ < TtlMarca THEN @ + 1 ELSE @]]
      /\ enlace' = [k \in Enlaces |-> [enlace[k] EXCEPT !.ttl = Menos(@)]]
      /\ cuenta' = IF redis.ventana = 1 \/ redis.bloqueo = 1
                   THEN [cuenta EXCEPT !.fallos = 0] ELSE cuenta
  BY DEF Tic
<1>2. /\ redis \in Redis /\ token \in Seq(Token) /\ enlace \in [Enlaces -> Enlace] /\ cuenta \in Cuentas
      /\ reloj \in 0..MaxReloj /\ pet \in [Peticiones -> Peticion]
  BY DEF IInv, Formas, TypeOK
<1>3. redis' \in Redis
  <2>1. /\ Menos(redis.sesion) \in 0..TtlSesion /\ Menos(redis.bloqueo) \in 0..TtlBloqueo
        /\ Menos(redis.ventana) \in 0..TtlBloqueo
        /\ (IF redis.ventana = 1 THEN 0 ELSE redis.intentos) \in Nat
    BY <1>2, Constantes, MenosTipo DEF Redis
  <2>2. [c \in DOMAIN redis.pausa |-> Menos(redis.pausa[c])] \in [{"correo", "clave"} -> 0..TtlPausa]
    <3>1. redis.pausa \in [{"correo", "clave"} -> 0..TtlPausa]
      BY <1>2 DEF Redis
    <3>2. \A c \in {"correo", "clave"} : Menos(redis.pausa[c]) \in 0..TtlPausa
      BY <3>1, Constantes, MenosTipo
    <3>3. QED
      BY <3>1, <3>2
  <2>3. QED
    BY <1>1, <2>1, <2>2 DEF Redis
<1>4. /\ cuenta' \in Cuentas /\ cuenta'.caidas = cuenta.caidas /\ cuenta'.olvidados = cuenta.olvidados
      /\ cuenta'.cierre = cuenta.cierre /\ cuenta'.usados = cuenta.usados
      /\ redis.ventana = 1 \/ redis.bloqueo = 1 => cuenta'.fallos = 0
      /\ ~(redis.ventana = 1 \/ redis.bloqueo = 1) => cuenta'.fallos = cuenta.fallos
  BY <1>1, <1>2 DEF Cuentas
<1> DEFINE n(t) == [token[t] EXCEPT !.vida = Menos(@), !.marca = Menos(@),
                                    !.hace = IF @ < TtlMarca THEN @ + 1 ELSE @]
<1>5. ASSUME NEW t \in DOMAIN token
      PROVE  n(t) \in Token /\ (n(t).gastado => n(t).marca + n(t).hace >= TtlMarca)
  <2>1. token[t] \in Token
    BY <1>2
  <2>2. /\ token[t].vida \in 0..VidaRefresh /\ token[t].marca \in 0..TtlMarca
        /\ token[t].hace \in 0..TtlMarca /\ token[t].gastado \in BOOLEAN
    BY <2>1 DEF Token
  <2> DEFINE h == IF token[t].hace < TtlMarca THEN token[t].hace + 1 ELSE token[t].hace
  <2>3. /\ Menos(token[t].vida) \in 0..VidaRefresh /\ Menos(token[t].marca) \in 0..TtlMarca
        /\ Menos(token[t].marca) >= token[t].marca - 1 /\ h \in 0..TtlMarca
        /\ h = TtlMarca \/ h = token[t].hace + 1
    BY <2>2, Constantes, MenosTipo
  <2>4. /\ n(t) = [token[t] EXCEPT !.vida = Menos(token[t].vida), !.marca = Menos(token[t].marca),
                                   !.hace = h]
    OBVIOUS
  <2> HIDE DEF h, n
  <2>5. /\ n(t) \in Token /\ n(t).gastado = token[t].gastado /\ n(t).marca = Menos(token[t].marca)
        /\ n(t).hace = h
    BY <2>1, <2>3, <2>4 DEF Token
  <2>6. token[t].gastado => token[t].marca + token[t].hace >= TtlMarca
    BY DEF IInv, Marcas
  <2>7. QED
    BY <2>2, <2>3, <2>5, <2>6, Constantes
<1>6. token' = [t \in DOMAIN token |-> n(t)]
  BY <1>1
<1> HIDE DEF n
<1>7. token' \in Seq(Token) /\ DOMAIN token' = DOMAIN token /\ Marcas'
  <2>1. DOMAIN token = 1..Len(token) /\ Len(token) \in Nat
    BY <1>2
  <2>2. token' \in [1..Len(token) -> Token]
    BY <1>5, <1>6, <2>1
  <2>3. token' \in Seq(Token)
    BY <2>1, <2>2
  <2>4. DOMAIN token' = DOMAIN token
    BY <1>6
  <2>5. Marcas'
    BY <1>5, <1>6, <2>4 DEF Marcas
  <2>6. QED
    BY <2>3, <2>4, <2>5
<1>8. /\ enlace' \in [Enlaces -> Enlace]
      /\ \A k \in Enlaces : /\ enlace'[k].tipo = enlace[k].tipo
                            /\ enlace[k].ttl = 0 => enlace'[k].ttl = 0
  <2>1. ASSUME NEW k \in Enlaces
        PROVE  /\ [enlace[k] EXCEPT !.ttl = Menos(@)] \in Enlace
               /\ [enlace[k] EXCEPT !.ttl = Menos(@)].tipo = enlace[k].tipo
               /\ enlace[k].ttl = 0 => [enlace[k] EXCEPT !.ttl = Menos(@)].ttl = 0
    <3>1. enlace[k] \in Enlace
      BY <1>2
    <3>2. Menos(enlace[k].ttl) \in 0..TtlEnlace /\ (enlace[k].ttl = 0 => Menos(enlace[k].ttl) = 0)
      BY <3>1, Constantes, MenosTipo DEF Enlace
    <3>3. QED
      BY <3>1, <3>2 DEF Enlace
  <2>2. QED
    BY <1>1, <2>1
<1>9. Sesion'
  <2>1. redis.sesion = 0 => redis'.sesion = 0
    BY <1>1 DEF Menos
  <2>2. QED
    BY <1>1, <1>4, <2>1 DEF IInv, Sesion, En
<1>10. Usados'
  BY <1>2, <1>4, <1>8 DEF IInv, Usados, Cuentas
<1>11. Fallos'
  <2>1. Bloqueando' = Bloqueando /\ Pasaron' = Pasaron
    BY <1>1 DEF Bloqueando, Pasaron
  <2>2. /\ redis'.bloqueo = Menos(redis.bloqueo) /\ redis.bloqueo \in Nat
        /\ redis.intentos \in Nat /\ redis'.intentos \in Nat
        /\ redis.ventana # 1 => redis'.intentos = redis.intentos
    <3>1. redis.bloqueo \in Nat /\ redis.intentos \in Nat /\ redis'.intentos \in Nat
      BY <1>2, <1>3, Constantes DEF Redis
    <3>2. redis'.bloqueo = Menos(redis.bloqueo) /\ (redis.ventana # 1 => redis'.intentos = redis.intentos)
      BY <1>1
    <3>3. QED
      BY <3>1, <3>2
  <2>3. /\ redis.bloqueo <= 1 <=> redis'.bloqueo = 0
        /\ cuenta.fallos \in Nat /\ cuenta.caidas \in Nat /\ cuenta.olvidados \in Nat
        /\ cuenta'.fallos \in Nat
    BY <1>2, <1>4, <2>2 DEF Menos, Cuentas
  <2>4. Contados \in Nat /\ Contados' \in Nat /\ (redis.ventana # 1 => Contados' = Contados)
    BY <2>2, Constantes DEF Contados
  <2>5. Fallos
    BY DEF IInv
  <2>6. CASE redis'.bloqueo = 0
    <3>1. Cardinality(Bloqueando) \in Nat
      BY Conteo
    <3>2. CASE cuenta'.fallos = 0
      BY <1>4, <2>1, <2>3, <2>4, <2>6, <3>1, <3>2 DEF Fallos
    <3>3. CASE redis.ventana # 1 /\ redis.bloqueo # 1
      <4>1. redis.bloqueo = 0 /\ Contados' = Contados /\ cuenta'.fallos = cuenta.fallos
        BY <1>4, <2>2, <2>3, <2>4, <2>6, <3>3
      <4>2. QED
        BY <1>4, <2>1, <2>5, <2>6, <4>1 DEF Fallos
    <3>4. QED
      BY <1>4, <3>2, <3>3
  <2>7. CASE redis'.bloqueo # 0
    BY <1>4, <2>1, <2>2, <2>3, <2>5, <2>7, Conteo, Constantes DEF Fallos
  <2>8. QED
    BY <2>6, <2>7 DEF Fallos
<1>12. ASSUME NEW v \in Peticiones PROVE Una(v)'
  <2>1. Una(v)
    BY QuienEs
  <2>2. pet' = pet /\ usuario' = usuario /\ DOMAIN token' = DOMAIN token
    BY <1>1, <1>7
  <2>3. Entidad(v)' = Entidad(v)
    BY <2>2 DEF Entidad
  <2>4. QED
    BY <1>8, <2>1, <2>2, <2>3 DEF Una, En, ConEntidad
<1>13. reloj' \in 0..MaxReloj
  <2>1. reloj \in 0..MaxReloj /\ reloj < MaxReloj /\ reloj' = reloj + 1 /\ MaxReloj \in Nat
    BY <1>1, <1>2, Constantes
  <2>2. QED
    BY <2>1
<1>14. TypeOK'
  BY <1>1, <1>3, <1>7, <1>8, <1>13 DEF IInv, Formas, TypeOK
<1>15. QED
  BY <1>4, <1>7, <1>9, <1>10, <1>11, <1>12, <1>14 DEF IInv, Formas

----------------------------------------------------------------------------
(* Every step *)

\* A step of one request.
Actua(w) ==
    \/ \E op \in Operaciones : Empezar(w, op)
    \/ MirarBloqueo(w) \/ Leer(w) \/ Refrescar(w) \/ Comparar(w) \/ Bloquear(w)
    \/ Recargar(w) \/ Actualizar(w) \/ Abrir(w) \/ Borrar(w) \/ Commit(w)
    \/ Reclamar(w) \/ Existe(w) \/ Renovar(w) \/ Revocar(w) \/ Cerrar(w)
    \/ UsarEnlace(w) \/ MirarPausa(w) \/ CrearEnlace(w) \/ AnotarPausa(w)
    \/ Caer(w)

\* No step breaks the invariant.
LEMMA NextInv == IInv /\ [Next]_vars => IInv'
<1> SUFFICES ASSUME IInv, [Next]_vars PROVE IInv'
  OBVIOUS
<1>1. ASSUME NEW w \in Peticiones, Actua(w) PROVE IInv'
  <2>1. ASSUME NEW op \in Operaciones, Empezar(w, op) PROVE IInv'
    BY <2>1, PasoEmpezar
  <2>2. CASE MirarBloqueo(w) \/ Leer(w) \/ Refrescar(w) \/ Comparar(w) \/ Bloquear(w)
    BY <2>2, PasoMirarBloqueo, PasoLeer, PasoRefrescar, PasoComparar, PasoBloquear
  <2>3. CASE Recargar(w) \/ Actualizar(w) \/ Abrir(w) \/ Borrar(w) \/ Commit(w)
    BY <2>3, PasoRecargar, PasoActualizar, PasoAbrir, PasoBorrar, PasoCommit
  <2>4. CASE Reclamar(w) \/ Existe(w) \/ Renovar(w) \/ Revocar(w) \/ Cerrar(w)
    BY <2>4, PasoReclamar, PasoExiste, PasoRenovar, PasoRevocar, PasoCerrar
  <2>5. CASE UsarEnlace(w) \/ MirarPausa(w) \/ CrearEnlace(w) \/ AnotarPausa(w) \/ Caer(w)
    BY <2>5, PasoUsarEnlace, PasoMirarPausa, PasoCrearEnlace, PasoAnotarPausa, PasoCaer
  <2>6. QED
    BY <1>1, <2>1, <2>2, <2>3, <2>4, <2>5 DEF Actua
<1>2. CASE UNCHANGED vars
  <2>1. /\ abiertas' = abiertas /\ usuario' = usuario /\ fila' = fila /\ redis' = redis /\ token' = token
        /\ enlace' = enlace /\ pet' = pet /\ reloj' = reloj /\ cuenta' = cuenta
    BY <1>2 DEF vars
  <2>2. Formas' /\ Marcas' /\ Sesion' /\ Usados'
    BY <2>1 DEF IInv, Formas, TypeOK, Marcas, Sesion, Usados, En
  <2>3. Fallos'
    BY <2>1 DEF IInv, Fallos, Contados, Bloqueando, Pasaron
  <2>4. ASSUME NEW v \in Peticiones PROVE Una(v)'
    BY <2>1, QuienEs DEF Una, En, Entidad
  <2>5. QED
    BY <2>2, <2>3, <2>4 DEF IInv
<1>3. QED
  BY <1>1, <1>2, PasoTic DEF Next, Actua

\* The invariant holds in every state.
THEOREM Invariante == Spec => []IInv
<1>1. Init => IInv
  BY InitInv
<1>2. IInv /\ [Next]_vars => IInv'
  BY NextInv
<1>3. QED
  BY <1>1, <1>2, PTL DEF Spec

----------------------------------------------------------------------------
(* The properties *)

\* The step of a request leaves the others where they are.
LEMMA Ajena ==
    ASSUME IInv, NEW w \in Peticiones, Actua(w), NEW v \in Peticiones, v # w
    PROVE  pet'[v].paso = pet[v].paso
<1>1. pet \in [Peticiones -> Peticion] /\ pet[v] \in Peticion
  BY QuienEs
<1>2. CASE Commit(w)
  <2>1. pet'[v] = [pet[v] EXCEPT !.rancio = @ \/ pet[v].leido # Nada]
    BY <1>2 DEF Commit
  <2>2. QED
    BY <1>1, <2>1 DEF Peticion
<1>3. CASE \E op \in Operaciones : Empezar(w, op)
  BY <1>1, <1>3 DEF Empezar
<1>4. CASE MirarBloqueo(w) \/ Leer(w) \/ Refrescar(w) \/ Comparar(w) \/ Bloquear(w)
  BY <1>1, <1>4 DEF MirarBloqueo, Leer, Refrescar, Comparar, Bloquear, PasaSi, Pasa, Termina
<1>5. CASE Recargar(w) \/ Actualizar(w) \/ Abrir(w) \/ Borrar(w)
  BY <1>1, <1>5 DEF Recargar, Actualizar, Abrir, Borrar, Pasa
<1>6. CASE Reclamar(w) \/ Existe(w) \/ Renovar(w) \/ Revocar(w) \/ Cerrar(w)
  BY <1>1, <1>6 DEF Reclamar, Existe, Renovar, Revocar, Cerrar, PasaSi, Pasa, Termina
<1>7. CASE UsarEnlace(w) \/ MirarPausa(w) \/ CrearEnlace(w) \/ AnotarPausa(w) \/ Caer(w)
  BY <1>1, <1>7 DEF UsarEnlace, MirarPausa, CrearEnlace, AnotarPausa, Caer, PasaSi, Pasa, Termina
<1>8. QED
  BY <1>2, <1>3, <1>4, <1>5, <1>6, <1>7 DEF Actua

\* What moves a request is a step of its own.
LEMMA Propia ==
    ASSUME IInv, [Next]_vars, NEW w \in Peticiones, pet'[w].paso # pet[w].paso
    PROVE  Actua(w)
<1>1. CASE Tic \/ UNCHANGED vars
  BY <1>1 DEF Tic, vars
<1>2. CASE \E v \in Peticiones : Actua(v)
  BY <1>2, Ajena
<1>3. QED
  BY <1>1, <1>2 DEF Next, Actua

\* A request that ends is free.
LEMMA TerminaLibre ==
    ASSUME IInv, NEW w \in Peticiones, Termina(w)
    PROVE  pet'[w] = Libre /\ pet'[w].paso = "libre"
BY QuienEs, LibreTipo DEF Termina

\* Every variable always has its type: the row is held only by a request that is between
\* its UPDATE and its COMMIT, whatever the requests do and whenever they die.
THEOREM Tipos == Spec => []TypeOK
<1>1. IInv => TypeOK
  BY DEF IInv, Formas
<1>2. QED
  BY <1>1, Invariante, PTL

\* A logout that no refresh straddles ends the session until the next login, for any
\* number of refreshes under way and of tokens the client holds.
THEOREM CierreCumple == Spec => []CierreFirme
<1>1. IInv => CierreFirme
  BY DEF IInv, Sesion, CierreFirme
<1>2. QED
  BY <1>1, Invariante, PTL

\* However many attempts overlap, the failures before a lock are bounded by the limit, the
\* requests, those that died before locking and what late deletions forgave.
THEOREM BloqueoCumple == Spec => []BloqueoAcotado
<1>1. ASSUME IInv PROVE BloqueoAcotado
  <2>1. /\ cuenta.fallos \in Nat /\ cuenta.caidas \in Nat /\ cuenta.olvidados \in Nat
        /\ redis.bloqueo \in Nat /\ redis.intentos \in Nat
    BY <1>1, Constantes DEF IInv, Formas, TypeOK, Cuentas, Redis
  <2>2. Contados <= MaxIntentos - 1 /\ Contados \in Nat
    BY <2>1, Constantes DEF Contados
  <2>3. Fallos
    BY <1>1 DEF IInv
  <2>4. /\ Cardinality(Bloqueando) \in Nat /\ Cardinality(Pasaron) \in Nat
        /\ Cardinality(Peticiones) \in Nat /\ Cardinality(Bloqueando) <= Cardinality(Peticiones)
    BY Conteo
  <2>5. CASE redis.bloqueo = 0
    BY <2>1, <2>2, <2>3, <2>4, <2>5, Constantes DEF Fallos, BloqueoAcotado
  <2>6. CASE redis.bloqueo > 0
    BY <2>1, <2>3, <2>4, <2>6, Constantes DEF Fallos, BloqueoAcotado
  <2>7. QED
    BY <2>1, <2>5, <2>6
<1>2. QED
  BY <1>1, Invariante, PTL

\* A used or revoked token gets nobody in before its mark has expired, and then a day has
\* passed: the mark and the time since the last use add up to TOKEN_BLACKLIST_TTL.
THEOREM MarcaCumple == Spec => ReusoSoloTrasMarca
<1>1. ASSUME IInv, [Next]_vars, NEW w \in Peticiones,
             pet[w].paso = "reclamar", pet'[w].paso = "existe"
      PROVE  LET t == token[pet[w].ref] IN t.marca = 0 /\ (t.gastado => t.hace = TtlMarca)
  <2>1. Actua(w)
    BY <1>1, Propia
  <2>2. Reclamar(w)
    <3>1. ~Caer(w)
      BY <1>1, TerminaLibre DEF Caer
    <3>2. QED
      BY <1>1, <2>1, <3>1 DEF Actua, En, Empezar, MirarBloqueo, Leer, Refrescar, Comparar, Bloquear,
         Recargar, Actualizar, Abrir, Borrar, Commit, Existe, Renovar, Revocar, Cerrar, UsarEnlace,
         MirarPausa, CrearEnlace, AnotarPausa
  <2>3. Aceptable(pet[w].ref)
    BY <1>1, <2>2, TerminaLibre DEF Reclamar, PasaSi
  <2>4. pet[w].ref \in DOMAIN token
    BY <1>1, QuienEs DEF Una
  <2>5. token[pet[w].ref] \in Token
    BY <1>1, <2>4, QuienEs
  <2>6. token[pet[w].ref].hace \in 0..TtlMarca /\ token[pet[w].ref].marca = 0
    BY <2>3, <2>5 DEF Aceptable, Token
  <2>7. token[pet[w].ref].gastado => token[pet[w].ref].marca + token[pet[w].ref].hace >= TtlMarca
    BY <1>1, <2>4 DEF IInv, Marcas
  <2>8. QED
    BY <2>6, <2>7, Constantes
<1>2. IInv /\ [Next]_vars =>
        [\A w \in Peticiones :
           pet[w].paso = "reclamar" /\ pet'[w].paso = "existe" =>
             LET t == token[pet[w].ref]
             IN  t.marca = 0 /\ (t.gastado => t.hace = TtlMarca)]_vars
  BY <1>1
<1>3. QED
  BY <1>2, Invariante, PTL DEF Spec, ReusoSoloTrasMarca

\* After an account is verified with a link, no request gets in with it: it is deleted
\* before the COMMIT that uses it up, and a new one is never written over it.
THEOREM EnlaceCumple == Spec => EnlaceDeUnUso
<1>1. ASSUME IInv, [Next]_vars, NEW w \in Peticiones,
             pet[w].paso = "enlace", pet'[w].paso = "leer"
      PROVE  pet[w].ref \notin cuenta.usados
  <2>1. Actua(w)
    BY <1>1, Propia
  <2>2. UsarEnlace(w)
    <3>1. ~Caer(w)
      BY <1>1, TerminaLibre DEF Caer
    <3>2. QED
      BY <1>1, <2>1, <3>1 DEF Actua, En, Empezar, MirarBloqueo, Leer, Refrescar, Comparar, Bloquear,
         Recargar, Actualizar, Abrir, Borrar, Commit, Reclamar, Existe, Renovar, Revocar, Cerrar,
         MirarPausa, CrearEnlace, AnotarPausa
  <2>3. enlace[pet[w].ref].ttl > 0
    BY <1>1, <2>2, TerminaLibre DEF UsarEnlace, PasaSi
  <2>4. QED
    BY <1>1, <2>3 DEF IInv, Usados
<1>2. IInv /\ [Next]_vars =>
        [\A w \in Peticiones :
           pet[w].paso = "enlace" /\ pet'[w].paso = "leer" => pet[w].ref \notin cuenta.usados]_vars
  BY <1>1
<1>3. QED
  BY <1>2, Invariante, PTL DEF Spec, EnlaceDeUnUso

\* An UPDATE that no other COMMIT has overtaken writes the whole entity.
LEMMA EscritaEntera ==
    ASSUME IInv, NEW w \in Peticiones, pet[w].paso = "commit", ~pet[w].rancio
    PROVE  Escrita(w) = Entidad(w)
<1>1. /\ pet[w].campos = {c \in Campos : Entidad(w)[c] # usuario[c]} /\ usuario \in Fila
      /\ Entidad(w) \in Fila
  BY QuienEs, EntidadTipo DEF Una, ConCampos, ConEntidad
<1>2. DOMAIN usuario = Campos /\ DOMAIN Entidad(w) = Campos
      /\ Entidad(w) = [c \in Campos |-> Entidad(w)[c]]
  BY <1>1 DEF Fila, Campos
<1>3. \A c \in Campos : (IF c \in pet[w].campos THEN Entidad(w)[c] ELSE usuario[c]) = Entidad(w)[c]
  BY <1>1
<1>4. Escrita(w) = [c \in Campos |-> Entidad(w)[c]]
  BY <1>2, <1>3 DEF Escrita
<1>5. QED
  BY <1>2, <1>4

\* Without an overlapping write the state of the account changes only by the rules.
THEOREM EscrituraCumple == Spec => EscrituraLimpia
<1> DEFINE A == \A w \in Peticiones :
         pet[w].paso = "commit" /\ fila' = Nada /\ fila = w /\ pet'[w] = Libre
           /\ ~pet[w].rancio
         => CASE pet[w].op = "cambiar_estado" ->
                   usuario'.estado = usuario.estado
                   \/ <<usuario.estado, usuario'.estado>> \in TransicionesValidas
              [] pet[w].op = "verificar" ->
                   usuario' = usuario \/ usuario' = Activar(usuario)
              [] OTHER -> usuario' = usuario
<1>1. ASSUME IInv, [Next]_vars, NEW w \in Peticiones, pet[w].paso = "commit", pet'[w] = Libre,
             ~pet[w].rancio
      PROVE  /\ pet[w].op = "cambiar_estado" =>
                   usuario'.estado = usuario.estado
                   \/ <<usuario.estado, usuario'.estado>> \in TransicionesValidas
             /\ pet[w].op = "verificar" => usuario' = usuario \/ usuario' = Activar(usuario)
             /\ pet[w].op \notin {"cambiar_estado", "verificar"} => usuario' = usuario
  <2>1. Actua(w)
    BY <1>1, Propia, LibreTipo
  <2>2. Commit(w) \/ Caer(w)
    BY <1>1, <2>1 DEF Actua, En, Empezar, MirarBloqueo, Leer, Refrescar, Comparar, Bloquear,
       Recargar, Actualizar, Abrir, Borrar, Reclamar, Existe, Renovar, Revocar, Cerrar, UsarEnlace,
       MirarPausa, CrearEnlace, AnotarPausa
  <2>3. CASE Caer(w)
    BY <2>3 DEF Caer
  <2>4. CASE Commit(w)
    <3>1. usuario' = Entidad(w)
      BY <1>1, <2>4, EscritaEntera DEF Commit
    <3>2. pet[w].leido = usuario /\ usuario \in Fila
      BY <1>1, QuienEs DEF Una, ConEntidad
    <3>3. pet[w].op = "cambiar_estado" => <<usuario.estado, pet[w].nuevo>> \in TransicionesValidas
      BY <1>1, <3>2, QuienEs DEF Una, ConEntidad
    <3>4. CASE pet[w].op = "cambiar_estado"
      <4>1. pet[w].nuevo \in Estados
        BY <3>3, <3>4 DEF TransicionesValidas, Estados
      <4>2. usuario'.estado = pet[w].nuevo
        BY <3>1, <3>2, <3>4, <4>1, FilaTipo DEF Entidad
      <4>3. QED
        BY <3>3, <3>4, <4>2
    <3>5. CASE pet[w].op # "cambiar_estado"
      BY <3>1, <3>2, <3>5 DEF Entidad
    <3>6. QED
      BY <3>4, <3>5
  <2>5. QED
    BY <2>2, <2>3, <2>4
<1>2. IInv /\ [Next]_vars => [A]_vars
  BY <1>1
<1>3. QED
  BY <1>2, Invariante, PTL DEF Spec, EscrituraLimpia
=============================================================================
