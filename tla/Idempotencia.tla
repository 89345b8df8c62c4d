---------------------------- MODULE Idempotencia ----------------------------
(***************************************************************************)
(* IdempotencyMiddleware: the requests that share one idempotency key and  *)
(* the entry of Redis that makes them execute once.  The entry is first a  *)
(* lock (en_vuelo) and then the answer to repeat (guardada); only its time *)
(* to live ends it when nobody does.  The handler behind the middleware is *)
(* a step that commits or fails.  Keys share no state, so one is enough;   *)
(* the client resends after a 409, as Retry-After tells it.                *)
(***************************************************************************)
EXTENDS Naturals, FiniteSets

CONSTANTS
    Intentos,       \* requests with the same key, each sent by some client
    Cuerpos,        \* request bodies
    Modos,          \* subset of {"explicito", "automatico"} to consider
    TtlEnVuelo,     \* IDEMPOTENCY_IN_FLIGHT_TTL
    TtlExplicito,   \* IDEMPOTENCY_TTL
    TtlAutomatico,  \* IDEMPOTENCY_AUTO_TTL
    MaxDuracion,    \* bound on the time between acquiring the lock and the end
    Nada            \* no request

ASSUME ConstantesIdempotencia ==
    /\ Modos \subseteq {"explicito", "automatico"}
    /\ TtlEnVuelo \in Nat \ {0}
    /\ TtlExplicito \in Nat \ {0} /\ TtlAutomatico \in Nat \ {0}
    /\ MaxDuracion \in Nat
    /\ IsFiniteSet(Intentos) /\ Nada \notin Intentos

VARIABLES
    modo,    \* with the header Idempotency-Key or without it
    clave,   \* the entry of the key in Redis
    intento, \* intento[w]: the progress of request w
    vigencia \* vigencia[w]: the time that the answer stored by w was to have left,
             \* whatever became of the entry; no guard reads it

vars == <<modo, clave, intento, vigencia>>

Entrada == [estado : {"vacia", "en_vuelo", "guardada"},
            de : Intentos \cup {Nada},      \* whose answer is stored
            ttl : Nat]

Vacia == [estado |-> "vacia", de |-> Nada, ttl |-> 0]

\* Mutant: SET NX without an expiration.
EnVueloSinTtl == [estado |-> "en_vuelo", de |-> Nada, ttl |-> 0]

EnVuelo == [estado |-> "en_vuelo", de |-> Nada, ttl |-> TtlEnVuelo]

Pasos == {"nuevo", "consultar", "adquirir", "manejar", "guardar", "liberar",
          "espera", "fin", "caido"}

Salidas == {"ninguna", "guardable", "no_json", "grande"}

Respuestas == {"ninguna", "propia", "repetida", "otros_parametros", "error"}

Intento == [paso : Pasos,
            cuerpo : Cuerpos,
            edad : Nat,                     \* time since it took the lock
            salida : Salidas,               \* what its handler produced
            hecho : BOOLEAN,                \* its handler committed
            respuesta : Respuestas,         \* what the client got
            de : Intentos \cup {Nada}]      \* whose answer it got

\* Between taking the lock and storing the answer or dropping the lock.
Dentro(w) == intento[w].paso \in {"manejar", "guardar", "liberar"}

Ttl == IF modo = "explicito" THEN TtlExplicito ELSE TtlAutomatico

----------------------------------------------------------------------------
\* Without the header the body is part of the key: all of them have the same.
Init ==
    /\ modo \in Modos
    /\ clave = Vacia
    /\ vigencia = [w \in Intentos |-> 0]
    /\ \E c \in [Intentos -> Cuerpos] :
         /\ modo = "automatico" => \A v, w \in Intentos : c[v] = c[w]
         /\ intento = [w \in Intentos |->
                         [paso |-> "nuevo", cuerpo |-> c[w], edad |-> 0,
                          salida |-> "ninguna", hecho |-> FALSE,
                          respuesta |-> "ninguna", de |-> Nada]]

Avanza(w, p) == intento' = [intento EXCEPT ![w].paso = p]
Responde(w, r, v) ==
    intento' = [intento EXCEPT ![w].paso = "fin", ![w].respuesta = r, ![w].de = v]
SinClave == UNCHANGED <<modo, clave, vigencia>>

Llegar(w) ==
    /\ intento[w].paso = "nuevo"
    /\ Avanza(w, "consultar")
    /\ SinClave

\* Retry-After: the client that got a 409 sends the request again.
Reintentar(w) ==
    /\ intento[w].paso = "espera"
    /\ Avanza(w, "consultar")
    /\ SinClave

\* Only a key chosen by the client may come with another body.
MismosParametros(w) ==
    modo = "explicito" => intento[clave.de].cuerpo = intento[w].cuerpo

\* Mutant: the body is not compared.
ConsultarSinCuerpo(w) ==
    /\ intento[w].paso = "consultar"
    /\ CASE clave.estado = "vacia" -> Avanza(w, "adquirir")
         [] clave.estado = "en_vuelo" -> Avanza(w, "espera")
         [] OTHER -> Responde(w, "repetida", clave.de)
    /\ SinClave

\* Mutant: a 409 renews the lock.
ConsultarRenueva(w) ==
    /\ intento[w].paso = "consultar"
    /\ CASE clave.estado = "vacia" -> Avanza(w, "adquirir") /\ UNCHANGED clave
         [] clave.estado = "en_vuelo" -> Avanza(w, "espera") /\ clave' = EnVuelo
         [] OTHER -> Responde(w, "repetida", clave.de) /\ UNCHANGED clave
    /\ UNCHANGED <<modo, vigencia>>

\* cache.get: no entry, a lock (409), an answer to repeat or a misused key (422).
Consultar(w) ==
    /\ intento[w].paso = "consultar"
    /\ CASE clave.estado = "vacia" -> Avanza(w, "adquirir")
         [] clave.estado = "en_vuelo" -> Avanza(w, "espera")
         [] OTHER -> IF MismosParametros(w)
                     THEN Responde(w, "repetida", clave.de)
                     ELSE Responde(w, "otros_parametros", Nada)
    /\ SinClave

\* Mutant: SET without NX.
AdquirirSinNX(w) ==
    /\ intento[w].paso = "adquirir"
    /\ Avanza(w, "manejar")
    /\ clave' = EnVuelo
    /\ UNCHANGED <<modo, vigencia>>

\* cache.set_nx: whatever appeared since the GET is a 409.
Adquirir(w) ==
    /\ intento[w].paso = "adquirir"
    /\ IF clave.estado = "vacia"
       THEN Avanza(w, "manejar") /\ clave' = EnVuelo
       ELSE Avanza(w, "espera") /\ UNCHANGED clave
    /\ UNCHANGED <<modo, vigencia>>

\* call_next: the handler commits and answers 2xx, or fails and rolls back.
Manejar(w) ==
    /\ intento[w].paso = "manejar"
    /\ \/ \E s \in Salidas \ {"ninguna"} :
            intento' = [intento EXCEPT ![w].paso = "guardar", ![w].salida = s,
                                       ![w].hecho = TRUE]
       \/ Avanza(w, "liberar")
    /\ SinClave

\* A 2xx is stored over the entry, whoever left it there; what cannot be stored
\* deletes it, and a body over the limit leaves the lock where it is.
Guardar(w) ==
    /\ intento[w].paso = "guardar"
    /\ clave' = CASE intento[w].salida = "guardable" ->
                       [estado |-> "guardada", de |-> w, ttl |-> Ttl]
                  [] intento[w].salida = "no_json" -> Vacia
                  [] OTHER -> clave
    /\ vigencia' = [vigencia EXCEPT
                      ![w] = IF intento[w].salida = "guardable" THEN Ttl ELSE 0]
    /\ Responde(w, "propia", w)
    /\ UNCHANGED modo

\* An exception or an answer that is not 2xx: cache.delete, also of the lock of
\* another request or of its answer.
Liberar(w) ==
    /\ intento[w].paso = "liberar"
    /\ clave' = Vacia
    /\ Responde(w, "error", Nada)
    /\ UNCHANGED <<modo, vigencia>>

\* The process dies, the request is cancelled (CancelledError is not an Exception)
\* or a call to Redis fails: nothing else runs and the entry stays.
Caer(w) ==
    /\ intento[w].paso \notin {"nuevo", "espera", "fin", "caido"}
    /\ Avanza(w, "caido")
    /\ SinClave

\* A unit of time.  Nobody stays inside longer than MaxDuracion.
Tic ==
    /\ clave.ttl > 0 \/ \E w \in Intentos : Dentro(w)
    /\ \A w \in Intentos : Dentro(w) => intento[w].edad < MaxDuracion
    /\ clave' = IF clave.ttl <= 1 THEN Vacia ELSE [clave EXCEPT !.ttl = @ - 1]
    /\ intento' = [w \in Intentos |->
                     IF Dentro(w) THEN [intento[w] EXCEPT !.edad = @ + 1]
                                  ELSE intento[w]]
    /\ vigencia' = [w \in Intentos |->
                      IF vigencia[w] = 0 THEN 0 ELSE vigencia[w] - 1]
    /\ UNCHANGED modo

Avanzar(w) == \/ Consultar(w) \/ Adquirir(w) \/ Manejar(w) \/ Guardar(w)
              \/ Liberar(w) \/ Reintentar(w)

Next == \/ \E w \in Intentos : Llegar(w) \/ Avanzar(w) \/ Caer(w)
        \/ Tic

Spec == Init /\ [][Next]_vars

\* Time passes and every request that arrived goes on: the handlers end
\* (statement_timeout) and clients obey Retry-After.
Equidad == WF_vars(Tic) /\ \A w \in Intentos : WF_vars(Avanzar(w))

SpecJusta == Spec /\ Equidad

----------------------------------------------------------------------------
(* Properties *)

TypeOK ==
    /\ modo \in Modos
    /\ clave \in Entrada
    /\ intento \in [Intentos -> Intento]
    /\ vigencia \in [Intentos -> Nat]
    /\ clave.estado = "vacia" <=> clave.ttl = 0
    /\ clave.estado = "guardada" <=> clave.de # Nada

\* Its lock expired while it was inside.
Rebasado(w) == intento[w].edad >= TtlEnVuelo

\* Two requests with one key are inside the handler together only after one of them
\* was inside for the whole life of its lock, and there are never more together than
\* one and one for each of those: a request that outlives its lock lets one in and,
\* when it deletes a lock that is no longer its own, another in its place, but they
\* do not accumulate (SET NX, the expiration and the three ways to end).
Exclusion ==
    Cardinality({w \in Intentos : Dentro(w)})
      <= 1 + Cardinality({w \in Intentos : Rebasado(w)})

\* A request that was answered with a repeated response asked for the same thing
\* as the request that produced it, and that one really committed.
RepetidaEsFiel ==
    \A w \in Intentos :
        intento[w].respuesta = "repetida"
          => /\ intento[intento[w].de].hecho
             /\ intento[intento[w].de].cuerpo = intento[w].cuerpo

\* An operation that committed is executed again only if its answer could not be
\* stored, the process died before storing it, the answer was there for all its time
\* to live, or some request outlived its lock.
SinSegundaEjecucion ==
    [][\A v, w \in Intentos :
         v # w /\ intento[v].hecho /\ ~intento[w].hecho /\ intento'[w].hecho
           => \/ intento[v].salida # "guardable"
              \/ intento[v].paso = "caido"
              \/ intento[v].paso = "fin" /\ vigencia[v] = 0
              \/ \E u \in Intentos : Rebasado(u)]_vars

\* Nobody is told forever that the request is in progress: a client that obeys
\* Retry-After gets an answer, even after a crash that left the lock behind.
TodoIntentoResponde ==
    \A w \in Intentos :
        intento[w].paso = "consultar" ~> intento[w].paso \in {"fin", "caido"}
=============================================================================
