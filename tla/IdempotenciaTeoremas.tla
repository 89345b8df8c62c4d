------------------------ MODULE IdempotenciaTeoremas ------------------------
(***************************************************************************)
(* Proofs about Idempotencia for any number of requests, bodies and times  *)
(* to live, and handlers of any duration.  What keeps requests apart is a  *)
(* count: the one that holds the lock has been inside for the time the     *)
(* lock has spent, so a lock cannot expire under a request without making  *)
(* it one of those that outlived theirs, and each of these lets in one     *)
(* more at a time.                                                         *)
(***************************************************************************)
EXTENDS Idempotencia, FiniteSetTheorems, TLAPS

\* Nobody has been inside before being inside.
SinEdad ==
    \A w \in Intentos :
        intento[w].paso \in {"nuevo", "consultar", "adquirir", "espera"}
          => intento[w].edad = 0

\* What is stored, and what was repeated, comes from a request that committed.
Constancia ==
    /\ \A w \in Intentos : intento[w].paso = "guardar" => intento[w].hecho
    /\ clave.estado = "guardada" => intento[clave.de].hecho
    /\ modo = "automatico"
         => \A v, w \in Intentos : intento[v].cuerpo = intento[w].cuerpo
    /\ \A w \in Intentos :
         intento[w].respuesta = "repetida"
           => /\ intento[w].de \in Intentos
              /\ intento[intento[w].de].hecho
              /\ intento[intento[w].de].cuerpo = intento[w].cuerpo

----------------------------------------------------------------------------
(* Types *)

\* The key begins empty and no request has arrived.
LEMMA TipoInicial == Init => TypeOK
<1> SUFFICES ASSUME Init PROVE TypeOK
  OBVIOUS
<1>1. clave \in Entrada /\ clave.ttl = 0 /\ clave.de = Nada /\ clave.estado = "vacia"
  BY DEF Init, Vacia, Entrada
<1>2. intento \in [Intentos -> Intento]
  BY DEF Init, Intento, Pasos, Salidas, Respuestas
<1> QED
  BY <1>1, <1>2 DEF Init, TypeOK

\* Writing one field at a time, or the three an answer sets, keeps the type.
LEMMA TipoAvanza ==
    ASSUME TypeOK, NEW w \in Intentos, NEW p \in Pasos, Avanza(w, p)
    PROVE  intento' \in [Intentos -> Intento]
  BY DEF TypeOK, Avanza, Intento

\* An answer keeps the type of the request that gets it.
LEMMA TipoResponde ==
    ASSUME TypeOK, NEW w \in Intentos, NEW r \in Respuestas,
           NEW v \in Intentos \cup {Nada}, Responde(w, r, v)
    PROVE  intento' \in [Intentos -> Intento]
<1> DEFINE i == [intento[w] EXCEPT !.paso = "fin", !.respuesta = r, !.de = v]
<1>1. intento \in [Intentos -> Intento]
  BY DEF TypeOK
<1>2. intento' = [intento EXCEPT ![w] = i]
  BY <1>1 DEF Responde, Intento
<1>3. i \in Intento
  BY <1>1 DEF Intento, Pasos
<1> QED
  BY <1>1, <1>2, <1>3

\* Every step keeps the types.
LEMMA TipoPaso == TypeOK /\ [Next]_vars => TypeOK'
<1> SUFFICES ASSUME TypeOK, [Next]_vars PROVE TypeOK'
  OBVIOUS
<1> USE DEF SinClave
<1>1. ASSUME NEW w \in Intentos, Llegar(w) PROVE TypeOK'
  BY <1>1, TipoAvanza DEF Llegar, Pasos, TypeOK
<1>2. ASSUME NEW w \in Intentos, Reintentar(w) PROVE TypeOK'
  BY <1>2, TipoAvanza DEF Reintentar, Pasos, TypeOK
<1>3. ASSUME NEW w \in Intentos, Consultar(w) PROVE TypeOK'
  <2>1. clave.de \in Intentos \cup {Nada}
    BY DEF TypeOK, Entrada
  <2>2. \/ Avanza(w, "adquirir") \/ Avanza(w, "espera")
        \/ Responde(w, "repetida", clave.de)
        \/ Responde(w, "otros_parametros", Nada)
    BY <1>3 DEF Consultar
  <2>3. intento' \in [Intentos -> Intento]
    BY <2>1, <2>2, TipoAvanza, TipoResponde DEF Pasos, Respuestas
  <2> QED
    BY <1>3, <2>3 DEF Consultar, TypeOK
<1>4. ASSUME NEW w \in Intentos, Adquirir(w) PROVE TypeOK'
  <2>1. intento' \in [Intentos -> Intento]
    BY <1>4, TipoAvanza DEF Adquirir, Pasos
  <2>2. EnVuelo \in Entrada /\ EnVuelo.ttl # 0 /\ EnVuelo.de = Nada
        /\ EnVuelo.estado = "en_vuelo"
    BY ConstantesIdempotencia DEF EnVuelo, Entrada
  <2> QED
    BY <1>4, <2>1, <2>2 DEF Adquirir, TypeOK
<1>5. ASSUME NEW w \in Intentos, Manejar(w) PROVE TypeOK'
  <2>1. intento' \in [Intentos -> Intento]
    <3>1. CASE Avanza(w, "liberar")
      BY <3>1, TipoAvanza DEF Pasos
    <3>2. CASE ~Avanza(w, "liberar")
      <4>1. PICK s \in Salidas :
              intento' = [intento EXCEPT ![w].paso = "guardar", ![w].salida = s,
                                         ![w].hecho = TRUE]
        BY <1>5, <3>2 DEF Manejar
      <4> DEFINE i == [intento[w] EXCEPT !.paso = "guardar", !.salida = s,
                                         !.hecho = TRUE]
      <4>2. intento \in [Intentos -> Intento]
        BY DEF TypeOK
      <4>3. intento' = [intento EXCEPT ![w] = i]
        BY <4>1, <4>2 DEF Intento
      <4>4. i \in Intento
        BY <4>2 DEF Intento, Pasos
      <4> QED
        BY <4>2, <4>3, <4>4
    <3> QED
      BY <3>1, <3>2
  <2> QED
    BY <1>5, <2>1 DEF Manejar, TypeOK
<1>6. ASSUME NEW w \in Intentos, Guardar(w) PROVE TypeOK'
  <2>1. intento' \in [Intentos -> Intento]
    BY <1>6, TipoResponde DEF Guardar, Respuestas
  <2>2. Ttl \in Nat \ {0}
    BY ConstantesIdempotencia DEF Ttl
  <2> DEFINE guardada == [estado |-> "guardada", de |-> w, ttl |-> Ttl]
  <2>3. guardada \in Entrada /\ guardada.ttl # 0 /\ guardada.de # Nada
    BY <2>2, ConstantesIdempotencia DEF Entrada
  <2>4. Vacia \in Entrada /\ Vacia.ttl = 0 /\ Vacia.de = Nada
    BY DEF Vacia, Entrada
  <2>5. clave' = guardada \/ clave' = Vacia \/ clave' = clave
    BY <1>6 DEF Guardar
  <2>5a. vigencia' \in [Intentos -> Nat]
    BY <1>6, <2>2 DEF Guardar, TypeOK
  <2>6. CASE clave' = guardada
    BY <1>6, <2>1, <2>5a, <2>3, <2>6 DEF Guardar, TypeOK
  <2>7. CASE clave' = Vacia
    BY <1>6, <2>1, <2>5a, <2>4, <2>7 DEF Guardar, TypeOK, Vacia
  <2>8. CASE clave' = clave
    BY <1>6, <2>1, <2>5a, <2>8 DEF Guardar, TypeOK
  <2> QED
    BY <2>5, <2>6, <2>7, <2>8
<1>7. ASSUME NEW w \in Intentos, Liberar(w) PROVE TypeOK'
  <2>1. intento' \in [Intentos -> Intento]
    BY <1>7, TipoResponde DEF Liberar, Respuestas
  <2> QED
    BY <1>7, <2>1 DEF Liberar, Vacia, Entrada, TypeOK
<1>8. ASSUME NEW w \in Intentos, Caer(w) PROVE TypeOK'
  BY <1>8, TipoAvanza DEF Caer, Pasos, TypeOK
<1>9. ASSUME Tic PROVE TypeOK'
  <2>1. intento' \in [Intentos -> Intento]
    BY <1>9 DEF Tic, TypeOK, Intento
  <2>1a. vigencia' \in [Intentos -> Nat]
    BY <1>9 DEF Tic, TypeOK
  <2>2. CASE clave.ttl <= 1
    BY <1>9, <2>1, <2>1a, <2>2 DEF Tic, Vacia, Entrada, TypeOK
  <2>3. CASE ~(clave.ttl <= 1)
    <3>1. clave' = [clave EXCEPT !.ttl = @ - 1] /\ modo' = modo
      BY <1>9, <2>3 DEF Tic
    <3>2. clave'.ttl \in Nat \ {0} /\ clave'.estado = clave.estado
          /\ clave'.de = clave.de /\ clave' \in Entrada /\ clave.ttl # 0
      BY <2>3, <3>1 DEF TypeOK, Entrada
    <3> QED
      BY <2>1, <2>1a, <3>1, <3>2 DEF TypeOK
  <2> QED
    BY <2>2, <2>3
<1>10. ASSUME UNCHANGED vars PROVE TypeOK'
  BY <1>10 DEF vars, TypeOK
<1> QED
  BY <1>1, <1>2, <1>3, <1>4, <1>5, <1>6, <1>7, <1>8, <1>9, <1>10 DEF Next, Avanzar

\* The entry of Redis and the requests keep their type: an entry exists exactly
\* while it has time to live, and only an answer names who produced it.
THEOREM TipoCorrecto == Spec => []TypeOK
<1>1. Init => TypeOK
  BY TipoInicial
<1>2. TypeOK /\ [Next]_vars => TypeOK'
  BY TipoPaso
<1> QED
  BY <1>1, <1>2, PTL DEF Spec

----------------------------------------------------------------------------
(* One request moves at a time *)

\* Moving on changes one request, and of it only the step.
LEMMA SoloAvanza ==
    ASSUME TypeOK, NEW w \in Intentos, NEW p \in Pasos, Avanza(w, p)
    PROVE  /\ \A v \in Intentos \ {w} : intento'[v] = intento[v]
           /\ intento'[w] = [intento[w] EXCEPT !.paso = p]
           /\ intento'[w].paso = p
           /\ intento'[w].edad = intento[w].edad
           /\ intento'[w].cuerpo = intento[w].cuerpo
           /\ intento'[w].hecho = intento[w].hecho
           /\ intento'[w].respuesta = intento[w].respuesta
           /\ intento'[w].de = intento[w].de
<1>1. intento \in [Intentos -> Intento]
  BY DEF TypeOK
<1>2. intento' = [intento EXCEPT ![w] = [intento[w] EXCEPT !.paso = p]]
  BY <1>1 DEF Avanza
<1> QED
  BY <1>1, <1>2 DEF Intento

\* Answering changes one request, and leaves its age, its body and whether it
\* committed.
LEMMA SoloResponde ==
    ASSUME TypeOK, NEW w \in Intentos, NEW r \in Respuestas,
           NEW v \in Intentos \cup {Nada}, Responde(w, r, v)
    PROVE  /\ \A u \in Intentos \ {w} : intento'[u] = intento[u]
           /\ intento'[w].paso = "fin"
           /\ intento'[w].edad = intento[w].edad
           /\ intento'[w].cuerpo = intento[w].cuerpo
           /\ intento'[w].hecho = intento[w].hecho
           /\ intento'[w].respuesta = r
           /\ intento'[w].de = v
<1> DEFINE i == [intento[w] EXCEPT !.paso = "fin", !.respuesta = r, !.de = v]
<1>1. intento \in [Intentos -> Intento]
  BY DEF TypeOK
<1>2. intento' = [intento EXCEPT ![w] = i]
  BY <1>1 DEF Responde, Intento
<1>3. /\ i.paso = "fin" /\ i.edad = intento[w].edad /\ i.cuerpo = intento[w].cuerpo
      /\ i.hecho = intento[w].hecho /\ i.respuesta = r /\ i.de = v
  BY <1>1 DEF Intento
<1>4. intento'[w] = i /\ \A u \in Intentos \ {w} : intento'[u] = intento[u]
  BY <1>1, <1>2
<1> HIDE DEF i
<1> QED
  BY <1>3, <1>4

\* The handler answered with a 2xx, or it did not.
LEMMA SoloManeja ==
    ASSUME TypeOK, NEW w \in Intentos, Manejar(w)
    PROVE  /\ intento[w].paso = "manejar"
           /\ \A v \in Intentos \ {w} : intento'[v] = intento[v]
           /\ intento'[w].paso \in {"guardar", "liberar"}
           /\ intento'[w].edad = intento[w].edad
           /\ intento'[w].cuerpo = intento[w].cuerpo
           /\ intento[w].hecho => intento'[w].hecho
           /\ intento'[w].paso = "guardar" => intento'[w].hecho
           /\ intento'[w].respuesta = intento[w].respuesta
           /\ intento'[w].de = intento[w].de
<1>1. intento \in [Intentos -> Intento] /\ intento[w].paso = "manejar"
  BY DEF TypeOK, Manejar
<1>2. CASE Avanza(w, "liberar")
  BY <1>1, <1>2, SoloAvanza DEF Pasos
<1>3. CASE ~Avanza(w, "liberar")
  <2>1. PICK s \in Salidas :
          intento' = [intento EXCEPT ![w].paso = "guardar", ![w].salida = s,
                                     ![w].hecho = TRUE]
    BY <1>3 DEF Manejar
  <2> DEFINE i == [intento[w] EXCEPT !.paso = "guardar", !.salida = s,
                                     !.hecho = TRUE]
  <2>2. intento' = [intento EXCEPT ![w] = i]
    BY <2>1, <1>1 DEF Intento
  <2>3. /\ i.paso = "guardar" /\ i.edad = intento[w].edad /\ i.hecho = TRUE
        /\ i.cuerpo = intento[w].cuerpo /\ i.de = intento[w].de
        /\ i.respuesta = intento[w].respuesta
    BY <1>1 DEF Intento
  <2>4. intento'[w] = i /\ \A v \in Intentos \ {w} : intento'[v] = intento[v]
    BY <1>1, <2>2
  <2> HIDE DEF i
  <2> QED
    BY <1>1, <2>3, <2>4
<1> QED
  BY <1>2, <1>3

\* Time passes: only the age of who is inside changes.
LEMMA SoloEnvejece ==
    ASSUME TypeOK, Tic, NEW w \in Intentos
    PROVE  /\ intento'[w].paso = intento[w].paso
           /\ intento'[w].edad = intento[w].edad + (IF Dentro(w) THEN 1 ELSE 0)
           /\ intento'[w].cuerpo = intento[w].cuerpo
           /\ intento'[w].hecho = intento[w].hecho
           /\ intento'[w].respuesta = intento[w].respuesta
           /\ intento'[w].de = intento[w].de
<1>1. intento \in [Intentos -> Intento]
  BY DEF TypeOK
<1>2. intento'[w] = IF Dentro(w) THEN [intento[w] EXCEPT !.edad = @ + 1]
                                 ELSE intento[w]
  BY <1>1 DEF Tic
<1> QED
  BY <1>1, <1>2 DEF Intento

----------------------------------------------------------------------------
(* The lock *)

Adentro == {w \in Intentos : Dentro(w)}
Rebasados == {w \in Intentos : Rebasado(w)}

\* The lock is there, and it may be that of w.
Suyo(w) ==
    /\ Dentro(w) /\ clave.estado = "en_vuelo"
    /\ clave.ttl + intento[w].edad = TtlEnVuelo

\* Of the requests inside, one holds the lock; each of the others has a request that
\* outlived its own.
Aislado ==
    /\ SinEdad
    /\ Cardinality(Adentro)
         <= Cardinality(Rebasados) + (IF \E w \in Intentos : Suyo(w) THEN 1 ELSE 0)

\* Both are finite.
LEMMA CuentasFinitas ==
    /\ IsFiniteSet(Adentro) /\ Cardinality(Adentro) \in Nat
    /\ IsFiniteSet(Rebasados) /\ Cardinality(Rebasados) \in Nat
<1>1. Adentro \in SUBSET Intentos /\ Rebasados \in SUBSET Intentos
  BY DEF Adentro, Rebasados
<1>2. IsFiniteSet(Adentro) /\ IsFiniteSet(Rebasados)
  BY <1>1, FS_Subset, ConstantesIdempotencia
<1>3. QED
  BY <1>2, FS_CardinalityType

\* So are they after a step.
LEMMA CuentasFinitasPrima ==
    /\ IsFiniteSet(Adentro') /\ Cardinality(Adentro') \in Nat
    /\ IsFiniteSet(Rebasados') /\ Cardinality(Rebasados') \in Nat
<1>1. Adentro' \in SUBSET Intentos /\ Rebasados' \in SUBSET Intentos
  BY DEF Adentro, Rebasados
<1>2. IsFiniteSet(Adentro') /\ IsFiniteSet(Rebasados')
  BY <1>1, FS_Subset, ConstantesIdempotencia
<1>3. QED
  BY <1>2, FS_CardinalityType

\* At the start nobody is inside.
LEMMA AisladoInicial == Init => Aislado
<1> SUFFICES ASSUME Init PROVE Aislado
  OBVIOUS
<1>1. Adentro = {}
  BY DEF Init, Adentro, Dentro
<1>2. Cardinality(Adentro) = 0
  BY <1>1, FS_EmptySet
<1>3. SinEdad
  BY DEF Init, SinEdad
<1>4. QED
  BY <1>2, <1>3, CuentasFinitas DEF Aislado

\* A step by which nobody enters or leaves, ages or touches the entry.
LEMMA AisladoIgual ==
    ASSUME Aislado, clave' = clave, SinEdad',
           \A v \in Intentos : /\ Dentro(v)' = Dentro(v)
                               /\ intento'[v].edad = intento[v].edad
    PROVE  Aislado'
<1>1. Adentro' = Adentro /\ Rebasados' = Rebasados
  BY DEF Adentro, Rebasados, Rebasado
<1>2. \A v \in Intentos : Suyo(v)' = Suyo(v)
  BY DEF Suyo
<1>3. QED
  BY <1>1, <1>2 DEF Aislado

\* Who leaves takes one away, whatever it does to the entry.
LEMMA AisladoSalir ==
    ASSUME Aislado, SinEdad', NEW w \in Intentos, Dentro(w), ~Dentro(w)',
           \A v \in Intentos \ {w} : Dentro(v)' = Dentro(v),
           \A v \in Intentos : intento'[v].edad = intento[v].edad
    PROVE  Aislado'
<1>1. Adentro' = Adentro \ {w} /\ w \in Adentro /\ Rebasados' = Rebasados
  BY DEF Adentro, Rebasados, Rebasado
<1>2. Cardinality(Adentro') = Cardinality(Adentro) - 1
  BY <1>1, CuentasFinitas, FS_RemoveElement
<1>3. Cardinality(Adentro) <= Cardinality(Rebasados) + 1
  BY CuentasFinitas DEF Aislado
<1>4. Cardinality(Adentro') <= Cardinality(Rebasados')
  BY <1>1, <1>2, <1>3, CuentasFinitas
<1>5. QED
  BY <1>4, CuentasFinitasPrima DEF Aislado

\* Who takes the lock finds no entry: nobody had it.
LEMMA AisladoEntrar ==
    ASSUME Aislado, SinEdad', NEW w \in Intentos, ~Dentro(w), Dentro(w)',
           clave.estado = "vacia", clave' = EnVuelo, intento[w].edad = 0,
           \A v \in Intentos \ {w} : Dentro(v)' = Dentro(v),
           \A v \in Intentos : intento'[v].edad = intento[v].edad
    PROVE  Aislado'
<1>1. Adentro' = Adentro \cup {w} /\ w \notin Adentro /\ Rebasados' = Rebasados
  BY DEF Adentro, Rebasados, Rebasado
<1>2. Cardinality(Adentro') = Cardinality(Adentro) + 1
  BY <1>1, CuentasFinitas, FS_AddElement
<1>3. Cardinality(Adentro) <= Cardinality(Rebasados)
  <2>1. ~\E v \in Intentos : Suyo(v)
    BY DEF Suyo
  <2>2. QED
    BY <2>1, CuentasFinitas DEF Aislado
<1>4. Suyo(w)'
  BY ConstantesIdempotencia DEF Suyo, EnVuelo
<1>5. Cardinality(Adentro') <= Cardinality(Rebasados') + 1
  BY <1>1, <1>2, <1>3, CuentasFinitas
<1>6. QED
  BY <1>4, <1>5 DEF Aislado

\* A lock that expires makes a request one of those that outlived theirs.
LEMMA AisladoTic == ASSUME TypeOK, Aislado, Tic PROVE Aislado'
<1>1. \A v \in Intentos :
        /\ Dentro(v)' = Dentro(v)
        /\ intento'[v].edad = intento[v].edad + (IF Dentro(v) THEN 1 ELSE 0)
        /\ intento[v].edad \in Nat
        /\ intento'[v].paso = intento[v].paso
  BY SoloEnvejece DEF Dentro, TypeOK, Intento
<1>2. SinEdad'
  BY <1>1 DEF Aislado, SinEdad, Dentro
<1>3. Adentro' = Adentro
  BY <1>1 DEF Adentro
<1>4. Rebasados \in SUBSET Rebasados'
  BY <1>1, ConstantesIdempotencia DEF Rebasados, Rebasado
<1>5. Cardinality(Rebasados) <= Cardinality(Rebasados')
  BY <1>4, CuentasFinitasPrima, FS_Subset
<1>6. CASE ~\E w \in Intentos : Suyo(w)
  <2>1. Cardinality(Adentro') <= Cardinality(Rebasados')
    BY <1>3, <1>5, <1>6, CuentasFinitas, CuentasFinitasPrima DEF Aislado
  <2>2. QED
    BY <1>2, <2>1, CuentasFinitasPrima DEF Aislado
<1>7. ASSUME NEW w \in Intentos, Suyo(w) PROVE Aislado'
  <2>1. /\ Dentro(w) /\ clave.estado = "en_vuelo" /\ clave.ttl \in Nat \ {0}
        /\ clave.ttl + intento[w].edad = TtlEnVuelo /\ intento[w].edad \in Nat
    BY <1>1, <1>7 DEF Suyo, TypeOK, Entrada
  <2>2. Cardinality(Adentro') <= Cardinality(Rebasados) + 1
    BY <1>3, CuentasFinitas DEF Aislado
  <2>3. CASE clave.ttl = 1
    <3>1. w \notin Rebasados /\ w \in Rebasados'
      BY <1>1, <2>1, <2>3, ConstantesIdempotencia DEF Rebasados, Rebasado
    <3>2. Rebasados \cup {w} \in SUBSET Rebasados'
      BY <1>4, <3>1
    <3>3. Cardinality(Rebasados \cup {w}) = Cardinality(Rebasados) + 1
      BY <3>1, CuentasFinitas, FS_AddElement
    <3>4. Cardinality(Rebasados \cup {w}) <= Cardinality(Rebasados')
      BY <3>2, CuentasFinitasPrima, FS_Subset
    <3>5. Cardinality(Adentro') <= Cardinality(Rebasados')
      BY <2>2, <3>3, <3>4, CuentasFinitas, CuentasFinitasPrima
    <3>6. QED
      BY <1>2, <3>5, CuentasFinitasPrima DEF Aislado
  <2>4. CASE clave.ttl # 1
    <3>1. clave' = [clave EXCEPT !.ttl = @ - 1]
      BY <2>1, <2>4 DEF Tic
    <3>2. clave'.estado = "en_vuelo" /\ clave'.ttl = clave.ttl - 1
      BY <2>1, <3>1 DEF TypeOK, Entrada
    <3>3. Suyo(w)'
      BY <1>1, <2>1, <3>2, ConstantesIdempotencia DEF Suyo
    <3>4. Cardinality(Adentro') <= Cardinality(Rebasados') + 1
      BY <1>5, <2>2, CuentasFinitas, CuentasFinitasPrima
    <3>5. QED
      BY <1>2, <3>3, <3>4 DEF Aislado
  <2>5. QED
    BY <2>3, <2>4
<1>8. QED
  BY <1>6, <1>7

\* Every step keeps the count.
LEMMA AisladoPaso ==
    ASSUME TypeOK, Aislado, [Next]_vars
    PROVE  Aislado'
<1>0. ASSUME NEW w \in Intentos, ~Dentro(w), ~Dentro(w)', clave' = clave,
             \A v \in Intentos \ {w} : intento'[v] = intento[v],
             intento'[w].edad = intento[w].edad,
             \/ intento[w].paso \in {"nuevo", "consultar", "adquirir", "espera"}
             \/ intento'[w].paso \notin {"nuevo", "consultar", "adquirir", "espera"}
      PROVE  Aislado'
  <2>1. SinEdad'
    BY <1>0 DEF Aislado, SinEdad
  <2>2. \A v \in Intentos : /\ Dentro(v)' = Dentro(v)
                            /\ intento'[v].edad = intento[v].edad
    BY <1>0 DEF Dentro
  <2>3. QED
    BY <1>0, <2>1, <2>2, AisladoIgual
<1>1. ASSUME NEW w \in Intentos, Llegar(w) PROVE Aislado'
  BY <1>0, <1>1, SoloAvanza DEF Llegar, SinClave, Pasos, Dentro
<1>2. ASSUME NEW w \in Intentos, Reintentar(w) PROVE Aislado'
  BY <1>0, <1>2, SoloAvanza DEF Reintentar, SinClave, Pasos, Dentro
<1>3. ASSUME NEW w \in Intentos, Consultar(w) PROVE Aislado'
  <2>1. /\ intento[w].paso = "consultar" /\ clave' = clave
        /\ clave.de \in Intentos \cup {Nada}
    BY <1>3 DEF Consultar, SinClave, TypeOK, Entrada
  <2>2. CASE Avanza(w, "adquirir") \/ Avanza(w, "espera")
    BY <1>0, <2>1, <2>2, SoloAvanza DEF Pasos, Dentro
  <2>3. CASE Responde(w, "repetida", clave.de)
             \/ Responde(w, "otros_parametros", Nada)
    BY <1>0, <2>1, <2>3, SoloResponde DEF Respuestas, Dentro
  <2> QED
    BY <1>3, <2>2, <2>3 DEF Consultar
<1>4. ASSUME NEW w \in Intentos, Adquirir(w) PROVE Aislado'
  <2>1. intento[w].paso = "adquirir" /\ intento[w].edad = 0 /\ ~Dentro(w)
    BY <1>4 DEF Adquirir, Aislado, SinEdad, Dentro
  <2>2. CASE clave.estado = "vacia"
    <3>1. Avanza(w, "manejar") /\ clave' = EnVuelo
      BY <1>4, <2>2 DEF Adquirir
    <3>2. /\ \A v \in Intentos \ {w} : intento'[v] = intento[v]
          /\ intento'[w].paso = "manejar" /\ intento'[w].edad = 0
      BY <2>1, <3>1, SoloAvanza DEF Pasos
    <3>3. SinEdad'
      BY <3>2 DEF Aislado, SinEdad
    <3>4. /\ Dentro(w)'
          /\ \A v \in Intentos \ {w} : Dentro(v)' = Dentro(v)
          /\ \A v \in Intentos : intento'[v].edad = intento[v].edad
      BY <2>1, <3>2 DEF Dentro
    <3> QED
      BY <2>1, <2>2, <3>1, <3>3, <3>4, AisladoEntrar
  <2>3. CASE clave.estado # "vacia"
    <3>1. Avanza(w, "espera") /\ clave' = clave
      BY <1>4, <2>3 DEF Adquirir
    <3> QED
      BY <1>0, <2>1, <3>1, SoloAvanza DEF Pasos, Dentro
  <2> QED
    BY <2>2, <2>3
<1>5. ASSUME NEW w \in Intentos, Manejar(w) PROVE Aislado'
  <2>1. clave' = clave /\ Dentro(w) /\ Dentro(w)'
    BY <1>5, SoloManeja DEF Manejar, SinClave, Dentro
  <2>2. \A v \in Intentos : /\ Dentro(v)' = Dentro(v)
                            /\ intento'[v].edad = intento[v].edad
    BY <1>5, <2>1, SoloManeja DEF Dentro
  <2>3. SinEdad'
    BY <1>5, SoloManeja DEF Aislado, SinEdad
  <2> QED
    BY <2>1, <2>2, <2>3, AisladoIgual
<1>6. ASSUME NEW w \in Intentos, Dentro(w), intento'[w].paso \in {"fin", "caido"},
             \A v \in Intentos \ {w} : intento'[v] = intento[v],
             intento'[w].edad = intento[w].edad
      PROVE  Aislado'
  <2>1. SinEdad'
    BY <1>6 DEF Aislado, SinEdad
  <2>2. /\ ~Dentro(w)'
        /\ \A v \in Intentos \ {w} : Dentro(v)' = Dentro(v)
        /\ \A v \in Intentos : intento'[v].edad = intento[v].edad
    BY <1>6 DEF Dentro
  <2>3. QED
    BY <1>6, <2>1, <2>2, AisladoSalir
<1>7. ASSUME NEW w \in Intentos, Guardar(w) PROVE Aislado'
  BY <1>6, <1>7, SoloResponde DEF Guardar, Respuestas, Dentro
<1>8. ASSUME NEW w \in Intentos, Liberar(w) PROVE Aislado'
  BY <1>6, <1>8, SoloResponde DEF Liberar, Respuestas, Dentro
<1>9. ASSUME NEW w \in Intentos, Caer(w) PROVE Aislado'
  <2>1. clave' = clave /\ Avanza(w, "caido")
    BY <1>9 DEF Caer, SinClave
  <2>2. /\ \A v \in Intentos \ {w} : intento'[v] = intento[v]
        /\ intento'[w].paso = "caido" /\ intento'[w].edad = intento[w].edad
    BY <2>1, SoloAvanza DEF Pasos
  <2>3. CASE Dentro(w)
    BY <1>6, <2>2, <2>3
  <2>4. CASE ~Dentro(w)
    BY <1>0, <2>1, <2>2, <2>4 DEF Dentro
  <2> QED
    BY <2>3, <2>4
<1>10. CASE Tic
  BY <1>10, AisladoTic
<1>11. CASE UNCHANGED vars
  BY <1>11, AisladoIgual DEF vars, Aislado, SinEdad, Dentro
<1> QED
  BY <1>1, <1>2, <1>3, <1>4, <1>5, <1>7, <1>8, <1>9, <1>10, <1>11 DEF Next, Avanzar

\* So the count holds in every behaviour.
LEMMA AisladoSiempre == Spec => [](TypeOK /\ Aislado)
<1>1. Init => TypeOK /\ Aislado
  BY TipoInicial, AisladoInicial
<1>2. TypeOK /\ Aislado /\ [Next]_vars => (TypeOK /\ Aislado)'
  BY TipoPaso, AisladoPaso
<1> QED
  BY <1>1, <1>2, PTL DEF Spec

\* Whatever time handlers take, two requests are inside together only when one has
\* outlived its lock, and those that did bound how many there are, however requests,
\* retries, crashes, late deletions and expirations interleave.
THEOREM ExclusionMutua == Spec => []Exclusion
<1>1. TypeOK /\ Aislado => Exclusion
  BY CuentasFinitas DEF Aislado, Exclusion, Adentro, Rebasados
<1> QED
  BY <1>1, AisladoSiempre, PTL

\* In particular, with handlers that end before their lock there is one at a time.
LEMMA UnoSiTerminaATiempo ==
    ASSUME TypeOK, Exclusion, \A w \in Intentos : ~Rebasado(w),
           NEW v \in Intentos, NEW w \in Intentos, Dentro(v), Dentro(w)
    PROVE  v = w
<1>1. Rebasados = {}
  BY DEF Rebasados
<1>2. Cardinality(Rebasados) = 0
  BY <1>1, FS_EmptySet
<1>3. Cardinality(Adentro) <= 1
  BY <1>2 DEF Exclusion, Adentro, Rebasados
<1>4. SUFFICES ASSUME v # w PROVE FALSE
  OBVIOUS
<1>5. Cardinality({v}) = 1 /\ IsFiniteSet({v})
  BY FS_Singleton
<1>6. Cardinality({v} \cup {w}) = 2
  BY <1>4, <1>5, FS_AddElement
<1>7. {v} \cup {w} \in SUBSET Adentro
  BY DEF Adentro
<1>8. Cardinality({v} \cup {w}) <= Cardinality(Adentro)
  BY <1>7, CuentasFinitas, FS_Subset
<1>9. QED
  BY <1>3, <1>6, <1>8, CuentasFinitas

----------------------------------------------------------------------------
(* The answers that are stored *)

\* Who committed is at the end of the request and, as long as nobody outlives a lock,
\* the entry is the answer that has time left.
Vigente ==
    /\ \A v \in Intentos : intento[v].hecho => intento[v].paso \in {"guardar", "fin", "caido"}
    /\ (\A u \in Intentos : ~Rebasado(u))
         => \A v \in Intentos :
              vigencia[v] # 0 => /\ clave.estado = "guardada" /\ clave.de = v
                                 /\ clave.ttl = vigencia[v]

\* As long as nobody outlives a lock, who is inside is alone and holds it.
LEMMA Solo ==
    ASSUME TypeOK, Aislado, \A u \in Intentos : ~Rebasado(u), NEW w \in Intentos, Dentro(w)
    PROVE  clave.estado = "en_vuelo" /\ \A v \in Intentos : Dentro(v) => v = w
<1>1. Rebasados = {} /\ Cardinality(Rebasados) = 0
  BY FS_EmptySet DEF Rebasados
<1>2. Adentro # {} /\ Cardinality(Adentro) # 0
  BY CuentasFinitas, FS_EmptySet DEF Adentro
<1>3. PICK x \in Intentos : Suyo(x)
  BY <1>1, <1>2, CuentasFinitas DEF Aislado
<1>4. Exclusion
  BY CuentasFinitas DEF Aislado, Exclusion, Adentro, Rebasados
<1>5. QED
  BY <1>3, <1>4, UnoSiTerminaATiempo DEF Suyo

\* At the start nobody committed.
LEMMA VigenteInicial == Init => Vigente
BY DEF Init, Vigente

\* Requests do not get younger.
LEMMA SinRejuvenecer ==
    ASSUME TypeOK, [Next]_vars, NEW u \in Intentos, Rebasado(u)
    PROVE  Rebasado(u)'
<1>1. ASSUME NEW v \in Intentos, Llegar(v) PROVE Rebasado(u)'
  BY <1>1, SoloAvanza DEF Llegar, Pasos, Rebasado
<1>2. ASSUME NEW v \in Intentos, Reintentar(v) PROVE Rebasado(u)'
  BY <1>2, SoloAvanza DEF Reintentar, Pasos, Rebasado
<1>3. ASSUME NEW v \in Intentos, Consultar(v) PROVE Rebasado(u)'
  <2>1. clave.de \in Intentos \cup {Nada}
    BY DEF TypeOK, Entrada
  <2>2. \/ Avanza(v, "adquirir") \/ Avanza(v, "espera")
        \/ Responde(v, "repetida", clave.de)
        \/ Responde(v, "otros_parametros", Nada)
    BY <1>3 DEF Consultar
  <2> QED
    BY <2>1, <2>2, SoloAvanza, SoloResponde DEF Pasos, Respuestas, Rebasado
<1>4. ASSUME NEW v \in Intentos, Adquirir(v) PROVE Rebasado(u)'
  BY <1>4, SoloAvanza DEF Adquirir, Pasos, Rebasado
<1>5. ASSUME NEW v \in Intentos, Manejar(v) PROVE Rebasado(u)'
  BY <1>5, SoloManeja DEF Rebasado
<1>6. ASSUME NEW v \in Intentos, Guardar(v) \/ Liberar(v) PROVE Rebasado(u)'
  BY <1>6, SoloResponde DEF Guardar, Liberar, Respuestas, Rebasado
<1>7. ASSUME NEW v \in Intentos, Caer(v) PROVE Rebasado(u)'
  BY <1>7, SoloAvanza DEF Caer, Pasos, Rebasado
<1>8. CASE Tic
  <2>1. intento'[u].edad = intento[u].edad + (IF Dentro(u) THEN 1 ELSE 0) /\ intento[u].edad \in Nat
    BY <1>8, SoloEnvejece DEF TypeOK, Intento
  <2>2. QED
    BY <2>1, ConstantesIdempotencia DEF Rebasado
<1>9. CASE UNCHANGED vars
  BY <1>9 DEF vars, Rebasado
<1> QED
  BY <1>1, <1>2, <1>3, <1>4, <1>5, <1>6, <1>7, <1>8, <1>9 DEF Next, Avanzar

\* A request commits in its handler, and is then past it.
LEMMA HechoPaso ==
    ASSUME TypeOK, [Next]_vars, NEW w \in Intentos,
           intento[w].hecho => intento[w].paso \in {"guardar", "fin", "caido"}
    PROVE  /\ intento'[w].hecho => intento'[w].paso \in {"guardar", "fin", "caido"}
           /\ ~intento[w].hecho /\ intento'[w].hecho
                => Manejar(w) /\ \A v \in Intentos \ {w} : intento'[v] = intento[v]
<1> DEFINE P == /\ intento'[w].hecho => intento'[w].paso \in {"guardar", "fin", "caido"}
                /\ ~intento[w].hecho /\ intento'[w].hecho
                     => Manejar(w) /\ \A v \in Intentos \ {w} : intento'[v] = intento[v]
<1>1. ASSUME NEW v \in Intentos, Llegar(v) PROVE P
  BY <1>1, SoloAvanza DEF Llegar, Pasos
<1>2. ASSUME NEW v \in Intentos, Reintentar(v) PROVE P
  BY <1>2, SoloAvanza DEF Reintentar, Pasos
<1>3. ASSUME NEW v \in Intentos, Consultar(v) PROVE P
  <2>1. clave.de \in Intentos \cup {Nada} /\ intento[v].paso = "consultar"
    BY <1>3 DEF Consultar, TypeOK, Entrada
  <2>2. \/ Avanza(v, "adquirir") \/ Avanza(v, "espera")
        \/ Responde(v, "repetida", clave.de)
        \/ Responde(v, "otros_parametros", Nada)
    BY <1>3 DEF Consultar
  <2>3. CASE Avanza(v, "adquirir") \/ Avanza(v, "espera")
    BY <2>1, <2>3, SoloAvanza DEF Pasos
  <2>4. CASE Responde(v, "repetida", clave.de)
    BY <2>1, <2>4, SoloResponde DEF Respuestas
  <2>5. CASE Responde(v, "otros_parametros", Nada)
    BY <2>5, SoloResponde DEF Respuestas
  <2> QED
    BY <2>2, <2>3, <2>4, <2>5
<1>4. ASSUME NEW v \in Intentos, Adquirir(v) PROVE P
  BY <1>4, SoloAvanza DEF Adquirir, Pasos
<1>5. ASSUME NEW v \in Intentos, Manejar(v) PROVE P
  <2>1. CASE v = w
    <3>1. ~intento[w].hecho
      BY <1>5, <2>1 DEF Manejar
    <3>2. \/ intento'[w].paso = "guardar"
          \/ intento'[w].hecho = intento[w].hecho
      <4>1. CASE Avanza(w, "liberar")
        BY <4>1, SoloAvanza DEF Pasos
      <4>2. CASE ~Avanza(w, "liberar")
        <5>1. PICK s \in Salidas :
                intento' = [intento EXCEPT ![w].paso = "guardar", ![w].salida = s,
                                           ![w].hecho = TRUE]
          BY <1>5, <2>1, <4>2 DEF Manejar
        <5> QED
          BY <5>1 DEF TypeOK, Intento
      <4> QED
        BY <4>1, <4>2
    <3> QED
      BY <1>5, <2>1, <3>1, <3>2, SoloManeja
  <2>2. CASE v # w
    BY <1>5, <2>2, SoloManeja
  <2> QED
    BY <2>1, <2>2
<1>6. ASSUME NEW v \in Intentos, Guardar(v) \/ Liberar(v) PROVE P
  BY <1>6, SoloResponde DEF Guardar, Liberar, Respuestas
<1>7. ASSUME NEW v \in Intentos, Caer(v) PROVE P
  BY <1>7, SoloAvanza DEF Caer, Pasos
<1>8. CASE Tic
  BY <1>8, SoloEnvejece
<1>9. CASE UNCHANGED vars
  BY <1>9 DEF vars
<1> QED
  BY <1>1, <1>2, <1>3, <1>4, <1>5, <1>6, <1>7, <1>8, <1>9 DEF Next, Avanzar

\* Every step keeps the entry with the answer that has time left.
LEMMA VigentePaso ==
    ASSUME TypeOK, Aislado, Vigente, [Next]_vars
    PROVE  Vigente'
<1>1. \A v \in Intentos : intento'[v].hecho => intento'[v].paso \in {"guardar", "fin", "caido"}
  BY HechoPaso DEF Vigente
<1>2. SUFFICES ASSUME \A u \in Intentos : ~Rebasado(u)', NEW v \in Intentos, vigencia'[v] # 0
               PROVE  /\ clave'.estado = "guardada" /\ clave'.de = v
                      /\ clave'.ttl = vigencia'[v]
  BY <1>1 DEF Vigente
<1>3. \A u \in Intentos : ~Rebasado(u)
  BY <1>2, SinRejuvenecer
<1>4. \A u \in Intentos : vigencia[u] # 0 => /\ clave.estado = "guardada" /\ clave.de = u
                                             /\ clave.ttl = vigencia[u]
  BY <1>3 DEF Vigente
<1>5. CASE clave' = clave /\ vigencia' = vigencia
  BY <1>2, <1>4, <1>5
<1>6. ASSUME NEW w \in Intentos, Adquirir(w) PROVE clave' = clave /\ vigencia' = vigencia
  <2>1. vigencia' = vigencia
    BY <1>6 DEF Adquirir
  <2>2. clave.estado # "vacia"
    BY <1>2, <1>4, <2>1
  <2>3. QED
    BY <1>6, <2>1, <2>2 DEF Adquirir
<1>7. ASSUME NEW w \in Intentos, Dentro(w) PROVE \A u \in Intentos : vigencia[u] = 0
  BY <1>3, <1>4, <1>7, Solo
<1>8. ASSUME NEW w \in Intentos, Guardar(w)
      PROVE  clave'.estado = "guardada" /\ clave'.de = v /\ clave'.ttl = vigencia'[v]
  <2>1. \A u \in Intentos : vigencia[u] = 0
    BY <1>7, <1>8 DEF Guardar, Dentro
  <2>2. /\ v = w /\ intento[w].salida = "guardable" /\ vigencia'[w] = Ttl
    BY <1>2, <1>8, <2>1 DEF Guardar, TypeOK
  <2>3. QED
    BY <1>8, <2>2 DEF Guardar
<1>9. ASSUME NEW w \in Intentos, Liberar(w) PROVE FALSE
  <2>1. vigencia[v] = 0
    BY <1>7, <1>9 DEF Liberar, Dentro
  <2>2. QED
    BY <1>2, <1>9, <2>1 DEF Liberar
<1>10. ASSUME Tic
       PROVE  clave'.estado = "guardada" /\ clave'.de = v /\ clave'.ttl = vigencia'[v]
  <2>1. vigencia[v] \in Nat /\ vigencia[v] # 0 /\ vigencia'[v] = vigencia[v] - 1
    BY <1>2, <1>10 DEF Tic, TypeOK
  <2>2. clave.ttl = vigencia[v] /\ clave.ttl > 1
    BY <1>2, <1>4, <2>1
  <2>3. clave' = [clave EXCEPT !.ttl = @ - 1]
    BY <1>10, <2>1, <2>2 DEF Tic
  <2>4. QED
    BY <1>4, <2>1, <2>2, <2>3 DEF TypeOK, Entrada
<1>11. CASE UNCHANGED vars
  BY <1>5, <1>11 DEF vars
<1>12. ASSUME NEW w \in Intentos,
              Llegar(w) \/ Reintentar(w) \/ Consultar(w) \/ Manejar(w) \/ Caer(w)
       PROVE  clave' = clave /\ vigencia' = vigencia
  BY <1>12 DEF Llegar, Reintentar, Consultar, Manejar, Caer, SinClave
<1>13. QED
  BY <1>5, <1>6, <1>8, <1>9, <1>10, <1>11, <1>12 DEF Next, Avanzar

\* Whatever time handlers take, an operation that committed is executed again only if
\* its answer was not left or its time is over, or somebody outlived a lock.
THEOREM SegundaEjecucionTrasVencer == Spec => SinSegundaEjecucion
<1> DEFINE Otra(v, w) == \/ intento[v].salida # "guardable"
                         \/ intento[v].paso = "caido"
                         \/ intento[v].paso = "fin" /\ vigencia[v] = 0
                         \/ \E u \in Intentos : Rebasado(u)
<1>1. ASSUME TypeOK, Aislado, Vigente, [Next]_vars, NEW v \in Intentos, NEW w \in Intentos,
             v # w /\ intento[v].hecho /\ ~intento[w].hecho /\ intento'[w].hecho
      PROVE  Otra(v, w)
  <2>1. SUFFICES ASSUME \A u \in Intentos : ~Rebasado(u)
                 PROVE  \/ intento[v].paso = "caido"
                        \/ intento[v].paso = "fin" /\ vigencia[v] = 0
    OBVIOUS
  <2>2. Manejar(w)
    BY <1>1, HechoPaso DEF Vigente
  <2>3. clave.estado = "en_vuelo" /\ ~Dentro(v)
    BY <1>1, <2>1, <2>2, Solo DEF Manejar, Dentro
  <2>4. vigencia[v] = 0
    BY <1>1, <2>1, <2>3 DEF Vigente
  <2>5. intento[v].paso \in {"guardar", "fin", "caido"}
    BY <1>1 DEF Vigente
  <2>6. QED
    BY <2>3, <2>4, <2>5 DEF Dentro
<1>2. TypeOK /\ Aislado /\ Vigente /\ [Next]_vars
        => [\A v, w \in Intentos :
              v # w /\ intento[v].hecho /\ ~intento[w].hecho /\ intento'[w].hecho
                => Otra(v, w)]_vars
  BY <1>1
<1>3. Spec => []Vigente
  <2>1. TypeOK /\ Aislado /\ Vigente /\ [Next]_vars => Vigente'
    BY VigentePaso
  <2>2. QED
    BY <2>1, VigenteInicial, AisladoSiempre, PTL DEF Spec
<1> QED
  BY <1>2, <1>3, AisladoSiempre, PTL DEF Spec, SinSegundaEjecucion, Otra

----------------------------------------------------------------------------
(* What a step remembers *)

\* Bodies and commits are never taken back; an answer is repeated only from the
\* entry, and gets there only from a request that committed.
Recuerda(w) ==
    /\ modo' = modo
    /\ intento'[w].cuerpo = intento[w].cuerpo
    /\ intento[w].hecho => intento'[w].hecho
    /\ intento'[w].paso = "guardar" => intento'[w].hecho \/ intento[w].paso = "guardar"
    /\ intento'[w].respuesta = "repetida"
         => \/ intento[w].respuesta = "repetida" /\ intento'[w].de = intento[w].de
            \/ /\ clave.estado = "guardada" /\ intento'[w].de = clave.de
               /\ MismosParametros(w)

Almacena ==
    clave'.estado = "guardada"
      => \/ clave.estado = "guardada" /\ clave'.de = clave.de
         \/ \E v \in Intentos : clave'.de = v /\ intento[v].paso = "guardar"

\* No step takes back a COMMIT or a body, and only an owner that committed stores.
LEMMA PasoRecuerda ==
    ASSUME TypeOK, [Next]_vars, NEW w \in Intentos
    PROVE  Recuerda(w) /\ Almacena
<1>1. ASSUME NEW v \in Intentos, Llegar(v) PROVE Recuerda(w) /\ Almacena
  BY <1>1, SoloAvanza DEF Llegar, SinClave, Pasos, Recuerda, Almacena
<1>2. ASSUME NEW v \in Intentos, Reintentar(v) PROVE Recuerda(w) /\ Almacena
  BY <1>2, SoloAvanza DEF Reintentar, SinClave, Pasos, Recuerda, Almacena
<1>3. ASSUME NEW v \in Intentos, Consultar(v) PROVE Recuerda(w) /\ Almacena
  <2>1. clave.de \in Intentos \cup {Nada} /\ modo' = modo /\ clave' = clave
    BY <1>3 DEF Consultar, SinClave, TypeOK, Entrada
  <2>2. CASE Avanza(v, "adquirir") \/ Avanza(v, "espera")
    BY <2>1, <2>2, SoloAvanza DEF Pasos, Recuerda, Almacena
  <2>3. CASE Responde(v, "otros_parametros", Nada)
    BY <2>1, <2>3, SoloResponde DEF Respuestas, Recuerda, Almacena
  <2>4. CASE Responde(v, "repetida", clave.de) /\ clave.estado \in {"vacia", "en_vuelo"}
    BY <1>3, <2>4 DEF Consultar, Responde, Avanza, TypeOK, Intento
  <2>5. CASE Responde(v, "repetida", clave.de) /\ clave.estado = "guardada"
    <3>1. CASE MismosParametros(v)
      BY <2>1, <2>5, <3>1, SoloResponde DEF Respuestas, Recuerda, Almacena
    <3>2. CASE ~MismosParametros(v)
      <4>1. Responde(v, "otros_parametros", Nada)
        BY <1>3, <2>5, <3>2 DEF Consultar
      <4> QED
        BY <4>1, <2>3
    <3> QED
      BY <3>1, <3>2
  <2>6. clave.estado \in {"vacia", "en_vuelo", "guardada"}
    BY DEF TypeOK, Entrada
  <2> QED
    BY <1>3, <2>2, <2>3, <2>4, <2>5, <2>6 DEF Consultar
<1>4. ASSUME NEW v \in Intentos, Adquirir(v) PROVE Recuerda(w) /\ Almacena
  <2>1. clave' = EnVuelo \/ clave' = clave
    BY <1>4 DEF Adquirir
  <2>2. Almacena
    BY <2>1 DEF Almacena, EnVuelo
  <2>3. Recuerda(w)
    BY <1>4, SoloAvanza DEF Adquirir, Pasos, Recuerda
  <2> QED
    BY <2>2, <2>3
<1>5. ASSUME NEW v \in Intentos, Manejar(v) PROVE Recuerda(w) /\ Almacena
  <2>1. modo' = modo /\ clave' = clave
    BY <1>5 DEF Manejar, SinClave
  <2> QED
    BY <1>5, <2>1, SoloManeja DEF Recuerda, Almacena
<1>6. ASSUME NEW v \in Intentos, Guardar(v) PROVE Recuerda(w) /\ Almacena
  <2>1. Recuerda(w)
    BY <1>6, SoloResponde DEF Guardar, Respuestas, Recuerda
  <2>2. intento[v].paso = "guardar"
        /\ (clave'.de = v \/ clave'.estado = "vacia" \/ clave' = clave)
    BY <1>6 DEF Guardar, Vacia
  <2> QED
    BY <2>1, <2>2 DEF Almacena
<1>7. ASSUME NEW v \in Intentos, Liberar(v) PROVE Recuerda(w) /\ Almacena
  BY <1>7, SoloResponde DEF Liberar, Respuestas, Recuerda, Almacena, Vacia
<1>8. ASSUME NEW v \in Intentos, Caer(v) PROVE Recuerda(w) /\ Almacena
  BY <1>8, SoloAvanza DEF Caer, SinClave, Pasos, Recuerda, Almacena
<1>9. ASSUME Tic PROVE Recuerda(w) /\ Almacena
  <2>1. clave' = Vacia \/ clave' = [clave EXCEPT !.ttl = @ - 1]
    BY <1>9 DEF Tic
  <2>2. Almacena
    BY <2>1 DEF Almacena, Vacia, TypeOK, Entrada
  <2>3. Recuerda(w)
    BY <1>9, SoloEnvejece DEF Tic, Recuerda
  <2> QED
    BY <2>2, <2>3
<1>10. ASSUME UNCHANGED vars PROVE Recuerda(w) /\ Almacena
  BY <1>10 DEF vars, Recuerda, Almacena
<1> QED
  BY <1>1, <1>2, <1>3, <1>4, <1>5, <1>6, <1>7, <1>8, <1>9, <1>10 DEF Next, Avanzar

\* At the start nothing is stored, and automatic keys have one body.
LEMMA ConstanciaInicial == Init => Constancia
<1> SUFFICES ASSUME Init PROVE Constancia
  OBVIOUS
<1>1. PICK c \in [Intentos -> Cuerpos] :
        /\ modo = "automatico" => \A v, w \in Intentos : c[v] = c[w]
        /\ intento = [w \in Intentos |->
                        [paso |-> "nuevo", cuerpo |-> c[w], edad |-> 0,
                         salida |-> "ninguna", hecho |-> FALSE,
                         respuesta |-> "ninguna", de |-> Nada]]
  BY DEF Init
<1>2. \A w \in Intentos : /\ intento[w].paso = "nuevo" /\ intento[w].cuerpo = c[w]
                          /\ intento[w].respuesta = "ninguna"
  BY <1>1
<1>3. clave.estado = "vacia"
  BY DEF Init, Vacia
<1> QED
  BY <1>1, <1>2, <1>3 DEF Constancia

\* Every step keeps a stored answer tied to the COMMIT it came from.
LEMMA ConstanciaPaso ==
    ASSUME TypeOK, Constancia, [Next]_vars
    PROVE  Constancia'
<1>1. \A w \in Intentos : Recuerda(w) /\ Almacena
  BY PasoRecuerda
<1>2. \A w \in Intentos : intento'[w].paso = "guardar" => intento'[w].hecho
  BY <1>1 DEF Recuerda, Constancia
<1>3. clave.estado = "guardada" => clave.de \in Intentos
  BY DEF TypeOK, Entrada
<1>4. ASSUME clave'.estado = "guardada" PROVE intento'[clave'.de].hecho
  <2>1. TypeOK' /\ clave'.de \in Intentos
    BY <1>4, TipoPaso DEF TypeOK, Entrada
  <2>2. Almacena
    BY <1>1, <2>1
  <2>3. intento[clave'.de].hecho
    BY <1>4, <2>2 DEF Almacena, Constancia
  <2> QED
    BY <1>1, <2>1, <2>3 DEF Recuerda
<1>5. ASSUME modo' = "automatico", NEW v \in Intentos, NEW w \in Intentos
      PROVE  intento'[v].cuerpo = intento'[w].cuerpo
  BY <1>1, <1>5 DEF Recuerda, Constancia
<1>6. ASSUME NEW w \in Intentos, intento'[w].respuesta = "repetida"
      PROVE  /\ intento'[w].de \in Intentos
             /\ intento'[intento'[w].de].hecho
             /\ intento'[intento'[w].de].cuerpo = intento'[w].cuerpo
  <2>1. CASE intento[w].respuesta = "repetida" /\ intento'[w].de = intento[w].de
    BY <1>1, <2>1 DEF Recuerda, Constancia
  <2>2. CASE /\ clave.estado = "guardada" /\ intento'[w].de = clave.de
             /\ MismosParametros(w)
    <3>1. modo \in {"explicito", "automatico"}
      BY ConstantesIdempotencia DEF TypeOK
    <3>2. intento[clave.de].cuerpo = intento[w].cuerpo
      BY <1>3, <2>2, <3>1 DEF MismosParametros, Constancia
    <3> QED
      BY <1>1, <1>3, <2>2, <3>2 DEF Recuerda, Constancia
  <2> QED
    BY <1>1, <1>6, <2>1, <2>2 DEF Recuerda
<1> QED
  BY <1>2, <1>4, <1>5, <1>6 DEF Constancia

\* A repeated answer is the answer of a request with the same body that really
\* committed, whatever expires, fails or overlaps: it needs no bound on the time
\* handlers take.
THEOREM RepeticionFiel == Spec => []RepetidaEsFiel
<1>1. Init => TypeOK /\ Constancia
  BY TipoInicial, ConstanciaInicial
<1>2. TypeOK /\ Constancia /\ [Next]_vars => (TypeOK /\ Constancia)'
  BY TipoPaso, ConstanciaPaso
<1>3. Constancia => RepetidaEsFiel
  BY DEF Constancia, RepetidaEsFiel
<1> QED
  BY <1>1, <1>2, <1>3, PTL DEF Spec

=============================================================================
