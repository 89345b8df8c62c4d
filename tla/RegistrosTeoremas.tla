--------------------------- MODULE RegistrosTeoremas ---------------------------
(* What Registros guarantees for any number of requests, names, organizations and days,
   and for numbers of any width. *)
EXTENDS Registros, FiniteSetsExt, FiniteSetTheorems, TLAPS

----------------------------------------------------------------------------
(* How many values a function has *)

\* A function that tells the elements of a finite set apart keeps their number.
LEMMA ImagenInyectiva ==
    ASSUME NEW S, IsFiniteSet(S), NEW f, \A x, y \in S : f[x] = f[y] => x = y
    PROVE  IsFiniteSet({f[x] : x \in S}) /\ Cardinality({f[x] : x \in S}) = Cardinality(S)
<1> DEFINE T == {f[x] : x \in S}
           g == [x \in S |-> f[x]]
<1>1. g \in [S -> T] /\ (\A x, y \in S : g[x] = g[y] => x = y) /\ \A t \in T : \E x \in S : g[x] = t
  OBVIOUS
<1>2. g \in Bijection(S, T)
  <2> HIDE DEF g, T
  <2> QED
    BY <1>1 DEF Bijection, Injection, IsInjective, Surjection
<1> HIDE DEF g, T
<1>3. ExistsBijection(S, T)
  BY <1>2 DEF ExistsBijection
<1>4. IsFiniteSet(T) /\ Cardinality(T) = Cardinality(S)
  BY <1>3, FS_Bijection
<1>5. QED
  BY <1>4 DEF T

----------------------------------------------------------------------------
(* The inductive invariant *)

Indices == {"cuenta", "vehiculo", "rol", "usuario", "notificar", "cierre", "inspeccion"}
Datos == Nombres \cup {Nada}
Clave == ({"numero"} \X Nat \X Nat) \cup (Indices \X (Datos \cup {""}))

Peticion == [op : Operaciones, paso : Pasos, dato : Datos, org : Organizaciones \cup {Nada},
             exacto : BOOLEAN, dia : Nat, numero : Nat, pide : [Campos -> Valores \cup {Nada}],
             leida : [Campos -> Valores], copia : [Campos -> Valores],
             resultado : {Nada, "exitoso", "fallido", "error"},
             choque : SUBSET Clave, rancio : BOOLEAN]

Formas ==
    /\ abiertas \subseteq Operaciones /\ hoy \in 1..MaxDia
    /\ claves \subseteq Clave /\ duena \in [claves -> Organizaciones \cup {Nada}]
    /\ filas \in [Tablas -> [Campos -> Valores]]
    /\ puestas \in [Peticiones -> SUBSET Clave]
    /\ bloqueo \in [Tablas -> Peticiones \cup {Nada}]
    /\ cerrojo \in Peticiones \cup {Nada}
    /\ pet \in [Peticiones -> Peticion]

\* The numbers of a day are given from 1 without gaps, and keep within their width.
DiaContiguo == \A d \in Nat : \E n \in 0..(Tope - 1) :
                   DelDia(claves, d) = {<<"numero", d, i>> : i \in 1..n}

\* Of the organizations that opened accounts on a day the policy leaves one.
DiaDeUna == \A d \in Nat : \A j, k \in DelDia(claves, d) :
                Politicas /\ duena[j] # Nada /\ duena[k] # Nada => duena[j] = duena[k]

\* What the transaction of a request holds.
Cerraduras(w) ==
    /\ puestas[w] # {} => En(w, "commit") /\ puestas[w] \subseteq Claves(pet[w])
    /\ \A t \in Tablas : bloqueo[t] = w => En(w, "commit")
    /\ cerrojo = w <=> (Ops(w, {"cuenta"}) /\ pet[w].paso \in {"insertar", "commit"})
    /\ En(w, "commit") /\ Ops(w, Ediciones) => bloqueo[Fila(pet[w].op)] = w

\* The number it took, in terms of the numbers it sees now.
Numerada(w) ==
    pet[w].paso \in {"insertar", "commit"} /\ Ops(w, {"cuenta"}) =>
        pet[w].numero = Recorta(Cardinality(Contadas(pet[w])) + 1)

\* The row with the key k is outside the organization of the request.
Ajeno(w, k) == pet[w].org \notin {Nada, duena[k]}

\* Until another request commits its key, what it looked for is still missing.
Mira(w) == pet[w].exacto /\ ~Ops(w, {"cierre", "inspeccion"})
Buscada(w) ==
    (En(w, "insertar") \/ (En(w, "numerar") /\ Ops(w, {"cuenta"}))) /\ Mira(w) =>
        pet[w].rancio \/ \A k \in Claves(pet[w]) \cap claves : k[1] = "numero" \/ Ajeno(w, k)

\* Why a key may be refused.
Justo(w, k) ==
    IF k[1] = "numero"
    THEN \/ Cardinality(DelDia(claves, k[2])) >= Tope - 1
         \/ \E j \in DelDia(claves, k[2]) : Oculta(pet[w], j)
    ELSE Mira(w) => pet[w].rancio \/ Ajeno(w, k)

Chocada(w) ==
    /\ pet[w].choque # {} => En(w, "fin")
    /\ pet[w].choque \subseteq claves
    /\ \A k \in pet[w].choque : Justo(w, k)

\* Only the operations that edit read a row twice and lock it.
Camino(w) ==
    /\ En(w, "releer") => Ops(w, Ediciones)
    /\ En(w, "modificar") => Ops(w, Ediciones \cup {"notificar"})
    /\ pet[w].paso \in {"numerar", "insertar"} => ~Ops(w, Ediciones)

\* Until another request commits its row, what it read is still there.
Leida(w) ==
    /\ Ops(w, {"ampliar"}) /\ pet[w].paso \in {"leer", "releer", "modificar", "commit"} =>
         pet[w].pide["a"] # Nada
    /\ Ops(w, Ediciones) /\ pet[w].paso \in {"releer", "modificar", "commit"} =>
         /\ ~pet[w].rancio =>
              /\ pet[w].leida = filas[Fila(pet[w].op)]
              /\ ~En(w, "releer") => pet[w].copia = filas[Fila(pet[w].op)]
         /\ Ops(w, {"ampliar"}) => pet[w].pide["a"] > pet[w].leida["a"]

Respondida(w) == En(w, "anotar") /\ pet[w].resultado = "exitoso" => w \in asentadas

Bien(w) == /\ Cerraduras(w) /\ Numerada(w) /\ Buscada(w) /\ Chocada(w)
           /\ Camino(w) /\ Leida(w) /\ Respondida(w)

IInv == /\ Formas /\ DiaContiguo /\ DiaDeUna /\ RastroFiel
        /\ \A w \in Peticiones : Bien(w)

----------------------------------------------------------------------------
(* Numbers *)

\* The numbers of a day without gaps are as many as the last of them.
LEMMA CuantosDelDia ==
    ASSUME NEW D, NEW d \in Nat, NEW n \in Nat, D = {<<"numero", d, i>> : i \in 1..n}
    PROVE  Cardinality(D) = n
<1> DEFINE f == [i \in 1..n |-> <<"numero", d, i>>]
<1>1. D = {f[i] : i \in 1..n}
  OBVIOUS
<1>2. \A i, j \in 1..n : f[i] = f[j] => i = j
  OBVIOUS
<1>3. IsFiniteSet(1..n) /\ Cardinality(1..n) = n
  BY FS_Interval
<1> HIDE DEF f
<1>4. Cardinality({f[i] : i \in 1..n}) = Cardinality(1..n)
  BY <1>2, <1>3, ImagenInyectiva
<1>5. QED
  BY <1>1, <1>3, <1>4

\* A number that fits is left as it is; the first that does not fit loses its last digit.
LEMMA RecortaCorta ==
    ASSUME NEW n \in Nat, n < Tope
    PROVE  /\ n + 1 < Tope => Recorta(n + 1) = n + 1
           /\ n + 1 = Tope => Recorta(n + 1) \in 1..n
<1>1. Base \in Nat /\ Tope \in Nat /\ 1 < Base /\ Base <= Tope
  BY ConstantesRegistros
<1>2. CASE n + 1 < Tope
  BY <1>1, <1>2 DEF Recorta
<1>3. CASE n + 1 = Tope
  <2>1. Recorta(n + 1) = Tope \div Base
    BY <1>1, <1>3 DEF Recorta
  <2>2. Tope \div Base >= 1 /\ Tope \div Base < Tope /\ Tope \div Base \in Nat
    BY <1>1
  <2>3. QED
    BY <1>1, <1>3, <2>1, <2>2
<1>4. QED
  BY <1>1, <1>2, <1>3

----------------------------------------------------------------------------
(* Keys *)

\* The unique keys of a row, by its operation.
LEMMA ClavesDe ==
    ASSUME NEW p, p.op \in Operaciones
    PROVE  \/ p.op = "cuenta" /\ Claves(p) = {<<"cuenta", p.dato>>, <<"numero", p.dia, p.numero>>}
           \/ p.op # "cuenta" /\ Claves(p) \subseteq Indices \X {p.dato, ""}
<1>1. CASE p.op = "cuenta"
  BY <1>1 DEF Claves, ClavesCuenta
<1>2. CASE p.op \in Operaciones \ {"cuenta"}
  <2>1. Claves(p) \in {ClavesVehiculo(p), ClavesRol(p), ClavesUsuario(p), ClavesCatalogo(p),
                       ClavesNotificacion(p), ClavesCierre(p), ClavesInspeccion(p),
                       ClavesInsumo(p)}
    BY <1>2 DEF Claves, Operaciones, Creaciones, Ediciones
  <2> DEFINE Pares == Indices \X {p.dato, ""}
  <2>2. /\ \A t \in Indices : <<t, p.dato>> \in Pares
        /\ <<"inspeccion", "">> \in Pares
    BY DEF Indices
  <2> HIDE DEF Pares
  <2>3. /\ <<"vehiculo", p.dato>> \in Pares /\ <<"rol", p.dato>> \in Pares
        /\ <<"usuario", p.dato>> \in Pares /\ <<"notificar", p.dato>> \in Pares
        /\ <<"cierre", p.dato>> \in Pares
    BY <2>2 DEF Indices
  <2>4. /\ ClavesVehiculo(p) \subseteq Pares /\ ClavesRol(p) \subseteq Pares
        /\ ClavesUsuario(p) \subseteq Pares /\ ClavesNotificacion(p) \subseteq Pares
        /\ ClavesCierre(p) \subseteq Pares /\ ClavesInspeccion(p) \subseteq Pares
    BY <2>2, <2>3, Zenon DEF ClavesVehiculo, ClavesRol, ClavesUsuario, ClavesNotificacion,
       ClavesCierre, ClavesInspeccion
  <2>5. Claves(p) \subseteq Pares
    BY <2>1, <2>4 DEF ClavesInsumo, ClavesCatalogo
  <2>6. QED
    BY <1>2, <2>5 DEF Pares
<1>3. QED
  BY <1>1, <1>2

\* They depend on four fields only.
LEMMA ClavesIguales ==
    ASSUME NEW p, NEW q, p.op = q.op, p.dato = q.dato, p.dia = q.dia, p.numero = q.numero
    PROVE  Claves(p) = Claves(q)
BY DEF Claves, ClavesCuenta, ClavesVehiculo, ClavesRol, ClavesUsuario, ClavesNotificacion,
   ClavesCierre, ClavesInspeccion, ClavesInsumo, ClavesCatalogo

\* Only an account has a number among its keys.
LEMMA ClaveNumero ==
    ASSUME NEW p, p.op \in Operaciones, NEW k \in Claves(p), k[1] = "numero"
    PROVE  p.op = "cuenta" /\ k = <<"numero", p.dia, p.numero>>
<1>1. CASE p.op = "cuenta" /\ Claves(p) = {<<"cuenta", p.dato>>, <<"numero", p.dia, p.numero>>}
  BY <1>1
<1>2. CASE Claves(p) \subseteq Indices \X {p.dato, ""}
  <2>1. k[1] \in Indices
    BY <1>2
  <2>2. QED
    BY <2>1 DEF Indices
<1>3. QED
  BY <1>1, <1>2, ClavesDe

\* The keys of a row are keys.
LEMMA ClavesTipo ==
    ASSUME NEW p \in Peticion
    PROVE  Claves(p) \subseteq Clave
<1>1. p.op \in Operaciones /\ p.dato \in Datos /\ p.dia \in Nat /\ p.numero \in Nat
  BY DEF Peticion
<1>2. /\ <<"cuenta", p.dato>> \in Clave /\ <<"numero", p.dia, p.numero>> \in Clave
      /\ Indices \X {p.dato, ""} \subseteq Clave
  BY <1>1 DEF Clave, Indices
<1>3. QED
  BY <1>1, <1>2, ClavesDe

----------------------------------------------------------------------------
(* The initial states *)

\* What the proofs need of the constants, one fact after another.
LEMMA Numeros ==
    /\ MaxDia \in Nat \ {0} /\ MaxValor \in Nat \ {0} /\ Base \in Nat /\ Tope \in Nat
    /\ MaxCuentas \in Nat /\ MaxCuentas < Tope /\ 1 < Base /\ Base <= Tope
BY ConstantesRegistros

\* Every operation is on one of the tables.
LEMMA FilaTabla == \A op : Fila(op) \in Tablas
BY DEF Fila, Tablas

\* A request that has not begun, and a row without values, have their types.
LEMMA LibreTipo == Libre \in Peticion /\ Cero \in [Campos -> Valores] /\ 0 \in Valores /\ 1 \in Valores
<1>1. 0 \in Valores /\ 1 \in Valores
  BY ConstantesRegistros DEF Valores
<1>2. Cero \in [Campos -> Valores]
  BY <1>1 DEF Cero
<1>3. [c \in Campos |-> Nada] \in [Campos -> Valores \cup {Nada}]
  OBVIOUS
<1>4. QED
  BY <1>1, <1>2, <1>3 DEF Libre, Peticion, Operaciones, Creaciones, Pasos, Datos

\* The invariant holds at the start: the accounts of the first day are numbered from 1.
LEMMA InitInv == Init => IInv
<1> SUFFICES ASSUME Init PROVE IInv
  OBVIOUS
<1> PICK n \in 0..MaxCuentas, o \in Organizaciones \cup {Nada} :
           claves = Primeras(n) /\ duena = [k \in Primeras(n) |-> o]
  BY DEF Init
<1>1. \A w \in Peticiones : Bien(w)
  BY ConstantesRegistros DEF Init, Libre, Bien, Cerraduras, Numerada, Buscada, Chocada,
     Leida, Respondida, Camino, En, Ops, Ediciones
<1>2. claves \subseteq Clave
  <2>1. \A k \in 1..n : <<"numero", 1, k>> \in Clave
    <3>1. \A k \in 1..n : k \in Nat
      BY Numeros
    <3>2. \A k \in Nat : <<"numero", 1, k>> \in Clave
      BY DEF Clave
    <3>3. QED
      BY <3>1, <3>2
  <2>2. QED
    BY <2>1 DEF Primeras
<1>3. Formas
  BY <1>2, LibreTipo, ConstantesRegistros DEF Formas, Init
<1>4. DiaContiguo
  <2>1. n \in 0..(Tope - 1) /\ 0 \in 0..(Tope - 1)
    BY Numeros
  <2>2. DelDia(claves, 1) = {<<"numero", 1, i>> : i \in 1..n}
    BY DEF DelDia, Primeras
  <2>3. ASSUME NEW d \in Nat, d # 1 PROVE DelDia(claves, d) = {<<"numero", d, i>> : i \in 1..0}
    BY <2>3 DEF DelDia, Primeras
  <2>4. QED
    BY <2>1, <2>2, <2>3 DEF DiaContiguo
<1>5. RastroFiel
  BY DEF RastroFiel, Init
<1>6. DiaDeUna
  <2>1. \A k \in claves : duena[k] = o
    OBVIOUS
  <2>2. QED
    BY <2>1 DEF DiaDeUna, DelDia
<1>7. QED
  BY <1>1, <1>3, <1>4, <1>5, <1>6 DEF IInv

----------------------------------------------------------------------------
(* Steps that commit nothing *)

\* What is left of a request that has ended has its type.
LEMMA AcabadaTipo ==
    ASSUME NEW p \in Peticion, NEW r \in {Nada, "error", "fallido"}, NEW ks \in SUBSET Clave
    PROVE  Acabada(p, r, ks) \in Peticion
<1> DEFINE b == p.rancio /\ ks # {}
<1>1. b \in BOOLEAN
  BY Zenon
<1>2. p.op \in Operaciones /\ p.exacto \in BOOLEAN /\ p.org \in Organizaciones \cup {Nada}
  BY DEF Peticion
<1>3. Acabada(p, r, ks) = [Libre EXCEPT !.op = p.op, !.paso = "fin", !.exacto = p.exacto,
                             !.org = p.org, !.resultado = r, !.choque = ks, !.rancio = b]
  BY DEF Acabada
<1> HIDE DEF b
<1>4. QED
  BY <1>1, <1>2, <1>3, LibreTipo DEF Peticion, Pasos

\* A request that is not v leaves to v what v holds.
Ajena(v) == /\ puestas'[v] = puestas[v] /\ pet'[v] = pet[v]
            /\ \A t \in Tablas : bloqueo'[t] = v <=> bloqueo[t] = v
            /\ cerrojo' = v <=> cerrojo = v

\* What a step does to one request matters to no other until COMMIT.
LEMMA PasoLocal ==
    ASSUME IInv, NEW w \in Peticiones, Formas', RastroFiel', Bien(w)',
           \A v \in Peticiones : v # w => Ajena(v),
           UNCHANGED <<claves, duena, filas, asentadas>>
    PROVE  IInv'
<1>1. DiaContiguo' /\ DiaDeUna'
  BY DEF IInv, DiaContiguo, DiaDeUna, DelDia
<1>2. ASSUME NEW v \in Peticiones, v # w PROVE Bien(v)'
  <2>1. Bien(v) /\ Ajena(v)
    BY <1>2 DEF IInv
  <2>2. Cerraduras(v)'
    BY <2>1, FilaTabla DEF Bien, Ajena, Cerraduras, En, Ops
  <2>3. Numerada(v)' /\ Buscada(v)' /\ Chocada(v)' /\ Leida(v)' /\ Respondida(v)' /\ Camino(v)'
    BY <2>1 DEF Bien, Ajena, Numerada, Buscada, Chocada, Leida, Respondida, Camino, En, Ops, Mira,
       DelDia, Contadas, Oculta, Ajeno, Justo
  <2>4. QED
    BY <2>2, <2>3 DEF Bien
<1>3. QED
  BY <1>1, <1>2 DEF IInv

\* A step that only changes the request itself.
LEMMA CambiaPeticion ==
    ASSUME IInv, NEW w \in Peticiones, NEW q \in Peticion, pet' = [pet EXCEPT ![w] = q],
           SoloPet, Bien(w)'
    PROVE  IInv'
<1>1. \A v \in Peticiones : v # w => Ajena(v)
  BY DEF Ajena, SoloPet, IInv, Formas
<1>2. Formas'
  BY DEF IInv, Formas, SoloPet
<1>3. RastroFiel'
  BY DEF IInv, RastroFiel, SoloPet
<1>4. QED
  BY <1>1, <1>2, <1>3, PasoLocal DEF SoloPet

\* The end of a request without a change, because of the keys ks or of nothing.
LEMMA AcabaPeticion ==
    ASSUME IInv, NEW w \in Peticiones, NEW r \in {Nada, "error", "fallido"}, NEW ks \in SUBSET Clave,
           ks \subseteq claves, \A k \in ks : Justo(w, k),
           pet' = [pet EXCEPT ![w] = Acabada(@, r, ks)], Suelta(w),
           UNCHANGED <<abiertas, hoy, claves, duena, filas, asentadas, bitacora>>
    PROVE  IInv'
<1> DEFINE q == Acabada(pet[w], r, ks)
<1>1. pet[w] \in Peticion /\ pet' = [pet EXCEPT ![w] = q] /\ pet'[w] = q
  BY DEF IInv, Formas
<1>2. q \in Peticion
  BY <1>1, AcabadaTipo
<1>3. /\ q.op = pet[w].op /\ q.paso = "fin" /\ q.exacto = pet[w].exacto /\ q.org = pet[w].org
      /\ q.choque = ks /\ q.resultado = r
      /\ q.rancio = (pet[w].rancio /\ ks # {})
  BY DEF Acabada, Libre
<1> HIDE DEF q
<1>4. Formas'
  <2>1. puestas' \in [Peticiones -> SUBSET Clave]
    BY DEF Suelta, IInv, Formas
  <2>2. bloqueo' \in [Tablas -> Peticiones \cup {Nada}] /\ cerrojo' \in Peticiones \cup {Nada}
    BY DEF Suelta, IInv, Formas
  <2>3. pet' \in [Peticiones -> Peticion]
    BY <1>1, <1>2 DEF IInv, Formas
  <2>4. QED
    BY <2>1, <2>2, <2>3 DEF IInv, Formas
<1>5. RastroFiel'
  BY DEF IInv, RastroFiel
<1>6. \A v \in Peticiones : v # w => Ajena(v)
  BY ConstantesRegistros DEF Ajena, Suelta, IInv, Formas
<1>7. Cerraduras(w)'
  <2>1. puestas'[w] = {} /\ (\A t \in Tablas : bloqueo'[t] # w) /\ cerrojo' # w
    BY ConstantesRegistros DEF Suelta, IInv, Formas
  <2>2. QED
    BY <1>1, <1>3, <2>1 DEF Cerraduras, En, Ops
<1>8. Chocada(w)'
  BY <1>1, <1>3 DEF Chocada, En, Mira, Ops, DelDia, Justo, Oculta, Ajeno
<1>9. Numerada(w)' /\ Buscada(w)' /\ Leida(w)' /\ Respondida(w)' /\ Camino(w)'
  BY <1>1, <1>3 DEF Numerada, Buscada, Leida, Respondida, Camino, En, Ops
<1>10. QED
  BY <1>4, <1>5, <1>6, <1>7, <1>8, <1>9, PasoLocal DEF Bien

----------------------------------------------------------------------------
(* Beginning and reading *)

\* A body gives each field a value or leaves it out.
LEMMA CuerpoTipo ==
    ASSUME NEW op \in Operaciones
    PROVE  Cuerpo(op) \subseteq [Campos -> Valores \cup {Nada}]
<1>1. {0, 1, Nada} \subseteq Valores \cup {Nada}
  BY LibreTipo
<1>2. Edicion \subseteq [Campos -> Valores \cup {Nada}]
  BY <1>1 DEF Edicion
<1>3. Libre.pide \in [Campos -> Valores \cup {Nada}]
  BY DEF Libre
<1>4. CASE op = "ampliar"
  BY <1>4 DEF Cuerpo
<1>5. CASE op = "aprobar"
  BY <1>2, <1>5 DEF Cuerpo
<1>6. CASE op = "editar"
  BY <1>2, <1>6 DEF Cuerpo
<1>7. CASE op \notin {"ampliar", "aprobar", "editar"}
  <2>1. Cuerpo(op) = {Libre.pide}
    BY <1>7 DEF Cuerpo
  <2>2. QED
    BY <1>3, <2>1
<1>8. QED
  BY <1>4, <1>5, <1>6, <1>7

\* A request begins: it holds nothing.
LEMMA PasoEmpezar ==
    ASSUME IInv, NEW w \in Peticiones, NEW op \in Operaciones, Empezar(w, op)
    PROVE  IInv'
<1>1. PICK d \in IF op \in ConNombre THEN Nombres ELSE {Nada},
           o \in IF op \in DeInquilino THEN Organizaciones \cup {Nada} ELSE {Nada},
           e \in IF op = "rol" THEN BOOLEAN ELSE {TRUE}, p \in Cuerpo(op) :
         pet' = [pet EXCEPT ![w] = [Libre EXCEPT
                   !.op = op, !.dato = d, !.org = o, !.exacto = e, !.pide = p, !.dia = hoy,
                   !.paso = IF op \in {"cierre", "insumo", "catalogo"} THEN "insertar"
                            ELSE "leer"]]
  BY DEF Empezar
<1> DEFINE s == IF op \in {"cierre", "insumo", "catalogo"} THEN "insertar" ELSE "leer"
           q == [Libre EXCEPT !.op = op, !.dato = d, !.org = o, !.exacto = e, !.pide = p,
                              !.dia = hoy, !.paso = s]
<1>2. d \in Datos /\ o \in Organizaciones \cup {Nada}
  <2>1. d \in Datos
    BY DEF Datos
  <2>2. o \in Organizaciones \cup {Nada}
    OBVIOUS
  <2>3. QED
    BY <2>1, <2>2
<1>3. e \in BOOLEAN /\ p \in [Campos -> Valores \cup {Nada}] /\ hoy \in Nat
  <2>1. e \in BOOLEAN
    OBVIOUS
  <2>2. p \in [Campos -> Valores \cup {Nada}]
    BY CuerpoTipo
  <2>3. hoy \in Nat
    BY Numeros DEF IInv, Formas
  <2>4. QED
    BY <2>1, <2>2, <2>3
<1>4. /\ s \in {"insertar", "leer"}
      /\ s = "insertar" => op \in {"cierre", "insumo", "catalogo"}
  OBVIOUS
<1> HIDE DEF s
<1>5. q \in Peticion
  BY <1>2, <1>3, <1>4, LibreTipo DEF Peticion, Pasos
<1>6. pet' = [pet EXCEPT ![w] = q] /\ pet'[w] = q /\ SoloPet /\ En(w, "libre")
  BY <1>1 DEF s, Empezar, IInv, Formas
<1>7. /\ q.op = op /\ q.paso = s /\ q.dato = d /\ q.choque = {} /\ q.rancio = FALSE
      /\ q.resultado = Nada
  BY DEF Libre
<1> HIDE DEF q
<1>8. Cerraduras(w)'
  <2>1. puestas[w] = {} /\ (\A t \in Tablas : bloqueo[t] # w) /\ cerrojo # w
    BY <1>6 DEF IInv, Bien, Cerraduras, En
  <2>2. QED
    BY <1>4, <1>6, <1>7, <2>1 DEF Cerraduras, En, Ops, SoloPet
<1>9. Buscada(w)'
  <2>1. Claves(q) = {} \/ ~(s = "insertar" /\ op # "cierre")
    BY <1>4, <1>7 DEF Claves, ClavesInsumo, ClavesCatalogo
  <2>2. QED
    BY <1>4, <1>6, <1>7, <2>1 DEF Buscada, En, Ops, Mira
<1>10. Numerada(w)'
  BY <1>2, <1>4, <1>6, <1>7 DEF Numerada, Ops
<1>11. Chocada(w)' /\ Respondida(w)' /\ Camino(w)'
  BY <1>4, <1>6, <1>7 DEF Chocada, Respondida, Camino, En, Ops, Ediciones
<1>12. Leida(w)'
  <2>1. op = "ampliar" => q.pide["a"] # Nada
    BY DEF Cuerpo, q, Libre
  <2>2. QED
    BY <1>4, <1>6, <1>7, <2>1 DEF Leida, En, Ops
<1>13. QED
  BY <1>12, <1>5, <1>6, <1>8, <1>9, <1>10, <1>11, CambiaPeticion DEF Bien

\* A request that is answered without a change keeps nothing.
LEMMA PasoRechaza ==
    ASSUME IInv, NEW w \in Peticiones, Rechaza(w), SoloPet,
           pet[w].paso \notin {"commit", "fin"}, En(w, "insertar") => ~Ops(w, {"cuenta"})
    PROVE  IInv'
<1> DEFINE q == [pet[w] EXCEPT !.paso = "anotar", !.resultado = "fallido"]
<1>1. pet[w] \in Peticion /\ Bien(w)
  BY DEF IInv, Formas
<1>2. pet' = [pet EXCEPT ![w] = q]
  BY DEF Rechaza
<1>3. q \in Peticion /\ pet'[w] = q
  BY <1>1, <1>2 DEF Peticion, Pasos, IInv, Formas
<1>4. q.op = pet[w].op /\ q.paso = "anotar" /\ q.choque = pet[w].choque /\ q.resultado = "fallido"
  BY <1>1 DEF Peticion
<1> HIDE DEF q
<1>5. Cerraduras(w)'
  <2>1. puestas[w] = {} /\ (\A t \in Tablas : bloqueo[t] # w) /\ cerrojo # w
    BY <1>1 DEF Bien, Cerraduras, En
  <2>2. QED
    BY <1>3, <1>4, <2>1 DEF Cerraduras, En, Ops, SoloPet
<1>6. pet[w].choque = {}
  BY <1>1 DEF Bien, Chocada, En
<1>7. /\ Chocada(w)' /\ Numerada(w)' /\ Buscada(w)' /\ Leida(w)' /\ Respondida(w)' /\ Camino(w)'
  BY <1>3, <1>4, <1>6 DEF Chocada, Numerada, Buscada, Leida, Respondida, Camino, En, Ops
<1>8. QED
  BY <1>2, <1>3, <1>5, <1>7, CambiaPeticion DEF Bien

\* A request that has found nothing goes on to take a number or to insert.
LEMMA PasoBusca ==
    ASSUME IInv, NEW w \in Peticiones, En(w, "leer"), NEW s \in {"numerar", "insertar", "modificar"},
           Lee(w, s), SoloPet, ~Ops(w, Ediciones),
           Ops(w, {"cuenta"}) => s = "numerar",
           s = "modificar" => Ops(w, {"notificar"}),
           s = "insertar" \/ Ops(w, {"cuenta"}) =>
             (Mira(w) => \A k \in Claves(pet[w]) \cap claves : k[1] = "numero" \/ Ajeno(w, k))
    PROVE  IInv'
<1> DEFINE q == [pet[w] EXCEPT !.paso = s, !.rancio = FALSE]
<1>1. pet[w] \in Peticion /\ Bien(w)
  BY DEF IInv, Formas
<1>2. pet' = [pet EXCEPT ![w] = q]
  BY DEF Lee
<1>3. q \in Peticion /\ pet'[w] = q
  BY <1>1, <1>2 DEF Peticion, Pasos, IInv, Formas
<1>4. /\ q.op = pet[w].op /\ q.paso = s /\ q.choque = pet[w].choque /\ q.dato = pet[w].dato
      /\ q.dia = pet[w].dia /\ q.numero = pet[w].numero /\ q.exacto = pet[w].exacto
      /\ q.org = pet[w].org /\ q.rancio = FALSE
  BY <1>1 DEF Peticion
<1> HIDE DEF q
<1>5. Cerraduras(w)'
  <2>1. puestas[w] = {} /\ (\A t \in Tablas : bloqueo[t] # w) /\ cerrojo # w
    BY <1>1 DEF Bien, Cerraduras, En
  <2>2. QED
    BY <1>3, <1>4, <2>1 DEF Cerraduras, En, Ops, SoloPet
<1>6. pet[w].choque = {}
  BY <1>1 DEF Bien, Chocada, En
<1>7. Buscada(w)'
  <2>1. Claves(pet'[w]) = Claves(pet[w])
    BY <1>3, <1>4, ClavesIguales
  <2>2. QED
    BY <1>3, <1>4, <2>1 DEF Buscada, En, Ops, Mira, SoloPet, Ajeno
<1>8. Numerada(w)'
  BY <1>1, <1>3, <1>4 DEF Bien, Numerada, En, Ops
<1>9. Chocada(w)' /\ Leida(w)' /\ Respondida(w)' /\ Camino(w)'
  BY <1>3, <1>4, <1>6 DEF Chocada, Leida, Respondida, Camino, En, Ops, Ediciones
<1>10. QED
  BY <1>2, <1>3, <1>5, <1>7, <1>8, <1>9, CambiaPeticion DEF Bien

\* A step that reads the row w will edit.
LEMMA PasoLectura ==
    ASSUME IInv, NEW w \in Peticiones, NEW q \in Peticion, pet' = [pet EXCEPT ![w] = q], SoloPet,
           Ops(w, Ediciones), pet[w].paso \in {"leer", "releer"},
           q.op = pet[w].op, q.paso \in {"releer", "modificar"}, q.choque = pet[w].choque,
           Leida(w)'
    PROVE  IInv'
<1>1. pet[w] \in Peticion /\ Bien(w)
  BY DEF IInv, Formas
<1>2. pet'[w] = q
  BY DEF IInv, Formas
<1>3. q.op # "cuenta"
  BY DEF Ops, Ediciones
<1>4. Cerraduras(w)'
  <2>1. puestas[w] = {} /\ (\A t \in Tablas : bloqueo[t] # w) /\ cerrojo # w
    BY <1>1 DEF Bien, Cerraduras, En
  <2>2. QED
    BY <1>2, <2>1 DEF Cerraduras, En, Ops, SoloPet
<1>5. pet[w].choque = {}
  BY <1>1 DEF Bien, Chocada, En
<1>6. Chocada(w)' /\ Numerada(w)' /\ Buscada(w)' /\ Respondida(w)' /\ Camino(w)'
  BY <1>2, <1>3, <1>5 DEF Chocada, Numerada, Buscada, Respondida, Camino, En, Ops
<1>7. QED
  BY <1>4, <1>6, CambiaPeticion DEF Bien

\* The first reading: what each operation looks for before it goes on or is refused.
LEMMA PasoLeer ==
    ASSUME IInv, NEW w \in Peticiones, Leer(w)
    PROVE  IInv'
<1>1. /\ pet[w] \in Peticion /\ Bien(w) /\ En(w, "leer") /\ SoloPet
      /\ ~En(w, "insertar") /\ pet[w].paso \notin {"commit", "fin"}
  BY DEF IInv, Formas, Leer, En
<1>2. CASE Rechaza(w)
  BY <1>1, <1>2, PasoRechaza
<1>3. CASE LeerCuenta(w) /\ ~Rechaza(w)
  <2>1. /\ <<"cuenta", pet[w].dato>> \in claves => Ajeno(w, <<"cuenta", pet[w].dato>>)
        /\ Lee(w, "numerar") /\ pet[w].op = "cuenta"
    BY <1>3 DEF LeerCuenta, Ops, Existe, Ajeno
  <2>2. Claves(pet[w]) = {<<"cuenta", pet[w].dato>>, <<"numero", pet[w].dia, pet[w].numero>>}
    BY <2>1 DEF Claves, ClavesCuenta
  <2>3. \A k \in Claves(pet[w]) \cap claves : k[1] = "numero" \/ Ajeno(w, k)
    BY <2>1, <2>2
  <2>4. QED
    BY <1>1, <2>1, <2>3, PasoBusca DEF Ops, Ediciones
<1>4. CASE LeerVehiculo(w) /\ ~Rechaza(w)
  <2>1. /\ <<"vehiculo", pet[w].dato>> \in claves => Ajeno(w, <<"vehiculo", pet[w].dato>>)
        /\ Lee(w, "insertar") /\ pet[w].op = "vehiculo"
    BY <1>4 DEF LeerVehiculo, Ops, Existe, Ajeno
  <2>2. Claves(pet[w]) = {<<"vehiculo", pet[w].dato>>}
    BY <2>1 DEF Claves, ClavesVehiculo
  <2>3. QED
    BY <1>1, <2>1, <2>2, PasoBusca DEF Ops, Ediciones
<1>5. CASE LeerRol(w) /\ ~Rechaza(w)
  <2>1. /\ pet[w].exacto => <<"rol", pet[w].dato>> \notin claves
        /\ Lee(w, "insertar") /\ pet[w].op = "rol"
    BY <1>5 DEF LeerRol, Ops
  <2>2. Claves(pet[w]) = {<<"rol", pet[w].dato>>}
    BY <2>1 DEF Claves, ClavesRol
  <2>3. QED
    BY <1>1, <2>1, <2>2, PasoBusca DEF Ops, Ediciones, Mira
<1>6. CASE LeerNotificacion(w)
  <2>1. /\ pet[w].op = "notificar"
        /\ Claves(pet[w]) = {<<"notificar", pet[w].dato>>}
    BY <1>6 DEF LeerNotificacion, Ops, Claves, ClavesNotificacion
  <2>2. CASE <<"notificar", pet[w].dato>> \in claves
    <3>1. Lee(w, "modificar")
      BY <1>6, <2>2 DEF LeerNotificacion
    <3>2. QED
      BY <1>1, <2>1, <3>1, PasoBusca DEF Ops, Ediciones
  <2>3. CASE <<"notificar", pet[w].dato>> \notin claves
    <3>1. Lee(w, "insertar")
      BY <1>6, <2>3 DEF LeerNotificacion
    <3>2. QED
      BY <1>1, <2>1, <2>3, <3>1, PasoBusca DEF Ops, Ediciones
  <2>4. QED
    BY <2>2, <2>3
<1>7. CASE LeerUsuario(w) /\ ~Rechaza(w)
  <2>1. /\ <<"usuario", pet[w].dato>> \in claves => Ajeno(w, <<"usuario", pet[w].dato>>)
        /\ Lee(w, "insertar") /\ pet[w].op = "usuario"
    BY <1>7 DEF LeerUsuario, Ops, Existe, Ajeno
  <2>2. Claves(pet[w]) = {<<"usuario", pet[w].dato>>}
    BY <2>1 DEF Claves, ClavesUsuario
  <2>3. QED
    BY <1>1, <2>1, <2>2, PasoBusca DEF Ops, Ediciones
<1>8. CASE LeerSuperadmin(w)
  <2>1. pet[w].op = "superadmin" /\ Claves(pet[w]) = {<<"usuario", pet[w].dato>>}
    BY <1>8 DEF LeerSuperadmin, Ops, Claves, ClavesUsuario
  <2>2. CASE <<"usuario", pet[w].dato>> \notin claves
    <3>1. Lee(w, "insertar")
      BY <1>8, <2>2 DEF LeerSuperadmin
    <3>2. QED
      BY <1>1, <2>1, <2>2, <3>1, PasoBusca DEF Ops, Ediciones
  <2>3. CASE <<"usuario", pet[w].dato>> \in claves
    <3>1. pet' = [pet EXCEPT ![w] = Acabada(@, "fallido", {})]
      BY <1>8, <2>3 DEF LeerSuperadmin
    <3>2. puestas[w] = {} /\ (\A t \in Tablas : bloqueo[t] # w) /\ cerrojo # w
      BY <1>1 DEF Bien, Cerraduras, En
    <3>3. Suelta(w)
      BY <1>1, <3>2 DEF Suelta, SoloPet, IInv, Formas
    <3>4. UNCHANGED <<abiertas, hoy, claves, duena, filas, asentadas, bitacora>>
      BY <1>1 DEF SoloPet
    <3>5. {} \in SUBSET Clave
      OBVIOUS
    <3>6. QED
      BY <3>1, <3>3, <3>4, <3>5, AcabaPeticion
  <2>4. QED
    BY <2>2, <2>3
<1>9. CASE LeerInspeccion(w)
  <2>1. Lee(w, "insertar") /\ pet[w].op = "inspeccion"
    BY <1>9 DEF LeerInspeccion, Ops
  <2>2. QED
    BY <1>1, <2>1, PasoBusca DEF Ops, Ediciones, Mira
<1>10. CASE LeerFila(w)
  <2> DEFINE f == filas[Fila(pet[w].op)]
             q == [pet[w] EXCEPT !.paso = "releer", !.rancio = FALSE, !.leida = f]
  <2>1. f \in [Campos -> Valores]
    BY FilaTabla DEF IInv, Formas
  <2>2. q \in Peticion
    BY <1>1, <2>1 DEF Peticion, Pasos
  <2>3. pet' = [pet EXCEPT ![w] = q]
    BY <1>10 DEF LeerFila
  <2>4. pet'[w] = q /\ q.leida = f /\ q.paso = "releer" /\ q.op = pet[w].op /\ q.choque = pet[w].choque
    BY <1>1, <2>3 DEF IInv, Formas, Peticion
  <2>5. Ops(w, {"editar", "aprobar"})
    BY <1>10 DEF LeerFila
  <2> HIDE DEF q
  <2>6. Leida(w)'
    BY <1>1, <2>4, <2>5 DEF Leida, En, Ops, SoloPet
  <2>7. QED
    BY <1>1, <2>2, <2>3, <2>4, <2>5, <2>6, PasoLectura DEF Ops, Ediciones, En
<1>11. CASE LeerRango(w) /\ ~Rechaza(w)
  <2> DEFINE f == filas["rango"]
             q == [pet[w] EXCEPT !.paso = "modificar", !.rancio = FALSE, !.leida = f, !.copia = f]
  <2>1. f \in [Campos -> Valores] /\ pet[w].op = "ampliar" /\ Fila("ampliar") = "rango"
    BY <1>11 DEF IInv, Formas, Tablas, LeerRango, Ops, Fila
  <2>2. q \in Peticion
    BY <1>1, <2>1 DEF Peticion, Pasos
  <2>3. pet' = [pet EXCEPT ![w] = q] /\ pet[w].pide["a"] > f["a"]
    BY <1>11 DEF LeerRango
  <2>4. /\ pet'[w] = q /\ q.leida = f /\ q.copia = f /\ q.paso = "modificar"
        /\ q.op = pet[w].op /\ q.choque = pet[w].choque /\ q.pide = pet[w].pide
    BY <1>1, <2>3 DEF IInv, Formas, Peticion
  <2>5. pet[w].pide["a"] # Nada
    BY <1>1, <2>1 DEF Bien, Leida, En, Ops
  <2> HIDE DEF q
  <2>6. Leida(w)'
    BY <1>1, <2>1, <2>3, <2>4, <2>5 DEF Leida, En, Ops, SoloPet
  <2>7. QED
    BY <1>1, <2>1, <2>2, <2>3, <2>4, <2>6, PasoLectura DEF Ops, Ediciones, En
<1>12. QED
  BY <1>2, <1>3, <1>4, <1>5, <1>6, <1>7, <1>8, <1>9, <1>10, <1>11 DEF Leer

\* The repository reads the row a second time, inside the same transaction.
LEMMA PasoReleer ==
    ASSUME IInv, NEW w \in Peticiones, Releer(w)
    PROVE  IInv'
<1> DEFINE f == filas[Fila(pet[w].op)]
           q == [pet[w] EXCEPT !.paso = "modificar", !.copia = f]
<1>1. pet[w] \in Peticion /\ Bien(w) /\ En(w, "releer") /\ SoloPet
  BY DEF IInv, Formas, Releer
<1>2. f \in [Campos -> Valores]
  BY FilaTabla DEF IInv, Formas
<1>3. q \in Peticion /\ pet' = [pet EXCEPT ![w] = q]
  BY <1>1, <1>2 DEF Peticion, Pasos, Releer
<1>4. /\ pet'[w] = q /\ q.copia = f /\ q.leida = pet[w].leida /\ q.paso = "modificar"
      /\ q.op = pet[w].op /\ q.choque = pet[w].choque /\ q.pide = pet[w].pide
      /\ q.rancio = pet[w].rancio
  BY <1>1, <1>3 DEF IInv, Formas, Peticion
<1> HIDE DEF q
<1>5. Leida(w)'
  BY <1>1, <1>4 DEF Bien, Leida, En, Ops, SoloPet
<1>6. Ops(w, Ediciones)
  BY <1>1 DEF Bien, Camino
<1>7. QED
  BY <1>1, <1>3, <1>4, <1>5, <1>6, PasoLectura DEF En

----------------------------------------------------------------------------
(* Numbers, keys and locks *)

\* The number of an account under the lock follows those of the day, if it fits.
LEMMA SiguienteDelDia ==
    ASSUME IInv, NEW d \in Nat
    PROVE  \E n \in Nat :
             /\ n <= Tope - 1 /\ Cardinality(DelDia(claves, d)) = n
             /\ DelDia(claves, d) = {<<"numero", d, i>> : i \in 1..n}
             /\ n < Tope - 1 => Recorta(n + 1) = n + 1
             /\ n = Tope - 1 => Recorta(n + 1) \in 1..n
             /\ Recorta(n + 1) \in Nat
<1>1. PICK n \in 0..(Tope - 1) : DelDia(claves, d) = {<<"numero", d, i>> : i \in 1..n}
  BY DEF IInv, DiaContiguo
<1>2. n \in Nat /\ n < Tope /\ n <= Tope - 1 /\ Tope \in Nat
  BY Numeros
<1>3. Cardinality(DelDia(claves, d)) = n
  BY <1>1, <1>2, CuantosDelDia
<1>4. /\ n + 1 < Tope => Recorta(n + 1) = n + 1
      /\ n + 1 = Tope => Recorta(n + 1) \in 1..n
  BY <1>2, RecortaCorta
<1>5. (n < Tope - 1 => n + 1 < Tope) /\ (n = Tope - 1 => n + 1 = Tope)
  BY <1>2
<1>6. Recorta(n + 1) \in Nat
  BY <1>2, <1>4
<1>7. QED
  BY <1>1, <1>2, <1>3, <1>4, <1>5, <1>6

\* The number that follows those a request sees is one that is given already, if some are
\* hidden or they are used up, and otherwise the next one of the day.
LEMMA NumeroVisto ==
    ASSUME IInv, NEW p, p.dia \in Nat
    PROVE  LET r == Recorta(Cardinality(Contadas(p)) + 1)
           IN  \E n \in Nat :
                 /\ n <= Tope - 1 /\ Cardinality(DelDia(claves, p.dia)) = n
                 /\ DelDia(claves, p.dia) = {<<"numero", p.dia, i>> : i \in 1..n}
                 /\ r \in Nat
                 /\ r \in 1..n \/ (r = n + 1 /\ n < Tope - 1)
                 /\ r \in 1..n => n = Tope - 1 \/ \E j \in DelDia(claves, p.dia) : Oculta(p, j)
                 /\ r \notin 1..n => \A j \in DelDia(claves, p.dia) : ~Oculta(p, j)
<1> DEFINE r == Recorta(Cardinality(Contadas(p)) + 1)
           D == DelDia(claves, p.dia)
<1>1. PICK n \in Nat :
        /\ n <= Tope - 1 /\ Cardinality(D) = n
        /\ D = {<<"numero", p.dia, i>> : i \in 1..n}
        /\ n < Tope - 1 => Recorta(n + 1) = n + 1
        /\ n = Tope - 1 => Recorta(n + 1) \in 1..n
        /\ Recorta(n + 1) \in Nat
  BY SiguienteDelDia
<1>2. Contadas(p) \subseteq D /\ (Contadas(p) = D \/ \E j \in D : Oculta(p, j))
  BY DEF Contadas
<1>3. IsFiniteSet(D)
  <2> DEFINE f == [i \in 1..n |-> <<"numero", p.dia, i>>]
  <2>1. D = {f[i] : i \in 1..n} /\ IsFiniteSet(1..n)
    BY <1>1, FS_Interval
  <2>2. \A i, j \in 1..n : f[i] = f[j] => i = j
    OBVIOUS
  <2> HIDE DEF f, D
  <2>3. QED
    BY <2>1, <2>2, ImagenInyectiva
<1> HIDE DEF D
<1>4. CASE Contadas(p) = D
  <2>0. \A j \in D : ~Oculta(p, j)
    BY <1>4 DEF Contadas
  <2>1. r = Recorta(n + 1)
    BY <1>1, <1>4
  <2>2. n = Tope - 1 \/ n < Tope - 1
    BY <1>1, Numeros
  <2>3. r \in Nat /\ (r \in 1..n \/ (r = n + 1 /\ n < Tope - 1)) /\ (r \in 1..n => n = Tope - 1)
    BY <1>1, <2>1, <2>2
  <2> HIDE DEF r
  <2>4. QED
    BY <1>1, <2>0, <2>3 DEF D, r
<1>5. CASE Contadas(p) # D
  <2> DEFINE m == Cardinality(Contadas(p))
  <2>1. m \in Nat /\ m < n
    <3>1. IsFiniteSet(Contadas(p)) /\ Cardinality(Contadas(p)) <= Cardinality(D)
          /\ (Cardinality(D) = Cardinality(Contadas(p)) => D = Contadas(p))
      BY <1>2, <1>3, FS_Subset
    <3>2. Cardinality(Contadas(p)) \in Nat
      BY <3>1, FS_CardinalityType
    <3>3. QED
      BY <1>1, <1>5, <3>1, <3>2
  <2>2. r = Recorta(m + 1)
    OBVIOUS
  <2> HIDE DEF m, r
  <2>3. m + 1 < Tope /\ m + 1 \in 1..n /\ m < Tope
    BY <1>1, <2>1, Numeros
  <2>4. r \in 1..n /\ r \in Nat
    BY <2>1, <2>2, <2>3, RecortaCorta
  <2>5. \E j \in D : Oculta(p, j)
    BY <1>2, <1>5
  <2>6. QED
    BY <1>1, <2>4, <2>5 DEF D, r
<1>6. QED
  BY <1>4, <1>5

\* The lock of the numbers is taken and the number follows those that the request sees.
LEMMA PasoNumerarCuenta ==
    ASSUME IInv, NEW w \in Peticiones, Numerar(w), NumerarCuenta(w)
    PROVE  IInv'
<1> DEFINE n == Recorta(Cardinality(Contadas(pet[w])) + 1)
           q == [pet[w] EXCEPT !.paso = "insertar", !.numero = n]
<1>1. /\ pet[w] \in Peticion /\ Bien(w) /\ pet[w].paso = "numerar" /\ pet[w].op = "cuenta"
      /\ cerrojo = Nada /\ cerrojo' = w
      /\ UNCHANGED <<abiertas, hoy, claves, duena, filas, puestas, bloqueo, asentadas, bitacora>>
  BY DEF IInv, Formas, Numerar, NumerarCuenta, En, Ops
<1>2. n = Recorta(Cardinality(Contadas(pet[w])) + 1)
  OBVIOUS
<1>3. n \in Nat
  <2>1. pet[w].dia \in Nat
    BY <1>1 DEF Peticion
  <2>2. QED
    BY <2>1, NumeroVisto
<1>4. pet' = [pet EXCEPT ![w] = q]
  BY DEF NumerarCuenta
<1> HIDE DEF n
<1>5. q \in Peticion /\ pet'[w] = q
  BY <1>1, <1>3, <1>4 DEF Peticion, Pasos, IInv, Formas
<1>6. /\ q.op = "cuenta" /\ q.paso = "insertar" /\ q.choque = pet[w].choque
      /\ q.dato = pet[w].dato /\ q.dia = pet[w].dia /\ q.numero = n
      /\ q.exacto = pet[w].exacto /\ q.rancio = pet[w].rancio /\ q.org = pet[w].org
  BY <1>1 DEF Peticion
<1> HIDE DEF q
<1>7. Formas'
  BY <1>1, <1>4, <1>5 DEF IInv, Formas
<1>8. RastroFiel'
  BY <1>1 DEF IInv, RastroFiel
<1>9. \A v \in Peticiones : v # w => Ajena(v)
  BY <1>1, <1>4, ConstantesRegistros DEF Ajena, IInv, Formas
<1>10. Cerraduras(w)'
  BY <1>1, <1>5, <1>6 DEF Bien, Cerraduras, En, Ops
<1>11. Numerada(w)'
  <2>1. Contadas(pet[w])' = Contadas(pet[w])
    BY <1>1, <1>5, <1>6 DEF Contadas, Oculta, DelDia
  <2>2. QED
    BY <1>2, <1>5, <1>6, <2>1 DEF Numerada, Ops
<1>12. Buscada(w)'
  <2>1. Claves(q) = {<<"cuenta", pet[w].dato>>, <<"numero", q.dia, n>>}
    BY <1>6 DEF Claves, ClavesCuenta
  <2>2. <<"cuenta", pet[w].dato>> \in Claves(pet[w])
    BY <1>1 DEF Claves, ClavesCuenta
  <2>3. Mira(w) /\ <<"cuenta", pet[w].dato>> \in claves =>
          pet[w].rancio \/ Ajeno(w, <<"cuenta", pet[w].dato>>)
    BY <1>1, <2>2 DEF Bien, Buscada, En, Ops
  <2>4. QED
    BY <1>1, <1>5, <1>6, <2>1, <2>3 DEF Buscada, Mira, Ops, Ajeno
<1>13. Chocada(w)' /\ Leida(w)' /\ Respondida(w)' /\ Camino(w)'
  <2>1. pet[w].choque = {}
    BY <1>1 DEF Bien, Chocada, En
  <2>2. QED
    BY <1>5, <1>6, <2>1 DEF Chocada, Leida, Respondida, Camino, En, Ops, Ediciones
<1>14. QED
  BY <1>1, <1>7, <1>8, <1>9, <1>10, <1>11, <1>12, <1>13, PasoLocal DEF Bien

\* What INSERT finds there was put while the request ran or is of another organization,
\* unless it never looked; and a number it finds there is one that no longer fits, or that
\* another organization hides.
LEMMA ChoqueJusto ==
    ASSUME IInv, NEW w \in Peticiones, En(w, "insertar")
    PROVE  /\ Claves(pet[w]) \subseteq Clave
           /\ \A k \in Claves(pet[w]) \cap claves : Justo(w, k)
<1>1. pet[w] \in Peticion /\ Bien(w) /\ pet[w].op \in Operaciones /\ pet[w].dia \in Nat
  BY DEF IInv, Formas, Peticion
<1>2. Claves(pet[w]) \subseteq Clave
  BY <1>1, ClavesTipo
<1>3. ASSUME NEW k \in Claves(pet[w]) \cap claves, k[1] # "numero" PROVE Justo(w, k)
  BY <1>1, <1>3 DEF Bien, Buscada, Justo
<1>4. ASSUME NEW k \in Claves(pet[w]) \cap claves, k[1] = "numero" PROVE Justo(w, k)
  <2>1. pet[w].op = "cuenta" /\ k = <<"numero", pet[w].dia, pet[w].numero>>
    BY <1>1, <1>4, ClaveNumero
  <2>2. pet[w].numero = Recorta(Cardinality(Contadas(pet[w])) + 1)
    BY <1>1, <2>1 DEF Bien, Numerada, En, Ops
  <2>3. PICK n \in Nat :
          /\ n <= Tope - 1 /\ Cardinality(DelDia(claves, pet[w].dia)) = n
          /\ DelDia(claves, pet[w].dia) = {<<"numero", pet[w].dia, i>> : i \in 1..n}
          /\ pet[w].numero \in 1..n =>
               n = Tope - 1 \/ \E j \in DelDia(claves, pet[w].dia) : Oculta(pet[w], j)
    BY <1>1, <2>2, NumeroVisto
  <2>4. <<"numero", pet[w].dia, pet[w].numero>> \in DelDia(claves, pet[w].dia)
    BY <1>4, <2>1 DEF DelDia
  <2>5. pet[w].numero \in 1..n
    BY <2>3, <2>4
  <2>6. k[2] = pet[w].dia
    BY <2>1
  <2>7. n = Tope - 1 => Cardinality(DelDia(claves, pet[w].dia)) >= Tope - 1
    BY <2>3, Numeros
  <2>8. QED
    BY <1>4, <2>3, <2>5, <2>6, <2>7 DEF Justo
<1>5. QED
  BY <1>2, <1>3, <1>4

\* A transaction that fails gives back all that it holds.
LEMMA PasoFalla ==
    ASSUME IInv, NEW w \in Peticiones, NEW ks, Falla(w, ks), ks = {}
    PROVE  IInv'
<1>1. {} \in SUBSET Clave
  OBVIOUS
<1>2. /\ pet' = [pet EXCEPT ![w] = Acabada(@, "error", {})]
      /\ Suelta(w) /\ UNCHANGED <<abiertas, hoy, claves, duena, filas, asentadas, bitacora>>
  BY DEF Falla
<1>3. QED
  BY <1>1, <1>2, AcabaPeticion

\* A request that holds what it needs reaches COMMIT.
LEMMA PasoListo ==
    ASSUME IInv, NEW w \in Peticiones, pet[w].paso \in {"insertar", "modificar"},
           pet' = [pet EXCEPT ![w].paso = "commit"],
           UNCHANGED <<abiertas, hoy, claves, duena, filas, cerrojo, asentadas, bitacora>>,
           puestas' \in [Peticiones -> SUBSET Clave],
           bloqueo' \in [Tablas -> Peticiones \cup {Nada}],
           \A v \in Peticiones : v # w =>
               puestas'[v] = puestas[v] /\ \A t \in Tablas : bloqueo'[t] = v <=> bloqueo[t] = v,
           puestas'[w] \subseteq Claves(pet[w]),
           Ops(w, Ediciones) => bloqueo'[Fila(pet[w].op)] = w
    PROVE  IInv'
<1> DEFINE q == [pet[w] EXCEPT !.paso = "commit"]
<1>1. pet[w] \in Peticion /\ Bien(w) /\ pet' = [pet EXCEPT ![w] = q]
  BY DEF IInv, Formas
<1>2. q \in Peticion /\ pet'[w] = q
  BY <1>1 DEF Peticion, Pasos, IInv, Formas
<1>3. /\ q.op = pet[w].op /\ q.paso = "commit" /\ q.choque = pet[w].choque
      /\ q.dato = pet[w].dato /\ q.dia = pet[w].dia /\ q.numero = pet[w].numero
      /\ q.exacto = pet[w].exacto /\ q.rancio = pet[w].rancio /\ q.pide = pet[w].pide
      /\ q.leida = pet[w].leida /\ q.copia = pet[w].copia /\ q.org = pet[w].org
  BY <1>1 DEF Peticion
<1> HIDE DEF q
<1>4. Formas'
  BY <1>1, <1>2 DEF IInv, Formas
<1>5. RastroFiel'
  BY DEF IInv, RastroFiel
<1>6. \A v \in Peticiones : v # w => Ajena(v)
  BY <1>1 DEF Ajena, IInv, Formas
<1>7. Claves(pet'[w]) = Claves(pet[w])
  BY <1>2, <1>3, ClavesIguales
<1>8. pet[w].paso = "modificar" => Ops(w, Ediciones \cup {"notificar"})
  BY <1>1 DEF Bien, Camino, En
<1>9. Cerraduras(w)'
  <2>1. \A t \in Tablas : bloqueo'[t] = w => En(w, "commit")'
    BY <1>2, <1>3 DEF En
  <2>2. (cerrojo = w) <=> (Ops(w, {"cuenta"}) /\ pet[w].paso \in {"insertar", "commit"})
    BY <1>1 DEF Bien, Cerraduras
  <2>3. (cerrojo' = w) <=> (Ops(w, {"cuenta"})' /\ pet'[w].paso \in {"insertar", "commit"})
    BY <1>2, <1>3, <1>8, <2>2 DEF Ops, Ediciones
  <2>4. QED
    BY <1>2, <1>3, <1>7, <2>1, <2>3 DEF Cerraduras, En, Ops
<1>10. Numerada(w)'
  <2>1. Ops(w, {"cuenta"}) => pet[w].paso = "insertar"
    BY <1>8 DEF Ops, Ediciones
  <2>2. Contadas(pet[w])' = Contadas(pet[w])
    BY <1>2, <1>3 DEF Contadas, Oculta, DelDia
  <2>3. QED
    BY <1>1, <1>2, <1>3, <2>1, <2>2 DEF Bien, Numerada, Ops
<1>11. Leida(w)'
  BY <1>1, <1>2, <1>3 DEF Bien, Leida, Camino, En, Ops, Ediciones
<1>12. Chocada(w)' /\ Buscada(w)' /\ Respondida(w)' /\ Camino(w)'
  <2>1. pet[w].choque = {}
    BY <1>1 DEF Bien, Chocada, En
  <2>2. QED
    BY <1>2, <1>3, <2>1 DEF Chocada, Buscada, Respondida, Camino, En, Ops
<1>13. QED
  BY <1>4, <1>5, <1>6, <1>9, <1>10, <1>11, <1>12, PasoLocal DEF Bien

\* An INSERT keeps its keys, if none is taken, or fails because of those that are.
LEMMA PasoInsertar ==
    ASSUME IInv, NEW w \in Peticiones, Insertar(w)
    PROVE  IInv'
<1> DEFINE ks == Claves(pet[w])
<1>1. Bien(w) /\ En(w, "insertar") /\ pet[w].paso = "insertar"
  BY DEF IInv, Insertar, En
<1>2. ks \subseteq Clave
  BY <1>1, ChoqueJusto
<1>3. CASE Ops(w, {"usuario"}) /\ ChoqueUsuario(w)
  <2>1. Rechaza(w) /\ SoloPet /\ ~Ops(w, {"cuenta"}) /\ pet[w].paso \notin {"commit", "fin"}
    BY <1>1, <1>3 DEF ChoqueUsuario, Ops
  <2>2. QED
    BY <2>1, PasoRechaza
<1>4. CASE Falla(w, ks \cap claves)
  <2>1. ks \cap claves \in SUBSET Clave
    BY <1>2
  <2>2. ks \cap claves \subseteq claves /\ \A k \in ks \cap claves : Justo(w, k)
    BY <1>1, ChoqueJusto
  <2>3. /\ pet' = [pet EXCEPT ![w] = Acabada(@, "error", ks \cap claves)]
        /\ Suelta(w) /\ UNCHANGED <<abiertas, hoy, claves, duena, filas, asentadas, bitacora>>
    BY <1>4 DEF Falla
  <2> HIDE DEF ks
  <2>4. QED
    BY <2>1, <2>2, <2>3, AcabaPeticion
<1>5. CASE /\ puestas' = [puestas EXCEPT ![w] = ks] /\ Pasa(w, "commit")
           /\ UNCHANGED <<abiertas, hoy, claves, duena, filas, bloqueo, cerrojo,
                          asentadas, bitacora>>
  <2>1. ~Ops(w, Ediciones)
    BY <1>1 DEF Bien, Camino
  <2>2. puestas' \in [Peticiones -> SUBSET Clave] /\ puestas'[w] = ks
    BY <1>2, <1>5 DEF IInv, Formas
  <2>3. \A v \in Peticiones : v # w => puestas'[v] = puestas[v]
    BY <1>5 DEF IInv, Formas
  <2>4. bloqueo' \in [Tablas -> Peticiones \cup {Nada}]
    BY <1>5 DEF IInv, Formas
  <2>5. pet' = [pet EXCEPT ![w].paso = "commit"]
    BY <1>5 DEF Pasa
  <2>6. QED
    BY <1>1, <1>5, <2>1, <2>2, <2>3, <2>4, <2>5, PasoListo
<1>6. CASE RolVedado(w)
  BY <1>6, PasoFalla DEF RolVedado
<1>7. QED
  BY <1>3, <1>4, <1>5, <1>6 DEF Insertar

\* An UPDATE locks the row, if there is something to change.
LEMMA PasoModificar ==
    ASSUME IInv, NEW w \in Peticiones, Modificar(w)
    PROVE  IInv'
<1> DEFINE t0 == Fila(pet[w].op)
<1>1. Bien(w) /\ pet[w].paso = "modificar" /\ puestas[w] = {} /\ bloqueo[t0] = Nada
  BY DEF IInv, Modificar, En, Bien, Cerraduras
<1>2. /\ bloqueo' = [bloqueo EXCEPT ![t0] = w] /\ pet' = [pet EXCEPT ![w].paso = "commit"]
      /\ UNCHANGED <<abiertas, hoy, claves, duena, filas, puestas, cerrojo, asentadas, bitacora>>
  BY DEF Modificar, Pasa
<1>3. t0 \in Tablas
  BY FilaTabla
<1> HIDE DEF t0
<1>4. bloqueo' \in [Tablas -> Peticiones \cup {Nada}] /\ bloqueo'[t0] = w
  BY <1>2, <1>3 DEF IInv, Formas
<1>5. \A v \in Peticiones : v # w => \A t \in Tablas : bloqueo'[t] = v <=> bloqueo[t] = v
  BY <1>1, <1>2, <1>3, ConstantesRegistros DEF IInv, Formas
<1>6. puestas' \in [Peticiones -> SUBSET Clave] /\ puestas'[w] \subseteq Claves(pet[w])
  BY <1>1, <1>2 DEF IInv, Formas
<1>7. QED
  BY <1>1, <1>2, <1>4, <1>5, <1>6, PasoListo DEF t0

\* A cancelled statement, a column that is not there or a COMMIT that does not arrive.
LEMMA PasoCaducar ==
    ASSUME IInv, NEW w \in Peticiones, Caducar(w) \/ SinColumna(w) \/ FallarCommit(w)
    PROVE  IInv'
<1>1. Falla(w, {})
  BY DEF Caducar, SinColumna, FallarCommit
<1>2. QED
  BY <1>1, PasoFalla

\* A process stops: what it held is given back and nobody is answered.
LEMMA PasoCaer ==
    ASSUME IInv, NEW w \in Peticiones, Caer(w)
    PROVE  IInv'
<1>1. {} \in SUBSET Clave
  OBVIOUS
<1>2. /\ pet' = [pet EXCEPT ![w] = Acabada(@, Nada, {})]
      /\ Suelta(w) /\ UNCHANGED <<abiertas, hoy, claves, duena, filas, asentadas, bitacora>>
  BY DEF Caer
<1>3. QED
  BY <1>1, <1>2, AcabaPeticion

\* The row of an answer tells of a success only if the request has committed.
LEMMA PasoAnotar ==
    ASSUME IInv, NEW w \in Peticiones, Anotar(w)
    PROVE  IInv'
<1> DEFINE q == Acabada(pet[w], Nada, {})
<1>1. pet[w] \in Peticion /\ Bien(w) /\ En(w, "anotar") /\ pet' = [pet EXCEPT ![w] = q]
  BY DEF IInv, Formas, Anotar
<1>2. UNCHANGED <<abiertas, hoy, claves, duena, filas, puestas, bloqueo, cerrojo, asentadas>>
  BY DEF Anotar
<1>3. q \in Peticion /\ pet'[w] = q
  <2>1. {} \in SUBSET Clave
    OBVIOUS
  <2>2. QED
    BY <1>1, <2>1, AcabadaTipo DEF IInv, Formas
<1>4. q.op = pet[w].op /\ q.paso = "fin" /\ q.choque = {}
  BY DEF Acabada, Libre
<1> HIDE DEF q
<1>5. Formas'
  BY <1>1, <1>2, <1>3 DEF IInv, Formas
<1>6. RastroFiel'
  <2>1. bitacora' \in {bitacora, bitacora \cup {<<"respuesta", w, pet[w].resultado>>}}
    BY DEF Anotar, FilaRespuesta
  <2>2. pet[w].resultado = "exitoso" => w \in asentadas
    BY <1>1 DEF Bien, Respondida
  <2>3. \A f \in bitacora : f[1] = "disparador" \/ f[3] = "exitoso" => f[2] \in asentadas
    BY DEF IInv, RastroFiel
  <2>4. \A f \in bitacora' : f[1] = "disparador" \/ f[3] = "exitoso" => f[2] \in asentadas
    BY <2>1, <2>2, <2>3
  <2>5. QED
    BY <1>2, <2>4 DEF RastroFiel
<1>7. \A v \in Peticiones : v # w => Ajena(v)
  BY <1>1, <1>2 DEF Ajena, IInv, Formas
<1>8. Cerraduras(w)'
  <2>1. puestas[w] = {} /\ (\A t \in Tablas : bloqueo[t] # w) /\ cerrojo # w
    BY <1>1 DEF Bien, Cerraduras, En
  <2>2. QED
    BY <1>2, <1>3, <1>4, <2>1 DEF Cerraduras, En, Ops
<1>9. /\ Chocada(w)' /\ Numerada(w)' /\ Buscada(w)' /\ Leida(w)' /\ Respondida(w)' /\ Camino(w)'
  BY <1>3, <1>4 DEF Chocada, Numerada, Buscada, Leida, Respondida, Camino, En, Ops
<1>10. QED
  BY <1>2, <1>5, <1>6, <1>7, <1>8, <1>9, PasoLocal DEF Bien

\* Midnight changes no row and no request.
LEMMA PasoReloj ==
    ASSUME IInv, hoy' \in 1..MaxDia,
           UNCHANGED <<abiertas, claves, duena, filas, puestas, bloqueo, cerrojo, pet, asentadas, bitacora>>
    PROVE  IInv'
<1>1. Formas' /\ DiaContiguo' /\ DiaDeUna' /\ RastroFiel'
  BY DEF IInv, Formas, DiaContiguo, DiaDeUna, DelDia, RastroFiel
<1>2. ASSUME NEW v \in Peticiones PROVE Bien(v)'
  <2>1. Bien(v)
    BY DEF IInv
  <2>2. QED
    BY <2>1 DEF Bien, Cerraduras, Numerada, Buscada, Chocada, Camino, Leida, Respondida, En,
       Ops, Mira, Contadas, Oculta, Ajeno, Justo
<1>3. QED
  BY <1>1, <1>2 DEF IInv

----------------------------------------------------------------------------
(* COMMIT *)

\* It adds at most the next number of a day.
LEMMA CommitDelDia ==
    ASSUME IInv, NEW w \in Peticiones, En(w, "commit"), NEW d \in Nat
    PROVE  /\ ~Ops(w, {"cuenta"}) => DelDia(claves \cup puestas[w], d) = DelDia(claves, d)
           /\ \E n \in 0..(Tope - 1) :
                 DelDia(claves \cup puestas[w], d) = {<<"numero", d, i>> : i \in 1..n}
           /\ Cardinality(DelDia(claves, d)) <= Cardinality(DelDia(claves \cup puestas[w], d))
<1> DEFINE D == DelDia(claves, d)
           E == DelDia(claves \cup puestas[w], d)
           k0 == <<"numero", pet[w].dia, pet[w].numero>>
<1>1. pet[w] \in Peticion /\ Bien(w) /\ pet[w].op \in Operaciones
  BY DEF IInv, Formas, Peticion
<1>2. puestas[w] \subseteq Claves(pet[w])
  BY <1>1 DEF Bien, Cerraduras
<1>3. \A k \in puestas[w] : k[1] = "numero" => Ops(w, {"cuenta"}) /\ k = k0
  BY <1>1, <1>2, ClaveNumero DEF Ops
<1>4. ~Ops(w, {"cuenta"}) => E = D
  BY <1>3 DEF DelDia
<1>5. PICK n \in Nat :
        /\ n <= Tope - 1 /\ Cardinality(D) = n
        /\ D = {<<"numero", d, i>> : i \in 1..n}
        /\ n < Tope - 1 => Recorta(n + 1) = n + 1
        /\ n = Tope - 1 => Recorta(n + 1) \in 1..n
  BY SiguienteDelDia
<1>6. E = D \/ (Ops(w, {"cuenta"}) /\ pet[w].dia = d /\ E = D \cup {<<"numero", d, pet[w].numero>>})
  BY <1>3 DEF DelDia
<1> HIDE DEF D, E
<1>7. CASE E = D
  <2>1. n \in 0..(Tope - 1) /\ n <= n
    BY <1>5, Numeros
  <2>2. \E m \in 0..(Tope - 1) : E = {<<"numero", d, i>> : i \in 1..m}
    BY <1>5, <1>7, <2>1
  <2>3. Cardinality(D) <= Cardinality(E)
    BY <1>5, <1>7, <2>1
  <2>4. QED
    BY <1>7, <2>2, <2>3 DEF D, E
<1>8. CASE Ops(w, {"cuenta"}) /\ pet[w].dia = d /\ E = D \cup {<<"numero", d, pet[w].numero>>}
  <2>1. pet[w].numero = Recorta(Cardinality(Contadas(pet[w])) + 1)
    BY <1>1, <1>8 DEF Bien, Numerada, En, Ops
  <2>2. PICK m \in Nat :
          /\ Cardinality(D) = m
          /\ pet[w].numero \in 1..m \/ (pet[w].numero = m + 1 /\ m < Tope - 1)
    BY <1>8, <2>1, NumeroVisto DEF D
  <2>3. m = n
    BY <1>5, <2>2
  <2>4. CASE pet[w].numero \in 1..n
    <3>1. E = D
      BY <1>5, <1>8, <2>4
    <3>2. QED
      BY <1>7, <3>1
  <2>5. CASE pet[w].numero = n + 1 /\ n < Tope - 1
    <3>1. 1..(n + 1) = (1..n) \cup {n + 1}
      OBVIOUS
    <3>2. E = {<<"numero", d, i>> : i \in 1..(n + 1)}
      BY <1>5, <1>8, <2>5, <3>1
    <3>3. Cardinality(E) = n + 1
      BY <3>2, CuantosDelDia
    <3>4. n + 1 \in 0..(Tope - 1) /\ n <= n + 1
      BY <2>5, Numeros
    <3>5. QED
      BY <1>4, <1>5, <3>2, <3>3, <3>4 DEF D, E
  <2>6. QED
    BY <2>2, <2>3, <2>4, <2>5
<1>9. QED
  BY <1>6, <1>7, <1>8

\* A number that was not there follows numbers that were all seen.
LEMMA CommitDeUna ==
    ASSUME IInv, NEW w \in Peticiones, Commit(w)
    PROVE  DiaDeUna'
<1>1. /\ pet[w] \in Peticion /\ Bien(w) /\ En(w, "commit") /\ claves' = claves \cup puestas[w]
      /\ pet[w].op \in Operaciones /\ pet[w].dia \in Nat
      /\ \A k \in claves' : duena'[k] = IF k \in claves THEN duena[k] ELSE pet[w].org
  BY DEF IInv, Formas, Commit, Peticion
<1>2. \A k \in claves' \ claves : k[1] = "numero" =>
          Ops(w, {"cuenta"}) /\ k = <<"numero", pet[w].dia, pet[w].numero>>
  <2>1. \A k \in claves' \ claves : k \in Claves(pet[w])
    BY <1>1 DEF Bien, Cerraduras
  <2>2. QED
    BY <1>1, <2>1, ClaveNumero DEF Ops
<1>3. ASSUME NEW d \in Nat, NEW k \in DelDia(claves', d), k \notin claves
      PROVE  \A j \in DelDia(claves, d) : ~Oculta(pet[w], j)
  <2>1. Ops(w, {"cuenta"}) /\ k = <<"numero", d, pet[w].numero>> /\ pet[w].dia = d
    <3>1. k \in claves' /\ k[1] = "numero" /\ k[2] = d
      BY DEF DelDia
    <3>2. QED
      BY <1>2, <1>3, <3>1
  <2>2. pet[w].numero = Recorta(Cardinality(Contadas(pet[w])) + 1)
    BY <1>1, <2>1 DEF Bien, Numerada, En
  <2>3. PICK n \in Nat :
          /\ DelDia(claves, d) = {<<"numero", d, i>> : i \in 1..n}
          /\ pet[w].numero \notin 1..n => \A j \in DelDia(claves, d) : ~Oculta(pet[w], j)
    BY <1>1, <2>1, <2>2, NumeroVisto
  <2>4. k \notin DelDia(claves, d)
    BY <1>3 DEF DelDia
  <2>5. pet[w].numero \notin 1..n
    BY <2>1, <2>3, <2>4
  <2>6. QED
    BY <2>3, <2>5
<1>4. ASSUME NEW d \in Nat, NEW j \in DelDia(claves', d), NEW k \in DelDia(claves', d),
             Politicas, duena'[j] # Nada, duena'[k] # Nada
      PROVE  duena'[j] = duena'[k]
  <2>1. j \in claves' /\ k \in claves' /\ j[1] = "numero" /\ j[2] = d
        /\ k[1] = "numero" /\ k[2] = d
    BY DEF DelDia
  <2>2. CASE j \in claves /\ k \in claves
    <3>1. j \in DelDia(claves, d) /\ k \in DelDia(claves, d)
      BY <2>1, <2>2 DEF DelDia
    <3>2. QED
      BY <1>1, <1>4, <2>1, <2>2, <3>1 DEF IInv, DiaDeUna
  <2>3. CASE j \in claves /\ k \notin claves
    <3>1. ~Oculta(pet[w], j)
      BY <1>3, <2>1, <2>3 DEF DelDia
    <3>2. QED
      BY <1>1, <1>4, <2>1, <2>3, <3>1 DEF Oculta
  <2>4. CASE j \notin claves /\ k \in claves
    <3>1. ~Oculta(pet[w], k)
      BY <1>3, <2>1, <2>4 DEF DelDia
    <3>2. QED
      BY <1>1, <1>4, <2>1, <2>4, <3>1 DEF Oculta
  <2>5. CASE j \notin claves /\ k \notin claves
    BY <1>1, <2>1, <2>5
  <2>6. QED
    BY <2>2, <2>3, <2>4, <2>5
<1>5. QED
  BY <1>4 DEF DiaDeUna

\* What a COMMIT leaves in a row that is edited.
LEMMA EditadaTipo ==
    ASSUME IInv, NEW w \in Peticiones
    PROVE  Editada(pet[w]) \in [Campos -> Valores]
<1>1. pet[w] \in Peticion /\ filas[Fila(pet[w].op)] \in [Campos -> Valores]
  BY FilaTabla DEF IInv, Formas
<1>2. Nueva(pet[w]) \in [Campos -> Valores]
  BY <1>1 DEF Nueva, Peticion
<1>3. QED
  BY <1>1, <1>2 DEF Editada

\* A request whose reading nobody has made stale leaves what it does not give.
LEMMA EditadaSinSolape ==
    ASSUME IInv, NEW w \in Peticiones, En(w, "commit"), Ops(w, Ediciones), ~pet[w].rancio
    PROVE  LET f == filas[Fila(pet[w].op)]
           IN  /\ \A c \in Campos : pet[w].pide[c] = Nada => Editada(pet[w])[c] = f[c]
               /\ Ops(w, {"ampliar"}) => Editada(pet[w])["a"] > f["a"]
<1> DEFINE f == filas[Fila(pet[w].op)]
<1>1. pet[w] \in Peticion /\ Bien(w) /\ f \in [Campos -> Valores] /\ "a" \in Campos
  BY FilaTabla DEF IInv, Formas, Campos
<1>2. pet[w].leida = f /\ pet[w].copia = f
  BY <1>1 DEF Bien, Leida, En
<1>3. \A c \in Campos : pet[w].pide[c] = Nada => Editada(pet[w])[c] = f[c]
  BY <1>2 DEF Editada, Nueva
<1>4. Ops(w, {"ampliar"}) => pet[w].pide["a"] # Nada /\ pet[w].pide["a"] > f["a"]
  BY <1>1, <1>2 DEF Bien, Leida, En
<1>5. ASSUME Ops(w, {"ampliar"}) PROVE Editada(pet[w])["a"] > f["a"]
  <2>1. pet[w].pide["a"] \in Nat /\ f["a"] \in Nat
    BY <1>1, <1>4, <1>5, Numeros DEF Peticion, Valores
  <2>2. pet[w].pide["a"] # f["a"]
    BY <1>4, <1>5, <2>1
  <2>3. Editada(pet[w])["a"] = pet[w].pide["a"]
    BY <1>1, <1>2, <1>4, <1>5, <2>2 DEF Editada, Nueva
  <2>4. QED
    BY <1>4, <1>5, <2>3
<1>6. QED
  BY <1>3, <1>5

\* The request that commits.
LEMMA CommitPropio ==
    ASSUME IInv, NEW w \in Peticiones, Commit(w)
    PROVE  /\ pet'[w] \in Peticion /\ Bien(w)'
           /\ pet'[w].op = pet[w].op
<1>1. pet[w] \in Peticion /\ Bien(w) /\ En(w, "commit")
  BY DEF IInv, Formas, Commit
<1>2. pet'[w] = Asentada(w) /\ asentadas' = asentadas \cup {w} /\ Suelta(w)
  BY DEF Commit
<1>3. pet[w].choque = {}
  BY <1>1 DEF Bien, Chocada, En
<1>4. /\ Asentada(w) \in Peticion
      /\ Asentada(w).op = pet[w].op /\ Asentada(w).choque = {}
      /\ Asentada(w).paso \in {"fin", "anotar"}
  <2>1. CASE Ops(w, {"superadmin"})
    <3>1. Asentada(w) = Acabada(pet[w], Nada, {}) /\ {} \in SUBSET Clave
      BY <2>1 DEF Asentada
    <3>2. Acabada(pet[w], Nada, {}) \in Peticion
      BY <1>1, <3>1, AcabadaTipo
    <3>3. QED
      BY <3>1, <3>2 DEF Acabada, Libre
  <2>2. CASE ~Ops(w, {"superadmin"})
    BY <1>1, <1>3, <2>2 DEF Asentada, Peticion, Pasos
  <2>3. QED
    BY <2>1, <2>2
<1>5. Cerraduras(w)'
  <2>1. puestas'[w] = {} /\ (\A t \in Tablas : bloqueo'[t] # w) /\ cerrojo' # w
    BY <1>2, ConstantesRegistros DEF Suelta, IInv, Formas
  <2>2. QED
    BY <1>2, <1>4, <2>1 DEF Cerraduras, En, Ops
<1>6. /\ Chocada(w)' /\ Numerada(w)' /\ Buscada(w)' /\ Leida(w)' /\ Respondida(w)' /\ Camino(w)'
  BY <1>2, <1>4 DEF Chocada, Numerada, Buscada, Leida, Respondida, Camino, En, Ops
<1>7. QED
  BY <1>2, <1>4, <1>5, <1>6 DEF Bien

\* The others: what another request commits makes stale what it may have read.
LEMMA CommitAjeno ==
    ASSUME IInv, NEW w \in Peticiones, Commit(w), NEW v \in Peticiones, v # w
    PROVE  pet'[v] \in Peticion /\ Bien(v)'
<1> DEFINE r == pet[v].rancio \/ Toca(w, v)
           q == [pet[v] EXCEPT !.rancio = r]
<1>1. /\ pet[v] \in Peticion /\ Bien(v) /\ Bien(w) /\ En(w, "commit") /\ Suelta(w)
      /\ claves' = claves \cup puestas[w] /\ asentadas' = asentadas \cup {w}
      /\ \A k \in claves : duena'[k] = duena[k]
      /\ filas' = IF Ops(w, Ediciones) THEN [filas EXCEPT ![Fila(pet[w].op)] = Editada(pet[w])]
                  ELSE filas
  BY DEF IInv, Formas, Commit
<1>2. pet'[v] = q
  BY DEF Commit
<1>3. r \in BOOLEAN
  BY Zenon
<1> HIDE DEF r
<1>4. /\ q \in Peticion
      /\ q.op = pet[v].op /\ q.paso = pet[v].paso /\ q.dato = pet[v].dato /\ q.dia = pet[v].dia
      /\ q.numero = pet[v].numero /\ q.exacto = pet[v].exacto /\ q.choque = pet[v].choque
      /\ q.pide = pet[v].pide /\ q.leida = pet[v].leida /\ q.copia = pet[v].copia
      /\ q.resultado = pet[v].resultado /\ q.rancio = r /\ q.org = pet[v].org
  BY <1>1, <1>3 DEF Peticion
<1>5. r <=> pet[v].rancio \/ Toca(w, v)
  BY Zenon DEF r
<1> HIDE DEF q
<1>6. Claves(pet'[v]) = Claves(pet[v])
  BY <1>2, <1>4, ClavesIguales
<1>7. Cerraduras(v)'
  <2>1. puestas'[v] = puestas[v] /\ (\A t \in Tablas : bloqueo'[t] = v <=> bloqueo[t] = v)
        /\ (cerrojo' = v <=> cerrojo = v)
    BY <1>1, ConstantesRegistros DEF Suelta, IInv, Formas
  <2>2. QED
    BY <1>1, <1>2, <1>4, <1>6, <2>1, FilaTabla DEF Bien, Cerraduras, En, Ops
<1>8. Numerada(v)'
  <2> SUFFICES ASSUME Ops(v, {"cuenta"}), pet[v].paso \in {"insertar", "commit"}
               PROVE  pet[v].numero = Recorta(Cardinality(Contadas(pet[v]))' + 1)
    BY <1>2, <1>4 DEF Numerada, Ops, Contadas, Oculta
  <2>1. ~Ops(w, {"cuenta"})
    BY <1>1 DEF Bien, Cerraduras, En
  <2>2. DelDia(claves', pet[v].dia) = DelDia(claves, pet[v].dia)
    <3>1. pet[v].dia \in Nat
      BY <1>1 DEF Peticion
    <3>2. QED
      BY <1>1, <2>1, <3>1, CommitDelDia
  <2>3. Contadas(pet[v])' = Contadas(pet[v])
    <3>1. pet'[v].dia = pet[v].dia /\ pet'[v].org = pet[v].org
      BY <1>2, <1>4
    <3>2. DelDia(claves, pet[v].dia) \subseteq claves
      BY DEF DelDia
    <3>3. QED
      BY <1>1, <2>2, <3>1, <3>2 DEF Contadas, Oculta
  <2>4. QED
    BY <1>1, <2>3 DEF Bien, Numerada
<1>9. Buscada(v)'
  <2>1. ~r => ~pet[v].rancio /\ puestas[w] \cap Claves(pet[v]) = {}
    BY <1>5 DEF Toca
  <2>2. QED
    BY <1>1, <1>2, <1>4, <1>6, <2>1 DEF Bien, Buscada, En, Ops, Mira, Ajeno
<1>10. Chocada(v)'
  <2>1. ASSUME NEW k \in pet[v].choque PROVE Justo(v, k)'
    <3>1. k \in claves /\ Justo(v, k) /\ duena'[k] = duena[k]
      BY <1>1 DEF Bien, Chocada
    <3>2. CASE k[1] # "numero"
      BY <1>2, <1>4, <1>5, <3>1, <3>2 DEF Justo, Mira, Ops, Ajeno
    <3>3. CASE k[1] = "numero" /\ \E j \in DelDia(claves, k[2]) : Oculta(pet[v], j)
      <4>1. PICK j \in DelDia(claves, k[2]) : Oculta(pet[v], j)
        BY <3>3
      <4>2. j \in DelDia(claves', k[2]) /\ j \in claves
        BY <1>1 DEF DelDia
      <4>3. Oculta(pet[v], j)'
        BY <1>1, <1>2, <1>4, <4>1, <4>2 DEF Oculta
      <4>4. QED
        BY <3>3, <4>2, <4>3 DEF Justo
    <3>4. CASE k[1] = "numero" /\ Cardinality(DelDia(claves, k[2])) >= Tope - 1
      <4>1. k[2] \in Nat
        BY <1>1, <3>1, <3>4 DEF IInv, Formas, Clave, Indices
      <4>2. Cardinality(DelDia(claves, k[2])) <= Cardinality(DelDia(claves', k[2]))
        BY <1>1, <4>1, CommitDelDia
      <4>3. Cardinality(DelDia(claves, k[2])) \in Nat /\ Cardinality(DelDia(claves', k[2])) \in Nat
        <5>1. PICK n \in 0..(Tope - 1) :
                DelDia(claves', k[2]) = {<<"numero", k[2], i>> : i \in 1..n}
          BY <1>1, <4>1, CommitDelDia
        <5>2. n \in Nat
          BY Numeros
        <5>3. Cardinality(DelDia(claves', k[2])) = n
          BY <4>1, <5>1, <5>2, CuantosDelDia
        <5>4. \E m \in Nat : Cardinality(DelDia(claves, k[2])) = m
          BY <4>1, SiguienteDelDia
        <5>5. QED
          BY <5>2, <5>3, <5>4
      <4>4. Cardinality(DelDia(claves', k[2])) >= Tope - 1
        BY <3>4, <4>2, <4>3, Numeros
      <4>5. QED
        BY <3>4, <4>4 DEF Justo
    <3>5. QED
      BY <3>1, <3>2, <3>3, <3>4 DEF Justo
  <2>2. pet'[v].choque = pet[v].choque /\ pet'[v].paso = pet[v].paso
    BY <1>2, <1>4
  <2>3. QED
    BY <1>1, <2>1, <2>2 DEF Bien, Chocada, En
<1>11. Leida(v)'
  <2>1. ASSUME Ops(v, Ediciones), ~r
        PROVE  ~pet[v].rancio /\ filas'[Fila(pet[v].op)] = filas[Fila(pet[v].op)]
    <3>1. ~pet[v].rancio /\ ~Toca(w, v)
      BY <1>5, <2>1
    <3>2. \A t \in Tablas : bloqueo[t] = w => Fila(pet[v].op) # t
      BY <2>1, <3>1 DEF Toca
    <3>3. Ops(w, Ediciones) => Fila(pet[v].op) # Fila(pet[w].op)
      BY <1>1, <3>2, FilaTabla DEF Bien, Cerraduras
    <3>4. QED
      BY <1>1, <3>1, <3>3, FilaTabla DEF IInv, Formas
  <2>2. QED
    BY <1>1, <1>2, <1>4, <2>1 DEF Bien, Leida, En, Ops
<1>12. Respondida(v)' /\ Camino(v)'
  BY <1>1, <1>2, <1>4 DEF Bien, Respondida, Camino, En, Ops
<1>13. QED
  BY <1>2, <1>4, <1>7, <1>8, <1>9, <1>10, <1>11, <1>12 DEF Bien

\* COMMIT: what the request held is given for all to see.
LEMMA PasoCommit ==
    ASSUME IInv, NEW w \in Peticiones, Commit(w)
    PROVE  IInv'
<1>1. pet[w] \in Peticion /\ Bien(w) /\ En(w, "commit") /\ claves' = claves \cup puestas[w]
  BY DEF IInv, Formas, Commit
<1>2. \A v \in Peticiones : pet'[v] \in Peticion /\ Bien(v)'
  BY CommitPropio, CommitAjeno
<1>3. Formas'
  <2>1. pet' \in [Peticiones -> Peticion]
    <3>1. pet' = [v \in Peticiones |-> pet'[v]]
      BY DEF Commit
    <3>2. QED
      BY <1>2, <3>1
  <2>2. filas' \in [Tablas -> [Campos -> Valores]]
    BY EditadaTipo, FilaTabla DEF Commit, IInv, Formas
  <2>3. duena' \in [claves' -> Organizaciones \cup {Nada}]
    <3>1. pet[w].org \in Organizaciones \cup {Nada}
      BY <1>1 DEF Peticion
    <3>2. QED
      BY <3>1 DEF Commit, IInv, Formas
  <2>4. claves' \subseteq Clave
    BY <1>1 DEF IInv, Formas
  <2>5. puestas' \in [Peticiones -> SUBSET Clave]
    BY DEF Commit, Suelta, IInv, Formas
  <2>6. bloqueo' \in [Tablas -> Peticiones \cup {Nada}] /\ cerrojo' \in Peticiones \cup {Nada}
    BY DEF Commit, Suelta, IInv, Formas
  <2>7. abiertas' = abiertas /\ hoy' = hoy
    BY DEF Commit
  <2>8. QED
    BY <2>1, <2>2, <2>3, <2>4, <2>5, <2>6, <2>7 DEF IInv, Formas
<1>4. DiaContiguo'
  BY <1>1, CommitDelDia DEF DiaContiguo
<1>5. RastroFiel'
  <2>1. bitacora' \subseteq bitacora \cup {<<"disparador", w>>} /\ asentadas' = asentadas \cup {w}
    BY DEF Commit, FilaDisparador
  <2>2. \A f \in bitacora : f[1] = "disparador" \/ f[3] = "exitoso" => f[2] \in asentadas
    BY DEF IInv, RastroFiel
  <2>3. <<"disparador", w>>[2] = w
    OBVIOUS
  <2>4. QED
    BY <2>1, <2>2, <2>3 DEF RastroFiel
<1>6. DiaDeUna'
  BY CommitDeUna
<1>7. QED
  BY <1>2, <1>3, <1>4, <1>5, <1>6 DEF IInv

----------------------------------------------------------------------------
(* Theorems *)

\* Every step keeps the invariant.
LEMMA NextInv == IInv /\ [Next]_vars => IInv'
<1> SUFFICES ASSUME IInv, [Next]_vars PROVE IInv'
  OBVIOUS
<1>1. CASE UNCHANGED vars
  BY <1>1, PasoReloj DEF vars, IInv, Formas
<1>2. CASE Medianoche
  <2>1. hoy' \in 1..MaxDia
    BY <1>2, Numeros DEF Medianoche, IInv, Formas
  <2>2. QED
    BY <1>2, <2>1, PasoReloj DEF Medianoche
<1>3. ASSUME NEW w \in Peticiones, Numerar(w) PROVE IInv'
  BY <1>3, PasoNumerarCuenta DEF Numerar
<1>4. QED
  BY <1>1, <1>2, <1>3, PasoEmpezar, PasoLeer, PasoReleer, PasoInsertar, PasoModificar,
     PasoCaducar, PasoCommit, PasoAnotar, PasoCaer DEF Next, Terminado

\* The invariant holds in every behaviour.
LEMMA Invariante == Spec => []IInv
BY InitInv, NextInv, PTL DEF Spec

\* The tables, the locks and the requests keep their types: a transaction holds keys, rows
\* and the lock of the numbers only while it is open, and no number outgrows its digits.
THEOREM Tipos == Spec => []TypeOK
<1>1. IInv => TypeOK
  <2> SUFFICES ASSUME IInv PROVE TypeOK
    OBVIOUS
  <2>1. \A w \in Peticiones : Bien(w) /\ pet[w] \in Peticion
    BY DEF IInv, Formas
  <2>2. ASSUME NEW k \in claves, k[1] = "numero" PROVE k[3] < Tope
    <3>1. k \in Clave
      BY DEF IInv, Formas
    <3>2. k[2] \in Nat /\ k \in DelDia(claves, k[2])
      BY <2>2, <3>1 DEF Clave, Indices, DelDia
    <3>3. PICK n \in 0..(Tope - 1) : DelDia(claves, k[2]) = {<<"numero", k[2], i>> : i \in 1..n}
      BY <3>2 DEF IInv, DiaContiguo
    <3>4. k[3] \in 1..n
      BY <3>2, <3>3
    <3>5. QED
      BY <3>4, Numeros
  <2>3. cerrojo # Nada => pet[cerrojo].paso \in {"insertar", "commit"}
    BY <2>1 DEF IInv, Formas, Bien, Cerraduras
  <2>4. \A t \in Tablas : bloqueo[t] # Nada => En(bloqueo[t], "commit")
    BY <2>1 DEF IInv, Formas, Bien, Cerraduras
  <2>5. \A w \in Peticiones :
          /\ pet[w].paso \in Pasos /\ pet[w].op \in Operaciones
          /\ pet[w].resultado \in {Nada, "exitoso", "fallido", "error"}
          /\ puestas[w] # {} => En(w, "commit")
    BY <2>1 DEF Bien, Cerraduras, Peticion
  <2>6. QED
    BY <2>2, <2>3, <2>4, <2>5 DEF TypeOK, IInv, Formas
<1>2. QED
  BY <1>1, Invariante, PTL

\* fn_generar_numero_cuenta: whatever creations overlap, an account is refused for its
\* number only when the numbers of the day are used up, or when the policy hides some of
\* them from its COUNT.
THEOREM NumerosSinChoque == Spec => []NumeroSinChoque
<1>1. IInv => NumeroSinChoque
  BY DEF IInv, Bien, Chocada, Justo, NumeroSinChoque
<1>2. QED
  BY <1>1, Invariante, PTL

\* The organizations that open accounts on one day are one at most, when each counts its own
\* under an index of them all.
THEOREM CuentasDeUna == Spec => []UnaOrganizacionAlDia
<1>1. IInv => UnaOrganizacionAlDia
  <2> SUFFICES ASSUME IInv, Politicas, NEW d \in 1..MaxDia
               PROVE  Cardinality({duena[k] : k \in DelDia(claves, d)} \ {Nada}) <= 1
    BY DEF UnaOrganizacionAlDia
  <2> DEFINE S == {duena[k] : k \in DelDia(claves, d)} \ {Nada}
  <2>1. d \in Nat
    BY Numeros
  <2>2. \A x, y \in S : x = y
    BY <2>1 DEF IInv, DiaDeUna
  <2> HIDE DEF S
  <2>3. CASE S = {}
    BY <2>3, FS_EmptySet DEF S
  <2>4. CASE S # {}
    <3>1. PICK x \in S : TRUE
      BY <2>4
    <3>2. S = {x}
      BY <2>2, <3>1
    <3>3. Cardinality({x}) = 1
      BY FS_Singleton
    <3>4. QED
      BY <3>2, <3>3 DEF S
  <2>5. QED
    BY <2>3, <2>4
<1>2. QED
  BY <1>1, Invariante, PTL

\* An error 500 for a key that the code looked for comes from a request that put the key
\* between the look and the INSERT, or from a row of another organization.
THEOREM ErrorDeCarrera == Spec => []ErrorSoloPorCarrera
<1>1. IInv => ErrorSoloPorCarrera
  BY DEF IInv, Bien, Chocada, Justo, Ajeno, ErrorSoloPorCarrera, Mira, Ops
<1>2. QED
  BY <1>1, Invariante, PTL

\* The audit log never tells of a success, nor of a change of a user or a role, that was
\* rolled back.
THEOREM RastroVerdadero == Spec => []RastroFiel
<1>1. IInv => RastroFiel
  BY DEF IInv
<1>2. QED
  BY <1>1, Invariante, PTL

\* An edit that no other overlapped keeps every field the request does not give, and makes
\* a range grow.
THEOREM EdicionSinSolape == Spec => SobrescrituraSoloPorSolape
<1> DEFINE Intacta == \A w \in asentadas' \ asentadas :
         pet[w].op \in Ediciones /\ ~pet[w].rancio =>
            LET t == Fila(pet[w].op)
            IN  /\ \A c \in Campos : pet[w].pide[c] = Nada => filas'[t][c] = filas[t][c]
                /\ t = "rango" => filas'[t]["a"] > filas[t]["a"]
<1>1. IInv /\ [Next]_vars => [Intacta]_vars
  <2> SUFFICES ASSUME IInv, Next, NEW w \in asentadas' \ asentadas, pet[w].op \in Ediciones,
                      ~pet[w].rancio
               PROVE  LET t == Fila(pet[w].op)
                      IN  /\ \A c \in Campos : pet[w].pide[c] = Nada => filas'[t][c] = filas[t][c]
                          /\ t = "rango" => filas'[t]["a"] > filas[t]["a"]
    OBVIOUS
  <2>1. PICK v \in Peticiones : Commit(v)
    <3>1. asentadas' # asentadas
      OBVIOUS
    <3>2. QED
      BY <3>1 DEF Next, Empezar, Leer, Releer, Numerar, Insertar, ChoqueUsuario, Falla,
         Modificar, Caducar, SinColumna, RolVedado, FallarCommit, Anotar, Caer, Medianoche, Terminado, SoloPet, vars
  <2>2. v = w
    BY <2>1 DEF Commit
  <2>3. En(w, "commit") /\ Ops(w, Ediciones) /\ w \in Peticiones
    BY <2>1, <2>2 DEF Commit, Ops
  <2>4. filas'[Fila(pet[w].op)] = Editada(pet[w])
    BY <2>1, <2>2, <2>3, FilaTabla DEF Commit, IInv, Formas
  <2>5. Fila(pet[w].op) = "rango" => Ops(w, {"ampliar"})
    BY DEF Fila, Ops
  <2>6. QED
    BY <2>3, <2>4, <2>5, EditadaSinSolape
<1>2. QED
  BY <1>1, Invariante, PTL DEF Spec, SobrescrituraSoloPorSolape
=============================================================================
