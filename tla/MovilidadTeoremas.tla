------------------------- MODULE MovilidadTeoremas -------------------------
(* What Movilidad guarantees for any number of accounts, processes, novedades
   and concurrent requests. *)
EXTENDS Movilidad, TLAPS

\* The triggers turn rows into rows.
LEMMA TriggersTipo ==
    ASSUME NEW p, NEW vieja \in Fila, NEW nueva \in Fila
    PROVE  TriggersUpdate(p, vieja, nueva) \in Fila
BY DEF TriggersUpdate, Fila

\* The row an INSERT leaves is a row.
LEMMA FilaNuevaTipo ==
    ASSUME NEW p
    PROVE  FilaNueva(p) \in Fila
<1> DEFINE b == p \in Radicaciones
           r == [FilaAusente EXCEPT !.estado = "sin_asignar", !.vence = b]
<1>1. b \in BOOLEAN
  OBVIOUS
<1>2. FilaNueva(p) = r
  BY DEF FilaNueva
<1> HIDE DEF b
<1>3. r \in Fila
  BY <1>1 DEF FilaAusente, Fila, Estados, EstadoTraslado
<1>4. QED
  BY <1>2, <1>3

\* The row an UPDATE leaves is a row.
LEMMA FilaEscritaTipo ==
    ASSUME TypeOK, NEW w \in Peticiones, pet[w].proc \in Procesos,
           pet[w].nuevo \in Estados
    PROVE  FilaEscrita(w) \in Fila
<1> DEFINE p == pet[w].proc
           e == IF pet[w].img.estado # pet[w].nuevo THEN pet[w].nuevo
                                                   ELSE fila[p].estado
           g == IF pet[w].img.guia # pet[w].guia THEN pet[w].guia ELSE fila[p].guia
           s == IF e \in Completados THEN pet[w].inicio ELSE 0
           nueva == [fila[p] EXCEPT !.estado = e, !.guia = g, !.sello = s]
<1>1. pet[w] \in Peticion /\ fila[p] \in Fila
  BY DEF TypeOK
<1>2. e \in Estados \cup {"ausente"} /\ g \in BOOLEAN /\ s \in Nat
  BY <1>1 DEF Peticion, Fila
<1>3. nueva \in Fila
  BY <1>1, <1>2 DEF Fila
<1>4. FilaEscrita(w) = TriggersUpdate(p, fila[p], nueva)
  BY DEF FilaEscrita
<1> HIDE DEF p, nueva
<1>5. QED
  BY <1>1, <1>3, <1>4, TriggersTipo

----------------------------------------------------------------------------
(* Shape of a request: which operation is at which step, and about which rows.
   It is what makes the type invariant inductive. *)

PasosCrear == {"activo", "aprobado", "ultimo", "otro_ultimo", "insertar"}
PasosCambio == {"leer", "recargar", "escribir"}
PasosResolver == {"escribir_novedad", "pendientes", "revertir"}
OpsCrear == {"crear_traslado", "crear_radicacion"}
OpsCambio == {"cambiar_estado", "crear_novedad", "resolver_novedad"}

FormaPeticion(q) ==
    /\ q.paso = "libre" => q = PeticionLibre
    /\ q.paso # "libre" => q.op # "ninguna"
    /\ q.paso \in PasosCrear => q.op \in OpsCrear
    /\ q.paso \in PasosCambio => q.op \in OpsCambio /\ q.nuevo \in Estados
    /\ q.paso = "leer_proceso" => q.op = "crear_novedad"
    /\ q.paso \in PasosResolver \cup {"leer_novedad"} => q.op = "resolver_novedad"
    /\ q.op \in OpsCrear => q.paso \in PasosCrear \cup {"commit"}
    /\ q.op # "ninguna" /\ q.paso # "leer_novedad" => q.proc \in Procesos
    /\ q.op \in {"crear_novedad", "resolver_novedad"} => q.nov \in Novedades

Forma == \A w \in Peticiones : FormaPeticion(pet[w])

\* A novedad row names its process, and only existing novedades are resolved.
NovedadesConProceso ==
    /\ \A n \in Novedades : nov[n].estado # "ausente" => nov[n].proc \in Procesos
    /\ \A w \in Peticiones : pet[w].op = "resolver_novedad" =>
          nov[pet[w].nov].estado # "ausente"

----------------------------------------------------------------------------
(* Type correctness *)

Tipo == TypeOK /\ Forma /\ NovedadesConProceso

\* Before the first request every row is absent and every slot is free.
LEMMA InitTipo == Init => Tipo
BY ConstantesMovilidad DEF Init, Tipo, TypeOK, Forma, NovedadesConProceso, FormaPeticion, Fila,
   FilaAusente, FilaNovedad, NovedadAusente, Peticion, PeticionLibre, Pasos,
   Operaciones, Estados, PasosCrear, PasosCambio, PasosResolver, OpsCrear,
   OpsCambio

\* Replacing the request of one slot by a well-formed one keeps the type.
LEMMA TipoAlCambiarPeticion ==
    ASSUME Tipo, NEW w \in Peticiones, NEW q \in Peticion, FormaPeticion(q),
           q.op = "resolver_novedad" => nov[q.nov].estado # "ausente",
           pet' = [pet EXCEPT ![w] = q], UNCHANGED <<fila, nov>>, reloj' \in Nat
    PROVE  Tipo'
<1>1. \A v \in Peticiones : pet'[v] = IF v = w THEN q ELSE pet[v]
  BY DEF Tipo, TypeOK
<1>2. pet' \in [Peticiones -> Peticion]
  BY <1>1 DEF Tipo, TypeOK
<1>3. TypeOK'
  BY <1>2 DEF Tipo, TypeOK
<1>4. Forma'
  BY <1>1 DEF Tipo, Forma, FormaPeticion
<1>5. NovedadesConProceso'
  BY <1>1 DEF Tipo, NovedadesConProceso
<1>6. QED
  BY <1>3, <1>4, <1>5 DEF Tipo

\* A request arrives.
LEMMA LlegarTipo ==
    ASSUME Tipo, NEW w \in Peticiones, Llegar(w)
    PROVE  Tipo'
<1> USE DEF Forma, FormaPeticion, Peticion, PeticionLibre, FilaAusente, Fila,
        Pasos, Operaciones, Estados, PasosCrear, PasosCambio, PasosResolver,
        OpsCrear, OpsCambio, Procesos
<1>1. ASSUME NEW p \in Traslados, PedirTraslado(w, p) PROVE Tipo'
  <2> DEFINE q == [PeticionLibre EXCEPT !.op = "crear_traslado",
                                        !.paso = "activo", !.proc = p]
  <2>1. q \in Peticion /\ FormaPeticion(q) /\ q.op # "resolver_novedad"
    OBVIOUS
  <2>2. pet' = [pet EXCEPT ![w] = q] /\ UNCHANGED <<fila, nov>> /\ reloj' \in Nat
    BY <1>1 DEF PedirTraslado, SinFilas, Tipo, TypeOK
  <2> HIDE DEF q, Peticion, FormaPeticion
  <2>3. QED
    BY <2>1, <2>2, TipoAlCambiarPeticion
<1>2. ASSUME NEW p \in Radicaciones, PedirRadicacion(w, p) PROVE Tipo'
  <2> DEFINE q == [PeticionLibre EXCEPT !.op = "crear_radicacion",
                                        !.paso = "activo", !.proc = p]
  <2>1. q \in Peticion /\ FormaPeticion(q) /\ q.op # "resolver_novedad"
    OBVIOUS
  <2>2. pet' = [pet EXCEPT ![w] = q] /\ UNCHANGED <<fila, nov>> /\ reloj' \in Nat
    BY <1>2 DEF PedirRadicacion, SinFilas, Tipo, TypeOK
  <2> HIDE DEF q, Peticion, FormaPeticion
  <2>3. QED
    BY <2>1, <2>2, TipoAlCambiarPeticion
<1>3. ASSUME NEW p \in Procesos, NEW e \in Estados, NEW g \in BOOLEAN,
             PedirCambio(w, p, e, g)
      PROVE  Tipo'
  <2> DEFINE i == IF e \in Completados THEN reloj' ELSE 0
             q == [PeticionLibre EXCEPT !.op = "cambiar_estado", !.paso = "leer",
                                        !.proc = p, !.nuevo = e, !.guia = g,
                                        !.inicio = i]
  <2>1. reloj' \in Nat /\ i \in Nat
    BY <1>3 DEF PedirCambio, Tipo, TypeOK
  <2>2. pet' = [pet EXCEPT ![w] = q] /\ UNCHANGED <<fila, nov>>
    BY <1>3 DEF PedirCambio
  <2> HIDE DEF i
  <2>3. q \in Peticion /\ FormaPeticion(q) /\ q.op # "resolver_novedad"
    BY <2>1
  <2> HIDE DEF q, Peticion, FormaPeticion
  <2>4. QED
    BY <2>1, <2>2, <2>3, TipoAlCambiarPeticion
<1>4. ASSUME NEW n \in Novedades, NEW p \in Procesos, PedirNovedad(w, n, p)
      PROVE  Tipo'
  <2> DEFINE q == [PeticionLibre EXCEPT !.op = "crear_novedad",
                                 !.paso = "leer_proceso", !.proc = p, !.nov = n]
  <2>1. q \in Peticion /\ FormaPeticion(q) /\ q.op # "resolver_novedad"
    OBVIOUS
  <2>2. pet' = [pet EXCEPT ![w] = q] /\ UNCHANGED <<fila, nov>> /\ reloj' \in Nat
    BY <1>4 DEF PedirNovedad, SinFilas, Tipo, TypeOK
  <2> HIDE DEF q, Peticion, FormaPeticion
  <2>3. QED
    BY <2>1, <2>2, TipoAlCambiarPeticion
<1>5. ASSUME NEW n \in Novedades, NEW a \in Actores, PedirResolver(w, n, a)
     PROVE Tipo'
  <2> DEFINE q == [PeticionLibre EXCEPT !.op = "resolver_novedad",
                                        !.paso = "leer_novedad", !.nov = n,
                                        !.actor = a]
  <2>1. q \in Peticion /\ FormaPeticion(q) /\ q.nov = n
    OBVIOUS
  <2>2. pet' = [pet EXCEPT ![w] = q] /\ UNCHANGED <<fila, nov>> /\ reloj' \in Nat
    BY <1>5 DEF PedirResolver, SinFilas, Tipo, TypeOK
  <2>3. nov[n].estado # "ausente"
    BY <1>5 DEF PedirResolver
  <2> HIDE DEF q, Peticion, FormaPeticion
  <2>4. QED
    BY <2>1, <2>2, <2>3, TipoAlCambiarPeticion
<1>6. QED
  BY <1>1, <1>2, <1>3, <1>4, <1>5 DEF Llegar

\* The statements of a request.
LEMMA AvanzarTipo ==
    ASSUME Tipo, NEW w \in Peticiones, Avanzar(w)
    PROVE  Tipo'
<1> DEFINE q == pet[w]
<1>1. q \in Peticion /\ FormaPeticion(q) /\ reloj \in Nat
  BY DEF Tipo, TypeOK, Forma
<1>2. \A r \in Peticion :
        /\ FormaPeticion(r)
        /\ r.op = "ninguna" \/ (r.op = q.op /\ r.nov = q.nov)
        /\ pet' = [pet EXCEPT ![w] = r] /\ SinFilas
        => Tipo'
  BY <1>1, TipoAlCambiarPeticion DEF SinFilas, Tipo, NovedadesConProceso
<1>3. /\ PeticionLibre \in Peticion /\ FormaPeticion(PeticionLibre)
      /\ PeticionLibre.op = "ninguna"
  BY DEF PeticionLibre, Peticion, FormaPeticion, FilaAusente, Fila, Pasos,
     Operaciones, PasosCrear, PasosCambio, PasosResolver, OpsCrear, OpsCambio
<1>4. ASSUME Terminar(w), SinFilas PROVE Tipo'
  <2>1. pet' = [pet EXCEPT ![w] = PeticionLibre]
    BY <1>4 DEF Terminar
  <2>2. QED
    BY <1>1, <1>3, <1>4, <2>1, TipoAlCambiarPeticion DEF SinFilas
<1>5. ASSUME NEW x \in Pasos, Ir(w, x), SinFilas,
             FormaPeticion([q EXCEPT !.paso = x])
      PROVE  Tipo'
  <2> DEFINE r == [q EXCEPT !.paso = x]
  <2>1. r \in Peticion /\ r.op = q.op /\ r.nov = q.nov
    BY <1>1 DEF Peticion
  <2>2. pet' = [pet EXCEPT ![w] = r]
    BY <1>5 DEF Ir
  <2> HIDE DEF r
  <2>3. QED
    BY <1>2, <1>5, <2>1, <2>2 DEF r
<1> USE DEF FormaPeticion, PasosCrear, PasosCambio, PasosResolver,
        OpsCrear, OpsCambio
<1>7. CASE ConsultarActivo(w)
  <2>1. \A x \in {"ultimo", "aprobado"} : FormaPeticion([q EXCEPT !.paso = x]) /\ x \in Pasos
    BY <1>1, <1>7 DEF ConsultarActivo, Peticion, Pasos
  <2>2. QED
    BY <1>4, <1>5, <1>7, <2>1 DEF ConsultarActivo
<1>8. CASE ConsultarAprobado(w)
  <2>1. FormaPeticion([q EXCEPT !.paso = "ultimo"]) /\ "ultimo" \in Pasos
    BY <1>1, <1>8 DEF ConsultarAprobado, Peticion, Pasos
  <2>2. QED
    BY <1>4, <1>5, <1>8, <2>1 DEF ConsultarAprobado
<1>9. CASE ConsultarUltimo(w)
  <2>1. FormaPeticion([q EXCEPT !.paso = "insertar"]) /\ "insertar" \in Pasos
    BY <1>1, <1>9 DEF ConsultarUltimo, Peticion, Pasos
  <2>2. ASSUME NEW p \in UltimosCompletados(CuentaPedida(w), MismaClase(w)),
               pet' = [pet EXCEPT ![w].leido = fila[p].sello,
                                  ![w].paso = "otro_ultimo"]
        PROVE  Tipo'
    <3> DEFINE r == [q EXCEPT !.leido = fila[p].sello, !.paso = "otro_ultimo"]
    <3>1. fila[p].sello \in Nat
      BY DEF UltimosCompletados, CompletadosDe, MismaClase, Tipo, TypeOK, Fila, Procesos
    <3>2. r \in Peticion /\ FormaPeticion(r) /\ r.op = q.op /\ r.nov = q.nov
      BY <1>1, <1>9, <3>1 DEF ConsultarUltimo, Peticion, Pasos
    <3>3. pet' = [pet EXCEPT ![w] = r]
      BY <2>2
    <3>4. QED
      BY <1>2, <1>9, <3>2, <3>3 DEF ConsultarUltimo
  <2>3. QED
    BY <1>5, <1>9, <2>1, <2>2 DEF ConsultarUltimo
<1>10. CASE ConsultarOtroUltimo(w)
  <2> DEFINE r == [q EXCEPT !.paso = "insertar", !.leido = 0]
  <2>1. r \in Peticion /\ FormaPeticion(r) /\ r.op = q.op /\ r.nov = q.nov
    BY <1>1, <1>10 DEF ConsultarOtroUltimo, Peticion, Pasos
  <2>2. Terminar(w) \/ pet' = [pet EXCEPT ![w] = r]
    BY <1>10 DEF ConsultarOtroUltimo
  <2>3. QED
    BY <1>2, <1>4, <1>10, <2>1, <2>2 DEF ConsultarOtroUltimo
<1>11. CASE Insertar(w)
  <2> DEFINE r == [q EXCEPT !.img = FilaNueva(pet[w].proc), !.paso = "commit"]
  <2>1. FilaNueva(pet[w].proc) \in Fila
    BY FilaNuevaTipo
  <2>2. r \in Peticion /\ FormaPeticion(r) /\ r.op = q.op /\ r.nov = q.nov
    BY <1>1, <1>11, <2>1 DEF Insertar, Peticion, Pasos
  <2>3. Terminar(w) \/ pet' = [pet EXCEPT ![w] = r]
    BY <1>11 DEF Insertar
  <2>4. QED
    BY <1>2, <1>4, <1>11, <2>2, <2>3 DEF Insertar
<1>12. CASE Leer(w)
  <2> DEFINE r == [q EXCEPT !.guia = GuiaEntidad(w), !.paso = "recargar"]
  <2>1. GuiaEntidad(w) \in BOOLEAN
    BY DEF GuiaEntidad
  <2>2. r \in Peticion /\ FormaPeticion(r) /\ r.op = q.op /\ r.nov = q.nov
    BY <1>1, <1>12, <2>1 DEF Leer, Peticion, Pasos
  <2>3. FormaPeticion([q EXCEPT !.paso = "commit"]) /\ "commit" \in Pasos
    BY <1>1, <1>12 DEF Leer, Peticion, Pasos
  <2>4. Terminar(w) \/ Ir(w, "commit") \/ pet' = [pet EXCEPT ![w] = r]
    BY <1>12 DEF Leer
  <2>5. QED
    BY <1>2, <1>4, <1>5, <1>12, <2>2, <2>3, <2>4 DEF Leer
<1>13. CASE Recargar(w)
  <2> DEFINE r == [q EXCEPT !.img = fila[pet[w].proc], !.paso = "escribir"]
  <2>1. fila[pet[w].proc] \in Fila
    BY <1>1, <1>13 DEF Recargar, Tipo, TypeOK
  <2>2. r \in Peticion /\ FormaPeticion(r) /\ r.op = q.op /\ r.nov = q.nov
    BY <1>1, <1>13, <2>1 DEF Recargar, Peticion, Pasos
  <2>3. pet' = [pet EXCEPT ![w] = r]
    BY <1>13 DEF Recargar
  <2>4. QED
    BY <1>2, <1>13, <2>2, <2>3 DEF Recargar
<1>14. CASE Escribir(w)
  <2> DEFINE r == [q EXCEPT !.img = FilaEscrita(w), !.paso = "commit"]
  <2>1. FilaEscrita(w) \in Fila
    BY <1>1, <1>14, FilaEscritaTipo DEF Escribir, Tipo
  <2>2. r \in Peticion /\ FormaPeticion(r) /\ r.op = q.op /\ r.nov = q.nov
    BY <1>1, <1>14, <2>1 DEF Escribir, Peticion, Pasos
  <2>3. pet' = [pet EXCEPT ![w] = r]
    BY <1>14 DEF Escribir
  <2>4. QED
    BY <1>2, <1>14, <2>2, <2>3 DEF Escribir
<1>15. CASE LeerProceso(w)
  <2> DEFINE r == [q EXCEPT !.nuevo = "con_novedades", !.paso = "leer"]
  <2>1. r \in Peticion /\ FormaPeticion(r) /\ r.op = q.op /\ r.nov = q.nov
    BY <1>1, <1>15 DEF LeerProceso, Peticion, Pasos, Estados, EstadoTraslado
  <2>2. Terminar(w) \/ pet' = [pet EXCEPT ![w] = r]
    BY <1>15 DEF LeerProceso
  <2>3. QED
    BY <1>2, <1>4, <1>15, <2>1, <2>2 DEF LeerProceso
<1>16. CASE LeerNovedad(w)
  <2> DEFINE r == [q EXCEPT !.proc = nov[pet[w].nov].proc, !.paso = "escribir_novedad"]
  <2>1. nov[q.nov].proc \in Procesos
    BY <1>1, <1>16 DEF LeerNovedad, Tipo, NovedadesConProceso
  <2>2. r \in Peticion /\ FormaPeticion(r) /\ r.op = q.op /\ r.nov = q.nov
    BY <1>1, <1>16, <2>1 DEF LeerNovedad, Peticion, Pasos
  <2>3. Terminar(w) \/ pet' = [pet EXCEPT ![w] = r]
    BY <1>16 DEF LeerNovedad
  <2>4. QED
    BY <1>2, <1>4, <1>16, <2>2, <2>3 DEF LeerNovedad
<1>17. CASE EscribirNovedad(w)
  <2>1. FormaPeticion([q EXCEPT !.paso = "pendientes"]) /\ "pendientes" \in Pasos
    BY <1>1, <1>17 DEF EscribirNovedad, Peticion, Pasos
  <2>2. QED
    BY <1>5, <1>17, <2>1 DEF EscribirNovedad
<1>18. CASE ConsultarPendientes(w)
  <2>1. \A x \in {"revertir", "commit"} : FormaPeticion([q EXCEPT !.paso = x]) /\ x \in Pasos
    BY <1>1, <1>18 DEF ConsultarPendientes, Peticion, Pasos
  <2>2. QED
    BY <1>5, <1>18, <2>1 DEF ConsultarPendientes
<1>19. CASE Revertir(w)
  <2> DEFINE r == [q EXCEPT !.nuevo = "revisado", !.paso = "leer"]
  <2>1. r \in Peticion /\ FormaPeticion(r) /\ r.op = q.op /\ r.nov = q.nov
    BY <1>1, <1>19 DEF Revertir, Peticion, Pasos, Estados, EstadoTraslado
  <2>2. FormaPeticion([q EXCEPT !.paso = "commit"]) /\ "commit" \in Pasos
    BY <1>1, <1>19 DEF Revertir, Peticion, Pasos
  <2>3. Ir(w, "commit") \/ pet' = [pet EXCEPT ![w] = r]
    BY <1>19 DEF Revertir
  <2>4. QED
    BY <1>2, <1>5, <1>19, <2>1, <2>2, <2>3 DEF Revertir
<1>20. CASE Commit(w)
  <2>1. fila' \in [Procesos -> Fila] /\ reloj' \in Nat
    BY <1>1, <1>20 DEF Commit, Tipo, TypeOK, Peticion
  <2>2. nov' \in [Novedades -> FilaNovedad]
    BY <1>1, <1>20 DEF Commit, NovedadesEscritas, Tipo, TypeOK, Peticion, FilaNovedad
  <2>3. pet' = [pet EXCEPT ![w] = PeticionLibre]
    BY <1>20 DEF Commit, Terminar
  <2>4. \A v \in Peticiones : pet'[v] \in Peticion /\ FormaPeticion(pet'[v])
    BY <2>3, <1>3 DEF Tipo, TypeOK, Forma
  <2>5. pet' \in [Peticiones -> Peticion]
    BY <2>3, <2>4 DEF Tipo, TypeOK
  <2>6. NovedadesConProceso'
    <3>1. \A v \in Peticiones : v # w => pet'[v] = pet[v]
      BY <2>3
    <3>2. pet'[w].op = "ninguna"
      BY <2>3 DEF PeticionLibre, Tipo, TypeOK
    <3>3. \A n \in Novedades : nov[n].estado # "ausente" => nov'[n].estado # "ausente"
      BY <1>20 DEF Commit, NovedadesEscritas, Tipo, TypeOK, FilaNovedad
    <3>4. \A n \in Novedades : nov'[n].estado # "ausente" => nov'[n].proc \in Procesos
      BY <1>1, <1>20 DEF Commit, NovedadesEscritas, Tipo, TypeOK, FilaNovedad,
                         NovedadesConProceso
    <3>5. QED
      BY <3>1, <3>2, <3>3, <3>4 DEF Tipo, NovedadesConProceso, Forma
  <2>7. QED
    BY <2>1, <2>2, <2>4, <2>5, <2>6 DEF Tipo, TypeOK, Forma
<1>21. QED
  BY <1>7, <1>8, <1>9, <1>10, <1>11, <1>12, <1>13, <1>14, <1>15, <1>16, <1>17,
     <1>18, <1>19, <1>20 DEF Avanzar

\* Every step, whole or failed, keeps the types and the shape of the requests.
LEMMA NextTipo == Tipo /\ [Next]_vars => Tipo'
<1> SUFFICES ASSUME Tipo, [Next]_vars PROVE Tipo'
  OBVIOUS
<1>1. CASE UNCHANGED vars
  BY <1>1 DEF vars, Tipo, TypeOK, Forma, NovedadesConProceso
<1>2. ASSUME NEW w \in Peticiones, Rollback(w) \/ EsperaAgotada(w) PROVE Tipo'
  <2>1. /\ PeticionLibre \in Peticion /\ FormaPeticion(PeticionLibre)
        /\ PeticionLibre.op = "ninguna"
    BY DEF PeticionLibre, Peticion, FormaPeticion, FilaAusente, Fila, Pasos,
       Operaciones, PasosCrear, PasosCambio, PasosResolver, OpsCrear, OpsCambio
  <2>2. QED
    BY <1>2, <2>1, TipoAlCambiarPeticion
       DEF Rollback, EsperaAgotada, Terminar, SinFilas, Tipo, TypeOK
<1>3. QED
  BY <1>1, <1>2, LlegarTipo, AvanzarTipo DEF Next

\* Rows and requests keep their type: no nested call leaves a field that the
\* next statement cannot use, and every request at a step belongs to an
\* operation that has that step.
THEOREM TipoCorrecto == Spec => []TypeOK
<1>1. Tipo => TypeOK
  BY DEF Tipo
<1>2. QED
  BY <1>1, InitTipo, NextTipo, PTL DEF Spec

----------------------------------------------------------------------------
(* What the requests in progress know of the rows they are about *)

\* Open requests and novedades are about rows that exist; the row of a process
\* to be created does not exist yet and belongs to that request alone.
ProcesosPedidos ==
    /\ \A n \in Novedades : nov[n].estado # "ausente" =>
          fila[nov[n].proc].estado # "ausente"
    /\ \A w \in Peticiones : pet[w].op \in OpsCrear =>
          /\ fila[pet[w].proc].estado = "ausente"
          /\ \A v \in Peticiones : v # w => pet[v].proc # pet[w].proc
    /\ \A w \in Peticiones :
          pet[w].op \in OpsCambio /\ pet[w].paso # "leer_novedad"
            => fila[pet[w].proc].estado # "ausente"

\* A request holds an image of its row only once it has loaded it.
Imagenes ==
    \A w \in Peticiones :
        /\ pet[w].paso \notin {"escribir", "commit"} => pet[w].img = FilaAusente
        /\ pet[w].paso = "escribir" => pet[w].img.estado # "ausente"

Escribe(w) == pet[w].paso = "commit" /\ pet[w].img.estado # "ausente"

\* The row lock: two open transactions never hold a write of the same row.
UnEscritor ==
    \A v, w \in Peticiones :
        Escribe(v) /\ Escribe(w) /\ pet[v].proc = pet[w].proc => v = w

Accesos == Tipo /\ ProcesosPedidos /\ Imagenes /\ UnEscritor

\* How a statement moves its request on: it touches nobody else's, and only a
\* commit touches the rows.
Solo(w) == \A v \in Peticiones : v # w => pet'[v] = pet[v]

Efecto(w) ==
    /\ Solo(w)
    /\ UNCHANGED <<fila, nov>>
    /\ \/ pet'[w] = PeticionLibre
       \/ /\ pet'[w].op = pet[w].op
          /\ \/ pet'[w].proc = pet[w].proc /\ pet[w].paso # "leer_novedad"
             \/ pet'[w].proc = nov[pet[w].nov].proc /\ LeerNovedad(w)
          /\ pet'[w].paso \notin {"libre", "leer_novedad", "activo"}
          /\ \/ pet'[w].img = pet[w].img /\ pet[w].paso \notin {"escribir", "commit"}
             \/ Insertar(w) \/ Recargar(w) \/ Escribir(w)
          /\ pet'[w].paso = "recargar" => Leer(w)
          /\ pet'[w].paso = "escribir" => Recargar(w)

\* What a statement other than COMMIT may change: its own request, and never the rows.
LEMMA AvanzarEfecto ==
    ASSUME Tipo, NEW w \in Peticiones, Avanzar(w), ~Commit(w)
    PROVE  Efecto(w)
<1> USE DEF Efecto, Solo, SinFilas, Terminar, Ir
<1>1. pet \in [Peticiones -> Peticion]
  BY DEF Tipo, TypeOK
<1>2. CASE ConsultarActivo(w)
  BY <1>1, <1>2 DEF ConsultarActivo, Peticion
<1>3. CASE ConsultarAprobado(w)
  BY <1>1, <1>3 DEF ConsultarAprobado, Peticion
<1>4. CASE ConsultarUltimo(w)
  <2>1. pet[w].paso = "ultimo" /\ UNCHANGED <<fila, nov>>
    BY <1>4 DEF ConsultarUltimo
  <2>2. CASE Ir(w, "insertar")
    BY <1>1, <2>1, <2>2 DEF Peticion
  <2>3. ASSUME NEW p, pet' = [pet EXCEPT ![w].leido = fila[p].sello,
                                         ![w].paso = "otro_ultimo"]
        PROVE  Efecto(w)
    BY <1>1, <2>1, <2>3 DEF Peticion
  <2>4. QED
    BY <1>4, <2>2, <2>3 DEF ConsultarUltimo
<1>5. CASE ConsultarOtroUltimo(w)
  BY <1>1, <1>5 DEF ConsultarOtroUltimo, Peticion
<1>6. CASE Insertar(w)
  BY <1>1, <1>6 DEF Insertar, Peticion
<1>7. CASE Leer(w)
  BY <1>1, <1>7 DEF Leer, Peticion
<1>8. CASE Recargar(w)
  BY <1>1, <1>8 DEF Recargar, Peticion
<1>9. CASE Escribir(w)
  BY <1>1, <1>9 DEF Escribir, Peticion
<1>10. CASE LeerProceso(w)
  BY <1>1, <1>10 DEF LeerProceso, Peticion
<1>11. CASE LeerNovedad(w)
  BY <1>1, <1>11 DEF LeerNovedad, Peticion
<1>12. CASE EscribirNovedad(w)
  BY <1>1, <1>12 DEF EscribirNovedad, Peticion
<1>13. CASE ConsultarPendientes(w)
  BY <1>1, <1>13 DEF ConsultarPendientes, Peticion
<1>14. CASE Revertir(w)
  BY <1>1, <1>14 DEF Revertir, Peticion
<1>15. QED
  BY <1>2, <1>3, <1>4, <1>5, <1>6, <1>7, <1>8, <1>9, <1>10, <1>11, <1>12, <1>13, <1>14 DEF Avanzar

\* A request that has just arrived has its row still to read.
Llegada(w) ==
    /\ Solo(w)
    /\ UNCHANGED <<fila, nov>>
    /\ pet[w].paso = "libre"
    /\ pet'[w].paso \in {"activo", "leer", "leer_proceso", "leer_novedad"}
    /\ pet'[w].img = FilaAusente
    /\ pet'[w].op = "crear_traslado" => pet'[w].proc \in Traslados
    /\ \/ pet'[w].op \in OpsCrear /\ IdNuevo(pet'[w].proc)
       \/ /\ pet'[w].op \in OpsCambio
          /\ \/ pet'[w].paso = "leer_novedad" /\ pet'[w].proc = Nada
             \/ fila[pet'[w].proc].estado # "ausente"

\* A request that arrives has read and written nothing yet.
LEMMA LlegarEfecto ==
    ASSUME Tipo, NEW w \in Peticiones, Llegar(w)
    PROVE  Llegada(w)
<1> USE DEF Llegada, Solo, SinFilas, PeticionLibre, OpsCrear, OpsCambio
<1>1. pet \in [Peticiones -> Peticion]
  BY DEF Tipo, TypeOK
<1>2. ASSUME NEW p \in Traslados, PedirTraslado(w, p) PROVE Llegada(w)
  BY <1>1, <1>2 DEF PedirTraslado
<1>3. ASSUME NEW p \in Radicaciones, PedirRadicacion(w, p) PROVE Llegada(w)
  BY <1>1, <1>3 DEF PedirRadicacion
<1>4. ASSUME NEW p, NEW e, NEW g, PedirCambio(w, p, e, g) PROVE Llegada(w)
  BY <1>1, <1>4 DEF PedirCambio
<1>5. ASSUME NEW n, NEW p, PedirNovedad(w, n, p) PROVE Llegada(w)
  BY <1>1, <1>5 DEF PedirNovedad
<1>6. ASSUME NEW n, NEW a, PedirResolver(w, n, a) PROVE Llegada(w)
  BY <1>1, <1>6 DEF PedirResolver
<1>7. QED
  BY <1>2, <1>3, <1>4, <1>5, <1>6 DEF Llegar

\* At the start no request is about a row.
LEMMA InitAccesos == Init => Accesos
<1> SUFFICES ASSUME Init PROVE Accesos
  OBVIOUS
<1>1. \A w \in Peticiones : pet[w] = PeticionLibre
  BY DEF Init
<1>2. \A n \in Novedades : nov[n].estado = "ausente"
  BY DEF Init, NovedadAusente
<1>3. \A w \in Peticiones : /\ pet[w].op = "ninguna" /\ pet[w].paso = "libre"
                            /\ pet[w].img = FilaAusente
  BY <1>1 DEF PeticionLibre
<1>4. QED
  BY <1>2, <1>3, InitTipo DEF Accesos, ProcesosPedidos, Imagenes, UnEscritor,
     Escribe, OpsCrear, OpsCambio

\* A commit adds to the rows and never removes one.
LEMMA CommitEfecto ==
    ASSUME Tipo, NEW w \in Peticiones, Commit(w)
    PROVE  /\ Solo(w)
           /\ pet'[w] = PeticionLibre
           /\ \A p \in Procesos :
                fila'[p] = IF Escribe(w) /\ pet[w].proc = p THEN pet[w].img ELSE fila[p]
           /\ \A n \in Novedades :
                nov'[n].estado # "ausente" =>
                  \/ nov'[n].proc = nov[n].proc /\ nov[n].estado # "ausente"
                  \/ nov'[n].proc = pet[w].proc /\ pet[w].op = "crear_novedad"
<1>1. pet \in [Peticiones -> Peticion] /\ fila \in [Procesos -> Fila]
      /\ nov \in [Novedades -> FilaNovedad] /\ FormaPeticion(pet[w])
  BY DEF Tipo, TypeOK, Forma
<1>2. Solo(w) /\ pet'[w] = PeticionLibre
  BY <1>1 DEF Commit, Terminar, Solo
<1>3. ASSUME NEW p \in Procesos
      PROVE fila'[p] = IF Escribe(w) /\ pet[w].proc = p THEN pet[w].img ELSE fila[p]
  BY <1>1 DEF Commit, Escribe
<1>4. ASSUME NEW n \in Novedades, nov'[n].estado # "ausente"
      PROVE  \/ nov'[n].proc = nov[n].proc /\ nov[n].estado # "ausente"
             \/ nov'[n].proc = pet[w].proc /\ pet[w].op = "crear_novedad"
  BY <1>1, <1>4 DEF Commit, NovedadesEscritas, FilaNovedad, Tipo, NovedadesConProceso
<1>5. QED
  BY <1>2, <1>3, <1>4

\* A step of a request that is over, refused or rolled back.
LEMMA FinAccesos ==
    ASSUME Accesos, NEW w \in Peticiones, Solo(w), UNCHANGED <<fila, nov>>,
           pet'[w] = PeticionLibre
    PROVE  ProcesosPedidos' /\ Imagenes' /\ UnEscritor'
<1>1. /\ pet'[w].op = "ninguna" /\ pet'[w].paso = "libre"
      /\ pet'[w].img = FilaAusente /\ pet'[w].proc = Nada
  BY DEF PeticionLibre
<1>2. \A v \in Peticiones : pet[v].op \in OpsCrear => pet[v].proc \in Procesos
  BY DEF Accesos, Tipo, Forma, FormaPeticion, OpsCrear
<1>3. ProcesosPedidos'
  BY <1>1, <1>2, ConstantesMovilidad
     DEF Accesos, ProcesosPedidos, Solo, OpsCrear, OpsCambio
<1>4. QED
  BY <1>1, <1>3 DEF Accesos, Imagenes, UnEscritor, Escribe, Solo

\* The identifier of a process to be created is new, so nobody else is about it.
LEMMA LlegarAccesos ==
    ASSUME Accesos, NEW w \in Peticiones, Llegar(w)
    PROVE  ProcesosPedidos' /\ Imagenes' /\ UnEscritor'
<1>1. Llegada(w)
  BY LlegarEfecto DEF Accesos
<1>2. \A v \in Peticiones : pet[v].op \in OpsCrear =>
         pet[v].proc \in Procesos /\ fila[pet[v].proc].estado = "ausente"
  BY DEF Accesos, Tipo, Forma, FormaPeticion, OpsCrear, ProcesosPedidos
<1>3. ProcesosPedidos'
  <2>1. ASSUME NEW v \in Peticiones, pet'[v].op \in OpsCrear
        PROVE  fila[pet'[v].proc].estado = "ausente"
    BY <1>1, <1>2, <2>1 DEF Llegada, Solo, IdNuevo, OpsCrear, OpsCambio
  <2>2. ASSUME NEW v \in Peticiones, pet'[v].op \in OpsCrear,
               NEW u \in Peticiones, u # v
        PROVE  pet'[u].proc # pet'[v].proc
    <3>1. CASE v = w
      BY <1>1, <2>2, <3>1 DEF Llegada, Solo, IdNuevo, OpsCrear, OpsCambio
    <3>2. CASE v # w /\ u = w
      <4>1. pet'[v] = pet[v]
        BY <1>1, <3>2 DEF Llegada, Solo
      <4>2. pet[v].proc \in Procesos /\ fila[pet[v].proc].estado = "ausente"
        BY <1>2, <2>2, <4>1
      <4>3. QED
        BY <1>1, <3>2, <4>1, <4>2, ConstantesMovilidad DEF Llegada, IdNuevo
    <3>3. CASE v # w /\ u # w
      BY <1>1, <2>2, <3>3 DEF Llegada, Solo, Accesos, ProcesosPedidos
    <3>4. QED
      BY <3>1, <3>2, <3>3
  <2>3. ASSUME NEW v \in Peticiones, pet'[v].op \in OpsCambio,
               pet'[v].paso # "leer_novedad"
        PROVE  fila[pet'[v].proc].estado # "ausente"
    BY <1>1, <2>3 DEF Llegada, Solo, Accesos, ProcesosPedidos, OpsCrear, OpsCambio
  <2>4. QED
    BY <1>1, <2>1, <2>2, <2>3 DEF Llegada, Accesos, ProcesosPedidos
<1>4. Imagenes' /\ UnEscritor'
  BY <1>1 DEF Llegada, Solo, Accesos, Imagenes, UnEscritor, Escribe
<1>5. QED
  BY <1>3, <1>4

\* A statement keeps the row locks exclusive: Escribir waits for the row to be free.
LEMMA AvanzarAccesos ==
    ASSUME Accesos, NEW w \in Peticiones, Avanzar(w), ~Commit(w)
    PROVE  ProcesosPedidos' /\ Imagenes' /\ UnEscritor'
<1>1. Efecto(w)
  BY AvanzarEfecto DEF Accesos
<1>2. /\ Solo(w) /\ UNCHANGED <<fila, nov>>
      /\ pet \in [Peticiones -> Peticion] /\ fila \in [Procesos -> Fila]
      /\ \A v \in Peticiones : FormaPeticion(pet[v])
  BY <1>1 DEF Efecto, Accesos, Tipo, TypeOK, Forma
<1>3. CASE pet'[w] = PeticionLibre
  BY <1>2, <1>3, FinAccesos
<1>4. CASE pet'[w] # PeticionLibre
  <2>1. /\ pet'[w].op = pet[w].op
        /\ \/ pet'[w].proc = pet[w].proc /\ pet[w].paso # "leer_novedad"
           \/ pet'[w].proc = nov[pet[w].nov].proc /\ LeerNovedad(w)
        /\ pet'[w].paso \notin {"libre", "leer_novedad", "activo"}
    BY <1>1, <1>4 DEF Efecto
  <2>2. pet[w].op \in OpsCrear => pet'[w].proc = pet[w].proc
    BY <1>2, <2>1 DEF LeerNovedad, FormaPeticion, OpsCrear
  <2>3. LeerNovedad(w) => fila[nov[pet[w].nov].proc].estado # "ausente"
    BY <1>2 DEF LeerNovedad, FormaPeticion, PasosResolver, Accesos, Tipo,
       NovedadesConProceso, ProcesosPedidos
  <2>4. ProcesosPedidos'
    <3>1. ASSUME NEW v \in Peticiones, pet'[v].op \in OpsCrear
          PROVE  /\ pet[v].op \in OpsCrear /\ pet'[v].proc = pet[v].proc
                 /\ fila[pet[v].proc].estado = "ausente"
                 /\ pet[v].proc \in Procesos
      BY <1>2, <2>1, <2>2, <3>1
         DEF Solo, Accesos, ProcesosPedidos, FormaPeticion, OpsCrear
    <3>2. ASSUME NEW v \in Peticiones, pet'[v].op \in OpsCrear,
                 NEW u \in Peticiones, u # v
          PROVE  pet'[u].proc # pet'[v].proc
      <4>1. pet[u].proc # pet[v].proc
        BY <3>1, <3>2 DEF Accesos, ProcesosPedidos
      <4>2. CASE pet'[u].proc = pet[u].proc
        BY <3>1, <3>2, <4>1, <4>2
      <4>3. CASE pet'[u].proc # pet[u].proc
        BY <1>2, <2>1, <2>3, <3>1, <3>2, <4>3 DEF Solo
      <4>4. QED
        BY <4>2, <4>3
    <3>3. ASSUME NEW v \in Peticiones, pet'[v].op \in OpsCambio,
                 pet'[v].paso # "leer_novedad"
          PROVE  fila[pet'[v].proc].estado # "ausente"
      BY <1>2, <2>1, <2>3, <3>3 DEF Solo, Accesos, ProcesosPedidos
    <3>4. QED
      BY <1>2, <3>1, <3>2, <3>3 DEF Accesos, ProcesosPedidos
  <2>5. \/ pet'[w].img = pet[w].img /\ pet[w].paso \notin {"escribir", "commit"}
        \/ Insertar(w) \/ Recargar(w) \/ Escribir(w)
    BY <1>1, <1>4 DEF Efecto
  <2>6. Insertar(w) => pet'[w].paso = "commit" /\ pet[w].op \in OpsCrear
    <3>1. ~Terminar(w)
      BY <1>2, <1>4 DEF Terminar
    <3>2. Insertar(w) => pet[w].paso = "insertar"
      BY DEF Insertar
    <3>3. pet[w].paso = "insertar" => pet[w].op \in OpsCrear
      BY <1>2 DEF FormaPeticion, PasosCrear
    <3>4. Insertar(w) => pet'[w].paso = "commit"
      <4>1. Insertar(w) => pet' = [pet EXCEPT ![w].img = FilaNueva(pet[w].proc),
                                              ![w].paso = "commit"]
        BY <3>1 DEF Insertar
      <4>2. QED
        BY <1>2, <4>1 DEF Peticion
    <3>5. QED
      BY <3>2, <3>3, <3>4
  <2>7. Recargar(w) => /\ pet'[w].paso = "escribir"
                       /\ pet'[w].img = fila[pet[w].proc]
                       /\ fila[pet[w].proc].estado # "ausente"
    BY <1>2 DEF Recargar, FormaPeticion, PasosCambio, Accesos, ProcesosPedidos,
                OpsCambio
  <2>8. Escribir(w) => /\ pet'[w].paso = "commit"
                       /\ pet'[w].proc = pet[w].proc
                       /\ ~FilaBloqueada(w, pet[w].proc)
    BY <1>2 DEF Escribir
  <2>9. Imagenes'
    BY <1>1, <1>2, <1>4, <2>5, <2>6, <2>7, <2>8
       DEF Efecto, Solo, Accesos, Imagenes, FilaAusente
  <2>10. ASSUME NEW v \in Peticiones, v # w, Escribe(v), Escribe(w)'
         PROVE  pet'[w].proc # pet[v].proc
    <3>1. CASE Insertar(w)
      BY <1>2, <2>1, <2>2, <2>6, <2>10, <3>1 DEF Accesos, ProcesosPedidos
    <3>2. CASE Escribir(w)
      BY <2>8, <2>10, <3>2 DEF FilaBloqueada, Escribe
    <3>3. CASE ~Insertar(w) /\ ~Escribir(w)
      BY <2>5, <2>7, <2>10, <3>3 DEF Escribe, Accesos, Imagenes, FilaAusente
    <3>4. QED
      BY <3>1, <3>2, <3>3
  <2>11. UnEscritor'
    <3>1. \A v \in Peticiones : v # w => (Escribe(v)' <=> Escribe(v))
      BY <1>2 DEF Solo, Escribe
    <3>2. QED
      BY <1>2, <2>10, <3>1 DEF Solo, Accesos, UnEscritor
  <2>12. QED
    BY <2>4, <2>9, <2>11
<1>5. QED
  BY <1>3, <1>4

\* A COMMIT publishes one row and gives its lock back.
LEMMA CommitAccesos ==
    ASSUME Accesos, NEW w \in Peticiones, Commit(w)
    PROVE  ProcesosPedidos' /\ Imagenes' /\ UnEscritor'
<1>1. /\ Solo(w) /\ pet'[w] = PeticionLibre
      /\ \A p \in Procesos :
           fila'[p] = IF Escribe(w) /\ pet[w].proc = p THEN pet[w].img ELSE fila[p]
      /\ \A n \in Novedades :
           nov'[n].estado # "ausente" =>
             \/ nov'[n].proc = nov[n].proc /\ nov[n].estado # "ausente"
             \/ nov'[n].proc = pet[w].proc /\ pet[w].op = "crear_novedad"
  BY CommitEfecto DEF Accesos
<1>2. /\ pet'[w].op = "ninguna" /\ pet'[w].paso = "libre"
      /\ pet'[w].img = FilaAusente /\ pet'[w].proc = Nada
  BY <1>1 DEF PeticionLibre
<1>3. /\ pet[w].paso = "commit" /\ FormaPeticion(pet[w])
      /\ \A v \in Peticiones : FormaPeticion(pet[v])
  BY DEF Commit, Accesos, Tipo, Forma
<1>4. \A p \in Procesos : fila[p].estado # "ausente" => fila'[p].estado # "ausente"
  BY <1>1 DEF Escribe
<1>5. ASSUME NEW n \in Novedades, nov'[n].estado # "ausente"
      PROVE  fila'[nov'[n].proc].estado # "ausente"
  <2>1. CASE nov'[n].proc = nov[n].proc /\ nov[n].estado # "ausente"
    BY <1>4, <2>1 DEF Accesos, ProcesosPedidos, Tipo, NovedadesConProceso
  <2>2. CASE nov'[n].proc = pet[w].proc /\ pet[w].op = "crear_novedad"
    BY <1>3, <1>4, <2>2 DEF Accesos, ProcesosPedidos, FormaPeticion, OpsCambio
  <2>3. QED
    BY <1>1, <1>5, <2>1, <2>2
<1>6. ASSUME NEW v \in Peticiones, pet'[v].op \in OpsCrear
      PROVE  /\ fila'[pet'[v].proc].estado = "ausente"
             /\ \A u \in Peticiones : u # v => pet'[u].proc # pet'[v].proc
  <2>1. v # w /\ pet'[v] = pet[v]
    BY <1>1, <1>2, <1>6 DEF Solo, OpsCrear
  <2>2. /\ pet[v].proc \in Procesos /\ fila[pet[v].proc].estado = "ausente"
        /\ \A u \in Peticiones : u # v => pet[u].proc # pet[v].proc
    BY <1>3, <1>6, <2>1 DEF Accesos, ProcesosPedidos, FormaPeticion, OpsCrear
  <2>3. QED
    BY <1>1, <1>2, <2>1, <2>2, ConstantesMovilidad DEF Solo
<1>7. ASSUME NEW v \in Peticiones, pet'[v].op \in OpsCambio,
             pet'[v].paso # "leer_novedad"
      PROVE  fila'[pet'[v].proc].estado # "ausente"
  <2>1. v # w /\ pet'[v] = pet[v]
    BY <1>1, <1>2, <1>7 DEF Solo, OpsCambio
  <2>2. pet[v].proc \in Procesos /\ fila[pet[v].proc].estado # "ausente"
    BY <1>3, <1>7, <2>1 DEF Accesos, ProcesosPedidos, FormaPeticion, OpsCambio
  <2>3. QED
    BY <1>4, <2>1, <2>2
<1>8. ProcesosPedidos'
  BY <1>5, <1>6, <1>7 DEF ProcesosPedidos
<1>9. Imagenes' /\ UnEscritor'
  BY <1>1, <1>2 DEF Solo, Accesos, Imagenes, UnEscritor, Escribe
<1>10. QED
  BY <1>8, <1>9

\* Every step keeps what the requests know of their rows.
LEMMA NextAccesos == Accesos /\ [Next]_vars => Accesos'
<1> SUFFICES ASSUME Accesos, [Next]_vars PROVE ProcesosPedidos' /\ Imagenes' /\ UnEscritor'
  BY NextTipo DEF Accesos
<1>1. CASE UNCHANGED vars
  BY <1>1 DEF vars, Accesos, ProcesosPedidos, Imagenes, UnEscritor, Escribe
<1>2. ASSUME NEW w \in Peticiones, Rollback(w) \/ EsperaAgotada(w)
      PROVE  ProcesosPedidos' /\ Imagenes' /\ UnEscritor'
  <2>1. UNCHANGED <<fila, nov>> /\ pet' = [pet EXCEPT ![w] = PeticionLibre]
    BY <1>2 DEF Rollback, EsperaAgotada, Terminar, SinFilas
  <2>2. Solo(w) /\ pet'[w] = PeticionLibre
    BY <2>1 DEF Solo, Accesos, Tipo, TypeOK
  <2>3. QED
    BY <2>1, <2>2, FinAccesos
<1>3. QED
  BY <1>1, <1>2, LlegarAccesos, AvanzarAccesos, CommitAccesos DEF Next

----------------------------------------------------------------------------
(* Deadlines: once set, a deadline is never lost, so an approved traslado that
   moves on keeps it *)

TrasAprobacion == {"enviado_organismo", "trasladado"}
ConPlazo == {"aprobado"} \cup TrasAprobacion

\* What a request is about to write keeps the deadline the row has, and gives
\* one to an approved traslado.
EscrituraConPlazo(w) ==
    /\ fila[pet[w].proc].vence => pet[w].img.vence
    /\ pet[w].proc \in Traslados /\ pet[w].img.estado \in ConPlazo
         => pet[w].img.vence

\* A request that found its traslado approved (or sent) found its deadline too.
CambioConPlazo(w) ==
    pet[w].proc \in Traslados /\ pet[w].nuevo \in TrasAprobacion
      => fila[pet[w].proc].vence

Vencimientos ==
    /\ AprobadoTieneVencimiento
    /\ \A p \in Procesos : fila[p].estado = "ausente" => ~fila[p].vence
    /\ \A w \in Peticiones : Escribe(w) => EscrituraConPlazo(w)
    /\ \A w \in Peticiones :
         pet[w].paso \in {"recargar", "escribir"} => CambioConPlazo(w)

\* The trigger never clears a deadline and sets it on approval.
LEMMA TriggersPlazo ==
    ASSUME NEW p, NEW vieja \in Fila, NEW nueva \in Fila
    PROVE  /\ TriggersUpdate(p, vieja, nueva).estado = nueva.estado
           /\ nueva.vence => TriggersUpdate(p, vieja, nueva).vence
           /\ p \in Traslados /\ nueva.estado = "aprobado" /\ vieja.estado # "aprobado"
                => TriggersUpdate(p, vieja, nueva).vence
BY DEF TriggersUpdate, Fila

\* The UPDATE of a traslado that ends in a late state leaves its deadline set.
LEMMA EscribirPlazo ==
    ASSUME Accesos, Vencimientos, NEW w \in Peticiones, Escribir(w)
    PROVE  EscrituraConPlazo(w)'
<1> DEFINE p == pet[w].proc
           e == IF pet[w].img.estado # pet[w].nuevo THEN pet[w].nuevo
                                                   ELSE fila[p].estado
           g == IF pet[w].img.guia # pet[w].guia THEN pet[w].guia ELSE fila[p].guia
           s == IF e \in Completados THEN pet[w].inicio ELSE 0
           nueva == [fila[p] EXCEPT !.estado = e, !.guia = g, !.sello = s]
<1>1. /\ pet \in [Peticiones -> Peticion] /\ fila \in [Procesos -> Fila]
      /\ p \in Procesos /\ pet[w].nuevo \in Estados /\ pet[w].paso = "escribir"
  BY DEF Accesos, Tipo, TypeOK, Forma, FormaPeticion, Escribir, PasosCambio,
     OpsCambio
<1>2. pet[w] \in Peticion /\ fila[p] \in Fila
  BY <1>1
<1>3. e \in Estados \cup {"ausente"} /\ g \in BOOLEAN /\ s \in Nat
  BY <1>2 DEF Peticion, Fila
<1>4. nueva \in Fila /\ (fila[p].vence => nueva.vence) /\ nueva.estado = e
  BY <1>2, <1>3 DEF Fila
<1>5. FilaEscrita(w) = TriggersUpdate(p, fila[p], nueva)
  BY DEF FilaEscrita
<1>6. fila' = fila /\ pet'[w].proc = p /\ pet'[w].img = FilaEscrita(w)
  BY <1>1 DEF Escribir, SinFilas, Peticion
<1>7. p \in Traslados /\ e \in ConPlazo
        => fila[p].vence \/ (e = "aprobado" /\ fila[p].estado # "aprobado")
  BY <1>1 DEF Vencimientos, AprobadoTieneVencimiento, CambioConPlazo, ConPlazo,
     TrasAprobacion
<1> HIDE DEF p, e, nueva
<1>8. /\ FilaEscrita(w).estado = e
      /\ fila[p].vence => FilaEscrita(w).vence
      /\ p \in Traslados /\ e = "aprobado" /\ fila[p].estado # "aprobado"
           => FilaEscrita(w).vence
  BY <1>2, <1>4, <1>5, TriggersPlazo
<1>9. p \in Traslados /\ FilaEscrita(w).estado \in ConPlazo => FilaEscrita(w).vence
  BY <1>7, <1>8
<1>10. QED
  BY <1>6, <1>8, <1>9 DEF EscrituraConPlazo

\* A request that stops, or has just arrived, knows nothing of deadlines.
LEMMA OtroPasoPlazo ==
    ASSUME Vencimientos, NEW w \in Peticiones, Solo(w), UNCHANGED <<fila, nov>>,
           ~Escribe(w)', pet'[w].paso \notin {"recargar", "escribir"}
    PROVE  Vencimientos'
<1>1. \A v \in Peticiones : v # w => pet'[v] = pet[v]
  BY DEF Solo
<1>2. AprobadoTieneVencimiento'
  BY DEF Vencimientos, AprobadoTieneVencimiento
<1>3. \A v \in Peticiones : Escribe(v)' => EscrituraConPlazo(v)'
  BY <1>1 DEF Vencimientos, Escribe, EscrituraConPlazo
<1>4. \A v \in Peticiones :
        pet'[v].paso \in {"recargar", "escribir"} => CambioConPlazo(v)'
  BY <1>1 DEF Vencimientos, CambioConPlazo
<1>5. QED
  BY <1>2, <1>3, <1>4 DEF Vencimientos

\* No statement loses a deadline that a later state needs.
LEMMA AvanzarPlazo ==
    ASSUME Accesos, Vencimientos, NEW w \in Peticiones, Avanzar(w), ~Commit(w)
    PROVE  Vencimientos'
<1>1. Efecto(w)
  BY AvanzarEfecto DEF Accesos
<1>2. /\ Solo(w) /\ UNCHANGED <<fila, nov>>
      /\ pet \in [Peticiones -> Peticion] /\ FormaPeticion(pet[w])
  BY <1>1 DEF Efecto, Accesos, Tipo, TypeOK, Forma
<1>3. \A v \in Peticiones : v # w => pet'[v] = pet[v]
  BY <1>2 DEF Solo
<1>4. Escribe(w)' => EscrituraConPlazo(w)'
  <2>1. CASE Insertar(w)
    <3>1. CASE Terminar(w)
      BY <1>2, <3>1 DEF Terminar, PeticionLibre, Escribe
    <3>2. CASE ~Terminar(w)
      <4>1. pet' = [pet EXCEPT ![w].img = FilaNueva(pet[w].proc), ![w].paso = "commit"]
        BY <2>1, <3>2 DEF Insertar
      <4>2. pet'[w].proc = pet[w].proc /\ pet'[w].img = FilaNueva(pet[w].proc)
        BY <1>2, <4>1 DEF Peticion
      <4>3. FilaNueva(pet[w].proc).estado = "sin_asignar"
        BY DEF FilaNueva, FilaAusente
      <4>4. ~fila[pet[w].proc].vence
        BY <1>2, <2>1 DEF Insertar, FormaPeticion, PasosCrear, OpsCrear, Accesos,
           ProcesosPedidos, Vencimientos
      <4>5. QED
        BY <1>2, <4>2, <4>3, <4>4 DEF EscrituraConPlazo, ConPlazo, TrasAprobacion
    <3>3. QED
      BY <3>1, <3>2
  <2>2. CASE Escribir(w)
    BY <2>2, EscribirPlazo
  <2>3. CASE ~Insertar(w) /\ ~Escribir(w)
    <3>1. ~Escribe(w)'
      <4>1. CASE pet'[w] = PeticionLibre
        BY <4>1 DEF PeticionLibre, Escribe
      <4>2. CASE Recargar(w)
        BY <1>2, <4>2 DEF Recargar, Escribe, Peticion
      <4>3. CASE pet'[w].img = pet[w].img /\ pet[w].paso \notin {"escribir", "commit"}
        BY <4>3 DEF Accesos, Imagenes, Escribe, FilaAusente
      <4>4. QED
        BY <1>1, <2>3, <4>1, <4>2, <4>3 DEF Efecto
    <3>2. QED
      BY <3>1
  <2>4. QED
    BY <2>1, <2>2, <2>3
<1>5. pet'[w].paso \in {"recargar", "escribir"} => CambioConPlazo(w)'
  <2>1. CASE Leer(w)
    <3>1. CASE Terminar(w) \/ Ir(w, "commit")
      BY <1>2, <3>1 DEF Terminar, Ir, PeticionLibre, Peticion
    <3>2. CASE ~(Terminar(w) \/ Ir(w, "commit"))
      <4>1. /\ CambioValido(w)
            /\ pet' = [pet EXCEPT ![w].guia = GuiaEntidad(w), ![w].paso = "recargar"]
            /\ pet[w].paso = "leer"
        BY <2>1, <3>2 DEF Leer
      <4>2. pet'[w].proc = pet[w].proc /\ pet'[w].nuevo = pet[w].nuevo
        BY <1>2, <4>1 DEF Peticion
      <4>3. pet[w].proc \in Traslados /\ pet[w].nuevo \in TrasAprobacion
              => fila[pet[w].proc].estado \in {"aprobado", "enviado_organismo"}
        BY <4>1 DEF CambioValido, Permitida, TRANSICIONES_TRASLADO, TrasAprobacion
      <4>4. QED
        BY <1>2, <4>2, <4>3 DEF CambioConPlazo, Vencimientos, AprobadoTieneVencimiento
    <3>3. QED
      BY <3>1, <3>2
  <2>2. CASE Recargar(w)
    <3>1. /\ pet[w].paso = "recargar" /\ pet'[w].proc = pet[w].proc
          /\ pet'[w].nuevo = pet[w].nuevo
      BY <1>2, <2>2 DEF Recargar, Peticion
    <3>2. QED
      BY <1>2, <3>1 DEF Vencimientos, CambioConPlazo
  <2>3. CASE ~Leer(w) /\ ~Recargar(w)
    BY <1>1, <2>3 DEF Efecto, PeticionLibre
  <2>4. QED
    BY <2>1, <2>2, <2>3
<1>6. QED
  <2>1. AprobadoTieneVencimiento'
    BY <1>2 DEF Vencimientos, AprobadoTieneVencimiento
  <2>2. \A v \in Peticiones : Escribe(v)' => EscrituraConPlazo(v)'
    BY <1>2, <1>3, <1>4 DEF Vencimientos, Escribe, EscrituraConPlazo
  <2>3. \A v \in Peticiones :
          pet'[v].paso \in {"recargar", "escribir"} => CambioConPlazo(v)'
    BY <1>2, <1>3, <1>5 DEF Vencimientos, CambioConPlazo
  <2>4. QED
    BY <1>2, <2>1, <2>2, <2>3 DEF Vencimientos

\* Committing a row never takes its deadline away.
LEMMA CommitPlazo ==
    ASSUME Accesos, Vencimientos, NEW w \in Peticiones, Commit(w)
    PROVE  /\ Vencimientos'
           /\ \A p \in Procesos : fila[p].vence => fila'[p].vence
<1>1. /\ Solo(w) /\ pet'[w] = PeticionLibre
      /\ \A p \in Procesos :
           fila'[p] = IF Escribe(w) /\ pet[w].proc = p THEN pet[w].img ELSE fila[p]
  BY CommitEfecto DEF Accesos
<1>2. /\ \A v \in Peticiones : v # w => pet'[v] = pet[v]
      /\ pet'[w].paso = "libre"
  BY <1>1 DEF Solo, PeticionLibre
<1>3. /\ \A v \in Peticiones : FormaPeticion(pet[v])
      /\ pet[w].paso = "commit"
  BY DEF Accesos, Tipo, Forma, Commit
<1>4. \A p \in Procesos : fila[p].vence => fila'[p].vence
  BY <1>1 DEF Vencimientos, EscrituraConPlazo
<1>5. AprobadoTieneVencimiento'
  <2> SUFFICES ASSUME NEW t \in Traslados, fila'[t].estado \in ConPlazo
               PROVE  fila'[t].vence
    BY DEF AprobadoTieneVencimiento, ConPlazo, TrasAprobacion
  <2>1. t \in Procesos
    BY DEF Procesos
  <2>2. CASE Escribe(w) /\ pet[w].proc = t
    BY <1>1, <2>1, <2>2 DEF Vencimientos, EscrituraConPlazo
  <2>3. CASE ~(Escribe(w) /\ pet[w].proc = t)
    BY <1>1, <2>1, <2>3 DEF Vencimientos, AprobadoTieneVencimiento, ConPlazo,
       TrasAprobacion
  <2>4. QED
    BY <2>2, <2>3
<1>6. ASSUME NEW p \in Procesos, fila'[p].estado = "ausente" PROVE ~fila'[p].vence
  BY <1>1, <1>6 DEF Vencimientos, Escribe
<1>7. ASSUME NEW v \in Peticiones, Escribe(v)' PROVE EscrituraConPlazo(v)'
  <2>1. v # w /\ pet'[v] = pet[v] /\ Escribe(v)
    BY <1>2, <1>7 DEF Escribe
  <2>2. pet[v].proc \in Procesos
    BY <1>3, <2>1 DEF Escribe, FormaPeticion
  <2>3. fila'[pet[v].proc] = fila[pet[v].proc]
    BY <1>1, <2>1, <2>2 DEF Accesos, UnEscritor
  <2>4. QED
    BY <2>1, <2>3 DEF Vencimientos, EscrituraConPlazo
<1>8. ASSUME NEW v \in Peticiones, pet'[v].paso \in {"recargar", "escribir"}
      PROVE  CambioConPlazo(v)'
  <2>1. v # w /\ pet'[v] = pet[v]
    BY <1>2, <1>8
  <2>2. pet[v].proc \in Procesos
    BY <1>3, <1>8, <2>1 DEF FormaPeticion, PasosCambio, OpsCambio
  <2>3. QED
    BY <1>4, <1>8, <2>1, <2>2 DEF Vencimientos, CambioConPlazo
<1>9. Vencimientos'
  BY <1>5, <1>6, <1>7, <1>8 DEF Vencimientos
<1>10. QED
  BY <1>4, <1>9

\* Every step keeps the deadlines.
LEMMA NextPlazo == Accesos /\ Vencimientos /\ [Next]_vars => Vencimientos'
<1> SUFFICES ASSUME Accesos, Vencimientos, [Next]_vars PROVE Vencimientos'
  OBVIOUS
<1>1. CASE UNCHANGED vars
  BY <1>1 DEF vars, Vencimientos, AprobadoTieneVencimiento, Escribe,
     EscrituraConPlazo, CambioConPlazo
<1>2. ASSUME NEW w \in Peticiones, Llegar(w) PROVE Vencimientos'
  <2>1. Llegada(w)
    BY <1>2, LlegarEfecto DEF Accesos
  <2>2. QED
    BY <2>1, OtroPasoPlazo DEF Llegada, Escribe
<1>3. ASSUME NEW w \in Peticiones, Rollback(w) \/ EsperaAgotada(w)
      PROVE  Vencimientos'
  <2>1. UNCHANGED <<fila, nov>> /\ pet' = [pet EXCEPT ![w] = PeticionLibre]
    BY <1>3 DEF Rollback, EsperaAgotada, Terminar, SinFilas
  <2>2. Solo(w) /\ pet'[w].paso = "libre"
    BY <2>1 DEF Solo, Accesos, Tipo, TypeOK, PeticionLibre
  <2>3. QED
    BY <2>1, <2>2, OtroPasoPlazo DEF Escribe
<1>4. QED
  BY <1>1, <1>2, <1>3, AvanzarPlazo, CommitPlazo DEF Next

\* Without processes there are no deadlines to keep.
LEMMA InitPlazo == Init => Vencimientos
<1> SUFFICES ASSUME Init PROVE Vencimientos
  OBVIOUS
<1>1. \A w \in Peticiones : pet[w].paso = "libre"
  BY DEF Init, PeticionLibre
<1>2. \A p \in Procesos : fila[p].estado = "ausente" /\ ~fila[p].vence
  BY DEF Init, FilaAusente
<1>3. QED
  BY <1>1, <1>2 DEF Vencimientos, AprobadoTieneVencimiento, Escribe, Procesos

\* However the updates of its row raced, a traslado that is approved, sent or
\* moved has its legal deadline.
THEOREM VencimientoGarantizado == Spec => []AprobadoTieneVencimiento
<1>1. Accesos /\ Vencimientos => AprobadoTieneVencimiento
  BY DEF Vencimientos
<1>2. QED
  BY <1>1, InitAccesos, InitPlazo, NextAccesos, NextPlazo, PTL DEF Spec

----------------------------------------------------------------------------
(* A radicacion follows an approved traslado of its account *)

HuboAprobacion(c) == \E t \in Traslados : CuentaDe[t] = c /\ fila[t].vence

PasosTrasAprobado == {"ultimo", "otro_ultimo", "insertar", "commit"}

\* Each kind of creation draws its identifier from its own table, and one of a
\* radicacion that got past its check has seen the approved traslado.
Aprobaciones ==
    /\ RadicacionTrasAprobacion
    /\ \A w \in Peticiones :
         /\ pet[w].op = "crear_traslado" => pet[w].proc \in Traslados
         /\ pet[w].op = "crear_radicacion" /\ pet[w].paso \in PasosTrasAprobado
              => HuboAprobacion(CuentaDe[pet[w].proc])

\* Deadlines only grow, so a past approval is never forgotten.
LEMMA NextPlazoCrece ==
    Accesos /\ Vencimientos /\ [Next]_vars
      => \A c : HuboAprobacion(c) => HuboAprobacion(c)'
<1> SUFFICES ASSUME Accesos, Vencimientos, [Next]_vars
             PROVE  \A p \in Procesos : fila[p].vence => fila'[p].vence
  BY DEF HuboAprobacion, Procesos
<1>1. CASE \E w \in Peticiones : Commit(w)
  BY <1>1, CommitPlazo
<1>2. CASE UNCHANGED fila
  BY <1>2
<1>3. (\E w \in Peticiones : Commit(w)) \/ UNCHANGED fila
  <2>1. CASE UNCHANGED vars
    BY <2>1 DEF vars
  <2>2. ASSUME NEW w \in Peticiones, Llegar(w) PROVE UNCHANGED fila
    BY <2>2, LlegarEfecto DEF Accesos, Llegada
  <2>3. ASSUME NEW w \in Peticiones, Avanzar(w), ~Commit(w) PROVE UNCHANGED fila
    BY <2>3, AvanzarEfecto DEF Accesos, Efecto
  <2>4. ASSUME NEW w \in Peticiones, Rollback(w) \/ EsperaAgotada(w)
        PROVE  UNCHANGED fila
    BY <2>4 DEF Rollback, EsperaAgotada, SinFilas
  <2>5. QED
    BY <2>1, <2>2, <2>3, <2>4 DEF Next
<1>4. QED
  BY <1>1, <1>2, <1>3

\* The part about the requests, when rows do not change.
LEMMA QuietoAprobacion ==
    ASSUME Aprobaciones, NEW w \in Peticiones, Solo(w), UNCHANGED <<fila, nov>>,
           pet'[w].op = "crear_traslado" => pet'[w].proc \in Traslados,
           pet'[w].op = "crear_radicacion" /\ pet'[w].paso \in PasosTrasAprobado
             => HuboAprobacion(CuentaDe[pet'[w].proc])
    PROVE  Aprobaciones'
BY DEF Aprobaciones, RadicacionTrasAprobacion, HuboAprobacion, Solo

\* A radicacion passes ConsultarAprobado only if the account has an approved traslado.
LEMMA AvanzarAprobacion ==
    ASSUME Accesos, Vencimientos, Aprobaciones, NEW w \in Peticiones, Avanzar(w),
           ~Commit(w)
    PROVE  Aprobaciones'
<1>1. Efecto(w)
  BY AvanzarEfecto DEF Accesos
<1>2. /\ Solo(w) /\ UNCHANGED <<fila, nov>>
      /\ pet \in [Peticiones -> Peticion] /\ FormaPeticion(pet[w])
  BY <1>1 DEF Efecto, Accesos, Tipo, TypeOK, Forma
<1>3. CASE pet'[w].op \notin OpsCrear
  BY <1>2, <1>3, QuietoAprobacion DEF OpsCrear
<1>4. CASE pet'[w].op \in OpsCrear
  <2>1. /\ pet'[w] # PeticionLibre /\ pet'[w].op = pet[w].op
        /\ pet[w].op \in OpsCrear /\ pet'[w].proc = pet[w].proc
        /\ pet[w].paso \in PasosCrear \cup {"commit"}
    BY <1>1, <1>2, <1>4 DEF Efecto, PeticionLibre, OpsCrear, FormaPeticion, LeerNovedad
  <2>2. CASE pet[w].paso \in PasosTrasAprobado
    BY <1>2, <2>1, <2>2, QuietoAprobacion DEF Aprobaciones
  <2>3. CASE ConsultarAprobado(w)
    <3>1. ~Terminar(w)
      BY <1>2, <2>1 DEF Terminar
    <3>2. \E t \in Traslados : /\ CuentaDe[t] = CuentaDe[pet[w].proc]
                               /\ fila[t].estado = "aprobado"
      BY <2>3, <3>1 DEF ConsultarAprobado, CuentaPedida
    <3>3. HuboAprobacion(CuentaDe[pet[w].proc])
      BY <3>2 DEF Vencimientos, AprobadoTieneVencimiento, HuboAprobacion
    <3>4. QED
      BY <1>2, <2>1, <3>3, QuietoAprobacion DEF Aprobaciones
  <2>4. CASE ConsultarActivo(w)
    <3>1. ~Terminar(w)
      BY <1>2, <2>1 DEF Terminar
    <3>2. pet[w].op = "crear_radicacion" => pet'[w].paso = "aprobado"
      BY <1>2, <2>4, <3>1 DEF ConsultarActivo, Ir, Peticion
    <3>3. QED
      BY <1>2, <2>1, <3>2, QuietoAprobacion DEF Aprobaciones, PasosTrasAprobado
  <2>5. pet[w].paso \in PasosTrasAprobado \/ ConsultarAprobado(w) \/ ConsultarActivo(w)
    BY <2>1 DEF Avanzar, PasosTrasAprobado, PasosCrear, Insertar, Leer, Recargar,
       Escribir, LeerProceso, LeerNovedad, EscribirNovedad, ConsultarPendientes,
       Revertir, Commit, ConsultarUltimo, ConsultarOtroUltimo
  <2>6. QED
    BY <2>2, <2>3, <2>4, <2>5
<1>5. QED
  BY <1>3, <1>4

\* Every step keeps the approval a radicacion rests on.
LEMMA NextAprobacion ==
    Accesos /\ Vencimientos /\ Aprobaciones /\ [Next]_vars => Aprobaciones'
<1> SUFFICES ASSUME Accesos, Vencimientos, Aprobaciones, [Next]_vars
             PROVE  Aprobaciones'
  OBVIOUS
<1>1. CASE UNCHANGED vars
  BY <1>1 DEF vars, Aprobaciones, RadicacionTrasAprobacion, HuboAprobacion
<1>2. ASSUME NEW w \in Peticiones, Llegar(w) PROVE Aprobaciones'
  <2>1. Llegada(w)
    BY <1>2, LlegarEfecto DEF Accesos
  <2>2. QED
    BY <2>1, QuietoAprobacion DEF Llegada, PasosTrasAprobado
<1>3. ASSUME NEW w \in Peticiones, Rollback(w) \/ EsperaAgotada(w)
      PROVE  Aprobaciones'
  <2>1. UNCHANGED <<fila, nov>> /\ pet' = [pet EXCEPT ![w] = PeticionLibre]
    BY <1>3 DEF Rollback, EsperaAgotada, Terminar, SinFilas
  <2>2. Solo(w) /\ pet'[w].op = "ninguna"
    BY <2>1 DEF Solo, Accesos, Tipo, TypeOK, PeticionLibre
  <2>3. QED
    BY <2>1, <2>2, QuietoAprobacion
<1>4. ASSUME NEW w \in Peticiones, Commit(w) PROVE Aprobaciones'
  <2>1. /\ Solo(w) /\ pet'[w] = PeticionLibre
        /\ \A p \in Procesos :
             fila'[p] = IF Escribe(w) /\ pet[w].proc = p THEN pet[w].img ELSE fila[p]
    BY <1>4, CommitEfecto DEF Accesos
  <2>2. \A v \in Peticiones : pet'[v] = pet[v] \/ pet'[v].op = "ninguna"
    BY <2>1 DEF Solo, PeticionLibre
  <2>3. \A c : HuboAprobacion(c) => HuboAprobacion(c)'
    BY NextPlazoCrece
  <2>4. ASSUME NEW r \in Radicaciones, fila'[r].estado # "ausente"
        PROVE  HuboAprobacion(CuentaDe[r])
    <3>1. r \in Procesos
      BY DEF Procesos
    <3>2. CASE fila[r].estado # "ausente"
      BY <3>2 DEF Aprobaciones, RadicacionTrasAprobacion, HuboAprobacion
    <3>3. CASE fila[r].estado = "ausente"
      <4>1. Escribe(w) /\ pet[w].proc = r
        BY <2>1, <2>4, <3>1, <3>3
      <4>2. pet[w].op \in OpsCrear
        BY <3>3, <4>1 DEF Escribe, Accesos, ProcesosPedidos, Tipo, Forma,
           FormaPeticion, TypeOK, Peticion, Operaciones, OpsCrear, OpsCambio
      <4>3. pet[w].op = "crear_radicacion"
        BY <4>1, <4>2, ConstantesMovilidad DEF Aprobaciones, OpsCrear
      <4>4. QED
        BY <4>1, <4>3 DEF Escribe, Aprobaciones, PasosTrasAprobado
    <3>4. QED
      BY <3>2, <3>3
  <2>5. RadicacionTrasAprobacion'
    BY <2>3, <2>4 DEF RadicacionTrasAprobacion, HuboAprobacion
  <2>6. ASSUME NEW v \in Peticiones
        PROVE  /\ pet'[v].op = "crear_traslado" => pet'[v].proc \in Traslados
               /\ pet'[v].op = "crear_radicacion" /\ pet'[v].paso \in PasosTrasAprobado
                    => \E t \in Traslados :
                         CuentaDe[t] = CuentaDe[pet'[v].proc] /\ fila'[t].vence
    <3>1. CASE pet'[v].op = "ninguna"
      BY <3>1
    <3>2. CASE pet'[v] = pet[v]
      BY <2>3, <3>2 DEF Aprobaciones, HuboAprobacion
    <3>3. QED
      BY <2>2, <3>1, <3>2
  <2>7. QED
    BY <2>5, <2>6 DEF Aprobaciones, HuboAprobacion
<1>5. QED
  BY <1>1, <1>2, <1>3, <1>4, AvanzarAprobacion DEF Next

\* Without radicaciones nothing has to have been approved.
LEMMA InitAprobacion == Init => Aprobaciones
<1> SUFFICES ASSUME Init PROVE Aprobaciones
  OBVIOUS
<1>1. \A w \in Peticiones : pet[w].op = "ninguna"
  BY DEF Init, PeticionLibre
<1>2. \A p \in Procesos : fila[p].estado = "ausente"
  BY DEF Init, FilaAusente
<1>3. QED
  BY <1>1, <1>2 DEF Aprobaciones, RadicacionTrasAprobacion, Procesos

\* A radicacion exists only in an account that had an approved traslado, even
\* when that traslado was changed between the check and the INSERT.
THEOREM RadicacionAutorizada == Spec => []RadicacionTrasAprobacion
<1>1. Accesos /\ Vencimientos /\ Aprobaciones => RadicacionTrasAprobacion
  BY DEF Aprobaciones
<1>2. QED
  BY <1>1, InitAccesos, InitPlazo, InitAprobacion, NextAccesos, NextPlazo,
     NextAprobacion, PTL DEF Spec

----------------------------------------------------------------------------
(* Requests that do not overlap *)

\* The account a request is about.
CuentaTratada(w) ==
    CuentaDe[IF pet[w].paso = "leer_novedad" THEN nov[pet[w].nov].proc ELSE pet[w].proc]

\* No two requests about one account are in progress at the same time; those about
\* different accounts may overlap in any way.
SinSolape ==
    \A v, w \in Peticiones :
        v # w /\ pet[v].paso # "libre" /\ pet[w].paso # "libre" =>
            CuentaTratada(v) # CuentaTratada(w)

\* A database that nobody is working on and that its history left consistent.
Historia ==
    /\ Tipo /\ UnProcesoActivo /\ CompletadoCoincide
    /\ \A n \in Novedades : nov[n].estado # "ausente" => fila[nov[n].proc].estado # "ausente"
    /\ \A w \in Peticiones : pet[w] = PeticionLibre

\* The requests about each account come one after another.
Sucesivas == Historia /\ [][Next]_vars /\ []SinSolape

\* What a request that creates a process has made sure of when it commits: nobody has
\* opened another one, for the trigger has seen only completed ones.
CreaConCuentaLibre(w) ==
    pet[w].op \in OpsCrear /\ pet[w].paso = "commit" =>
        /\ pet[w].img = FilaNueva(pet[w].proc)
        /\ \A q \in Procesos : CuentaDe[q] = CuentaDe[pet[w].proc] =>
             fila[q].estado \in Completados \cup {"ausente"}

\* The change a request is to make was allowed, and still is.
CambioVigente(w) ==
    /\ pet[w].paso \in {"recargar", "escribir"} =>
         Permitida(pet[w].proc, fila[pet[w].proc].estado, pet[w].nuevo)
    /\ pet[w].paso = "escribir" => pet[w].img = fila[pet[w].proc]
    /\ pet[w].op \in OpsCambio /\ Escribe(w) =>
         /\ Permitida(pet[w].proc, fila[pet[w].proc].estado, pet[w].img.estado)
         /\ pet[w].img.completado <=> pet[w].img.estado \in Completados

\* The novedad a request resolves is still pending, and if it was the last one the
\* process leaves con_novedades with it.
NovedadVigente(w) ==
    /\ pet[w].op = "crear_novedad" => nov[pet[w].nov].estado = "ausente"
    /\ pet[w].op = "resolver_novedad" /\ pet[w].paso # "leer_novedad" =>
         nov[pet[w].nov].estado = "pendiente" /\ nov[pet[w].nov].proc = pet[w].proc
    /\ pet[w].op = "resolver_novedad" /\ pet[w].paso \in PasosCambio =>
         pet[w].nuevo = "revisado"
    /\ pet[w].op = "resolver_novedad" /\ pet[w].paso = "leer" =>
         fila[pet[w].proc].estado = "con_novedades"
    /\ pet[w].op = "resolver_novedad" /\ pet[w].paso = "commit" /\ Pendientes(w) = {} =>
         "con_novedades" # IF Escribe(w) THEN pet[w].img.estado ELSE fila[pet[w].proc].estado

Vigente(w) == CreaConCuentaLibre(w) /\ CambioVigente(w) /\ NovedadVigente(w)

\* Two requests never create the same novedad.
NovedadesPropias ==
    \A v, w \in Peticiones :
        pet[v].op = "crear_novedad" /\ pet[w].op = "crear_novedad" /\ pet[v].nov = pet[w].nov
            => v = w

Orden ==
    /\ Accesos /\ UnProcesoActivo /\ CompletadoCoincide
    /\ \A w \in Peticiones : Vigente(w)
    /\ NovedadesPropias

\* The system before its first request is such a database.
LEMMA InitHistoria == Init => Historia
<1> SUFFICES ASSUME Init PROVE Historia
  OBVIOUS
<1>1. \A p \in Procesos : fila[p] = FilaAusente
  BY DEF Init
<1>2. \A n \in Novedades : nov[n].estado = "ausente"
  BY DEF Init, NovedadAusente
<1>3. UnProcesoActivo /\ CompletadoCoincide
  BY <1>1 DEF UnProcesoActivo, CompletadoCoincide, FilaAusente, Completados
<1>4. QED
  BY <1>2, <1>3, InitTipo DEF Init, Historia

\* A request that is over has nothing to keep.
LEMMA LibreVigente ==
    ASSUME NEW w \in Peticiones, pet[w] = PeticionLibre
    PROVE  Vigente(w)
BY DEF PeticionLibre, Vigente, CreaConCuentaLibre, CambioVigente, NovedadVigente, OpsCrear,
   OpsCambio, PasosCambio

\* The same after a step.
LEMMA LibreVigenteAhora ==
    ASSUME NEW w \in Peticiones, pet'[w] = PeticionLibre
    PROVE  Vigente(w)'
BY DEF PeticionLibre, Vigente, CreaConCuentaLibre, CambioVigente, NovedadVigente, OpsCrear,
   OpsCambio, PasosCambio

\* A request keeps what it has made sure of while the rows stay as they are.
LEMMA QuietaVigente ==
    ASSUME NEW w \in Peticiones, pet'[w] = pet[w], UNCHANGED <<fila, nov>>, Vigente(w)
    PROVE  Vigente(w)'
<1>1. Pendientes(w)' = Pendientes(w)
  BY DEF Pendientes
<1>2. QED
  BY <1>1 DEF Vigente, CreaConCuentaLibre, CambioVigente, NovedadVigente, Escribe

\* A consistent database and no requests: the order the proof starts from.
LEMMA HistoriaOrden == Historia => Orden
<1> SUFFICES ASSUME Historia PROVE Orden
  OBVIOUS
<1>1. \A w \in Peticiones : /\ pet[w] = PeticionLibre
                            /\ pet[w].op = "ninguna" /\ pet[w].paso = "libre"
                            /\ pet[w].img = FilaAusente
  <2>1. \A w \in Peticiones : pet[w] = PeticionLibre
    BY DEF Historia
  <2>2. /\ PeticionLibre.op = "ninguna" /\ PeticionLibre.paso = "libre"
        /\ PeticionLibre.img = FilaAusente
    BY DEF PeticionLibre
  <2>3. QED
    BY <2>1, <2>2
<1>2. ProcesosPedidos /\ Imagenes /\ UnEscritor
  BY <1>1 DEF Historia, ProcesosPedidos, Imagenes, UnEscritor, Escribe, OpsCrear, OpsCambio
<1>3. NovedadesPropias
  BY <1>1 DEF NovedadesPropias
<1>4. QED
  BY <1>1, <1>2, <1>3, LibreVigente DEF Historia, Orden, Accesos

\* A request that arrives: the novedad it brings is new.
LEMMA LlegarVigente ==
    ASSUME Orden, NEW w \in Peticiones, Llegar(w)
    PROVE  Vigente(w)'
<1>1. pet \in [Peticiones -> Peticion]
  BY DEF Orden, Accesos, Tipo, TypeOK
<1> USE DEF PeticionLibre, Vigente, CreaConCuentaLibre, CambioVigente, NovedadVigente, OpsCrear,
        OpsCambio, PasosCambio, Escribe, SinFilas
<1>2. ASSUME NEW p \in Traslados, PedirTraslado(w, p) PROVE Vigente(w)'
  BY <1>1, <1>2 DEF PedirTraslado
<1>3. ASSUME NEW p \in Radicaciones, PedirRadicacion(w, p) PROVE Vigente(w)'
  BY <1>1, <1>3 DEF PedirRadicacion
<1>4. ASSUME NEW p, NEW e, NEW g, PedirCambio(w, p, e, g) PROVE Vigente(w)'
  BY <1>1, <1>4 DEF PedirCambio
<1>5. ASSUME NEW n, NEW p, PedirNovedad(w, n, p) PROVE Vigente(w)'
  BY <1>1, <1>5 DEF PedirNovedad
<1>6. ASSUME NEW n, NEW a, PedirResolver(w, n, a) PROVE Vigente(w)'
  BY <1>1, <1>6 DEF PedirResolver
<1>7. QED
  BY <1>2, <1>3, <1>4, <1>5, <1>6 DEF Llegar

\* What an UPDATE leaves when the row has not changed since it was read.
LEMMA EscritaVigente ==
    ASSUME Orden, NEW w \in Peticiones, Escribir(w), pet[w].op \in OpsCambio
    PROVE  /\ FilaEscrita(w).estado = pet[w].nuevo /\ pet[w].nuevo \in Estados
           /\ FilaEscrita(w).completado <=> pet[w].nuevo \in Completados
           /\ Permitida(pet[w].proc, fila[pet[w].proc].estado, pet[w].nuevo)
<1> DEFINE p == pet[w].proc
           g == IF pet[w].img.guia # pet[w].guia THEN pet[w].guia ELSE fila[p].guia
           s == IF pet[w].nuevo \in Completados THEN pet[w].inicio ELSE 0
           r == [fila[p] EXCEPT !.estado = pet[w].nuevo, !.guia = g, !.sello = s]
<1>1. /\ pet[w].paso = "escribir" /\ pet[w].img = fila[p]
      /\ Permitida(p, fila[p].estado, pet[w].nuevo)
  BY DEF Escribir, Orden, Vigente, CambioVigente
<1>2. p \in Procesos /\ pet[w].nuevo \in Estados
  BY <1>1 DEF Orden, Accesos, Tipo, Forma, FormaPeticion, PasosCambio, OpsCambio
<1>3. fila[p] \in Fila
  BY <1>2 DEF Orden, Accesos, Tipo, TypeOK
<1>4. FilaEscrita(w) = TriggersUpdate(p, fila[p], r)
  BY <1>1 DEF FilaEscrita
<1>5. r.estado = pet[w].nuevo /\ r.completado = fila[p].completado
      /\ DOMAIN r = DOMAIN fila[p]
  BY <1>3 DEF Fila
<1>6. fila[p].estado \notin Completados
  BY <1>1 DEF Permitida, TRANSICIONES_TRASLADO, TRANSICIONES_RADICACION, Completados
<1>7. fila[p].completado = FALSE
  BY <1>2, <1>3, <1>6 DEF Orden, CompletadoCoincide, Fila
<1> HIDE DEF r
<1>8. r \in Fila
  BY <1>2, <1>3 DEF r, g, s, Fila, Orden, Accesos, Tipo, TypeOK, Peticion
<1>9. FilaEscrita(w).estado = r.estado
      /\ FilaEscrita(w).completado = (r.completado \/ r.estado \in Completados)
  BY <1>4, <1>8 DEF TriggersUpdate, Fila
<1>10. QED
  BY <1>1, <1>2, <1>5, <1>7, <1>9

\* A statement of a request keeps or makes sure of what its next one needs.
LEMMA AvanzarVigente ==
    ASSUME Orden, NEW w \in Peticiones, Avanzar(w), ~Commit(w)
    PROVE  Vigente(w)'
<1>1. /\ pet \in [Peticiones -> Peticion] /\ pet[w] \in Peticion /\ FormaPeticion(pet[w])
      /\ fila \in [Procesos -> Fila]
  BY DEF Orden, Accesos, Tipo, TypeOK, Forma
<1>2. Vigente(w) /\ UNCHANGED <<fila, nov>>
  BY AvanzarEfecto DEF Orden, Accesos, Efecto
<1>3. ASSUME Terminar(w) PROVE Vigente(w)'
  <2>1. pet'[w] = PeticionLibre
    BY <1>1, <1>3 DEF Terminar
  <2>2. QED
    BY <2>1, LibreVigenteAhora
<1> USE DEF Vigente, CreaConCuentaLibre, CambioVigente, NovedadVigente, OpsCrear, OpsCambio,
        PasosCambio, Escribe
<1>4. CASE pet[w].paso \in PasosCrear \ {"insertar"}
  <2>1. pet[w].op \in OpsCrear
    BY <1>1, <1>4 DEF FormaPeticion, PasosCrear
  <2>2. \/ Terminar(w)
        \/ /\ pet'[w].op = pet[w].op
           /\ pet'[w].paso \in PasosCrear
    <3>1. ConsultarActivo(w) \/ ConsultarAprobado(w) \/ ConsultarUltimo(w) \/ ConsultarOtroUltimo(w)
      BY <1>4 DEF PasosCrear, Avanzar, Insertar, Leer, Recargar, Escribir, LeerProceso, LeerNovedad,
         EscribirNovedad, ConsultarPendientes, Revertir, Commit
    <3>2. CASE ConsultarActivo(w)
      BY <1>1, <3>2 DEF ConsultarActivo, Ir, Peticion, PasosCrear
    <3>3. CASE ConsultarAprobado(w)
      BY <1>1, <3>3 DEF ConsultarAprobado, Ir, Peticion, PasosCrear
    <3>4. CASE ConsultarUltimo(w)
      <4>1. CASE Ir(w, "insertar")
        BY <1>1, <4>1 DEF Ir, Peticion, PasosCrear
      <4>2. ASSUME NEW p, pet' = [pet EXCEPT ![w].leido = fila[p].sello, ![w].paso = "otro_ultimo"]
            PROVE  pet'[w].op = pet[w].op /\ pet'[w].paso \in PasosCrear
        BY <1>1, <4>2 DEF Peticion, PasosCrear
      <4>3. QED
        BY <3>4, <4>1, <4>2 DEF ConsultarUltimo
    <3>5. CASE ConsultarOtroUltimo(w)
      BY <1>1, <3>5 DEF ConsultarOtroUltimo, Peticion, PasosCrear
    <3>6. QED
      BY <3>1, <3>2, <3>3, <3>4, <3>5
  <2>3. QED
    BY <1>3, <2>1, <2>2 DEF PasosCrear
<1>5. CASE Insertar(w)
  <2>1. CASE Terminar(w)
    BY <1>3, <2>1
  <2>2. CASE ~TriggerRechaza(CuentaPedida(w)) /\
             pet' = [pet EXCEPT ![w].img = FilaNueva(pet[w].proc), ![w].paso = "commit"]
    <3>1. /\ pet'[w].op = pet[w].op /\ pet'[w].proc = pet[w].proc /\ pet'[w].paso = "commit"
          /\ pet'[w].img = FilaNueva(pet[w].proc)
      BY <1>1, <2>2 DEF Peticion
    <3>2. pet[w].op \in OpsCrear
      BY <1>1, <1>5 DEF Insertar, FormaPeticion, PasosCrear
    <3>3. \A q \in Procesos : CuentaDe[q] = CuentaDe[pet[w].proc] =>
             fila[q].estado \in Completados \cup {"ausente"}
      BY <2>2 DEF TriggerRechaza, CuentaPedida, Completados
    <3>4. QED
      BY <1>2, <3>1, <3>2, <3>3
  <2>3. QED
    BY <1>5, <2>1, <2>2 DEF Insertar
<1>6. CASE Leer(w)
  <2>1. CASE CambioValido(w)
    <3>1. pet' = [pet EXCEPT ![w].guia = GuiaEntidad(w), ![w].paso = "recargar"]
      BY <1>6, <2>1 DEF Leer
    <3>2. /\ pet'[w].op = pet[w].op /\ pet'[w].proc = pet[w].proc /\ pet'[w].paso = "recargar"
          /\ pet'[w].nov = pet[w].nov /\ pet'[w].nuevo = pet[w].nuevo /\ pet[w].paso = "leer"
      BY <1>1, <1>6, <3>1 DEF Peticion, Leer
    <3>3. Permitida(pet[w].proc, fila[pet[w].proc].estado, pet[w].nuevo)
      BY <2>1 DEF CambioValido
    <3>4. Permitida(pet'[w].proc, fila'[pet'[w].proc].estado, pet'[w].nuevo)
      BY <1>2, <3>2, <3>3
    <3>5. CreaConCuentaLibre(w)' /\ CambioVigente(w)'
      BY <3>2, <3>4
    <3>6. NovedadVigente(w)'
      BY <1>2, <3>2
    <3>7. QED
      BY <3>5, <3>6
  <2>2. CASE ~CambioValido(w)
    <3>1. Terminar(w) \/ (pet[w].op # "cambiar_estado" /\ Ir(w, "commit"))
      BY <1>6, <2>2 DEF Leer
    <3>2. pet[w].paso = "leer" /\ pet[w].img.estado = "ausente" /\ pet[w].op \in OpsCambio
      BY <1>1, <1>6 DEF Leer, Orden, Accesos, Imagenes, FilaAusente, FormaPeticion
    <3>3. pet[w].op # "resolver_novedad"
      <4>1. SUFFICES ASSUME pet[w].op = "resolver_novedad" PROVE FALSE
        OBVIOUS
      <4>2. pet[w].nuevo = "revisado" /\ fila[pet[w].proc].estado = "con_novedades"
        BY <1>2, <3>2, <4>1
      <4>3. QED
        BY <2>2, <4>2 DEF CambioValido, Permitida, TRANSICIONES_TRASLADO, TRANSICIONES_RADICACION
    <3>4. ASSUME Ir(w, "commit") PROVE Vigente(w)'
      <4>1. /\ pet'[w].op = pet[w].op /\ pet'[w].img = pet[w].img /\ pet'[w].paso = "commit"
            /\ pet'[w].nov = pet[w].nov
        BY <1>1, <3>4 DEF Ir, Peticion
      <4>2. QED
        BY <1>2, <3>2, <3>3, <4>1
    <3>5. QED
      BY <1>3, <3>1, <3>4
  <2>3. QED
    BY <2>1, <2>2
<1>7. CASE Recargar(w)
  <2>1. /\ pet'[w].op = pet[w].op /\ pet'[w].proc = pet[w].proc /\ pet'[w].paso = "escribir"
        /\ pet'[w].nov = pet[w].nov /\ pet'[w].nuevo = pet[w].nuevo /\ pet[w].paso = "recargar"
        /\ pet'[w].img = fila[pet[w].proc]
    BY <1>1, <1>7 DEF Recargar, Peticion
  <2>2. CreaConCuentaLibre(w)'
    BY <2>1
  <2>3. CambioVigente(w)'
    BY <1>2, <2>1
  <2>4. NovedadVigente(w)'
    BY <1>2, <2>1
  <2>5. QED
    BY <2>2, <2>3, <2>4
<1>8. CASE Escribir(w)
  <2>1. /\ pet'[w].op = pet[w].op /\ pet'[w].proc = pet[w].proc /\ pet'[w].paso = "commit"
        /\ pet'[w].nov = pet[w].nov /\ pet[w].paso = "escribir" /\ pet'[w].img = FilaEscrita(w)
    BY <1>1, <1>8 DEF Escribir, Peticion
  <2>2. pet[w].op \in OpsCambio
    BY <1>1, <2>1 DEF FormaPeticion
  <2>3. /\ FilaEscrita(w).estado = pet[w].nuevo /\ pet[w].nuevo \in Estados
        /\ FilaEscrita(w).completado <=> pet[w].nuevo \in Completados
        /\ Permitida(pet[w].proc, fila[pet[w].proc].estado, pet[w].nuevo)
    BY <1>8, <2>2, EscritaVigente
  <2>4. CreaConCuentaLibre(w)'
    BY <2>1, <2>2
  <2>5. CambioVigente(w)'
    <3>1. Permitida(pet'[w].proc, fila'[pet'[w].proc].estado, pet'[w].img.estado)
      BY <1>2, <2>1, <2>3
    <3>2. QED
      BY <2>1, <2>3, <3>1
  <2>6. NovedadVigente(w)'
    <3>1. pet'[w].img.estado # "ausente"
      BY <2>1, <2>3 DEF Estados, EstadoTraslado, EstadoRadicacion
    <3>2. pet[w].op = "resolver_novedad" => pet'[w].img.estado = "revisado"
      BY <1>2, <2>1, <2>3
    <3>3. QED
      BY <1>2, <2>1, <3>1, <3>2
  <2>7. QED
    BY <2>4, <2>5, <2>6
<1>9. CASE LeerProceso(w)
  <2>1. pet[w].op = "crear_novedad"
    BY <1>1, <1>9 DEF LeerProceso, FormaPeticion
  <2>2. CASE Terminar(w)
    BY <1>3, <2>2
  <2>3. CASE pet' = [pet EXCEPT ![w].nuevo = "con_novedades", ![w].paso = "leer"]
    <3>1. pet'[w].op = pet[w].op /\ pet'[w].nov = pet[w].nov /\ pet'[w].paso = "leer"
      BY <1>1, <2>3 DEF Peticion
    <3>2. QED
      BY <1>2, <2>1, <3>1
  <2>4. QED
    BY <1>9, <2>2, <2>3 DEF LeerProceso
<1>10. CASE LeerNovedad(w)
  <2>1. pet[w].op = "resolver_novedad" /\ pet[w].nov \in Novedades
    BY <1>1, <1>10 DEF LeerNovedad, FormaPeticion
  <2>2. CASE Terminar(w)
    BY <1>3, <2>2
  <2>3. CASE nov[pet[w].nov].estado # "resuelta" /\
             pet' = [pet EXCEPT ![w].proc = nov[pet[w].nov].proc, ![w].paso = "escribir_novedad"]
    <3>1. /\ pet'[w].op = pet[w].op /\ pet'[w].nov = pet[w].nov
          /\ pet'[w].proc = nov[pet[w].nov].proc /\ pet'[w].paso = "escribir_novedad"
      BY <1>1, <2>3 DEF Peticion
    <3>2. nov[pet[w].nov].estado = "pendiente"
      BY <2>1, <2>3 DEF Orden, Accesos, Tipo, TypeOK, NovedadesConProceso, FilaNovedad
    <3>3. QED
      BY <1>2, <2>1, <3>1, <3>2
  <2>4. QED
    BY <1>10, <2>2, <2>3 DEF LeerNovedad
<1>11. CASE EscribirNovedad(w) \/ ConsultarPendientes(w) \/ Revertir(w)
  <2>1. /\ pet[w].op = "resolver_novedad" /\ pet[w].paso \in PasosResolver
        /\ pet[w].img = FilaAusente
    BY <1>1, <1>11 DEF EscribirNovedad, ConsultarPendientes, Revertir, FormaPeticion, PasosResolver,
       Orden, Accesos, Imagenes
  <2>2. nov[pet[w].nov].estado = "pendiente" /\ nov[pet[w].nov].proc = pet[w].proc
    BY <1>2, <2>1 DEF PasosResolver
  <2>3. /\ pet'[w].op = pet[w].op /\ pet'[w].nov = pet[w].nov /\ pet'[w].proc = pet[w].proc
        /\ pet'[w].img = FilaAusente /\ FilaAusente.estado = "ausente"
        /\ \/ pet'[w].paso \in {"pendientes", "revertir"}
           \/ pet'[w].paso = "commit" /\ Pendientes(w) # {}
           \/ pet'[w].paso = "commit" /\ fila[pet[w].proc].estado # "con_novedades"
           \/ /\ pet'[w].paso = "leer" /\ pet'[w].nuevo = "revisado"
              /\ fila[pet[w].proc].estado = "con_novedades"
    <3>1. CASE EscribirNovedad(w)
      BY <1>1, <2>1, <3>1 DEF EscribirNovedad, Ir, Peticion, FilaAusente
    <3>2. CASE ConsultarPendientes(w)
      BY <1>1, <2>1, <3>2 DEF ConsultarPendientes, Ir, Peticion, FilaAusente
    <3>3. CASE Revertir(w)
      <4>1. FilaAusente.estado = "ausente"
        BY DEF FilaAusente
      <4>2. CASE fila[pet[w].proc].estado = "con_novedades"
        <5>1. pet' = [pet EXCEPT ![w].nuevo = "revisado", ![w].paso = "leer"]
          BY <3>3, <4>2 DEF Revertir
        <5>2. /\ pet'[w].op = pet[w].op /\ pet'[w].nov = pet[w].nov /\ pet'[w].proc = pet[w].proc
              /\ pet'[w].img = pet[w].img /\ pet'[w].paso = "leer" /\ pet'[w].nuevo = "revisado"
          BY <1>1, <5>1 DEF Peticion
        <5>3. QED
          BY <2>1, <4>1, <4>2, <5>2
      <4>3. CASE fila[pet[w].proc].estado # "con_novedades"
        <5>1. pet' = [pet EXCEPT ![w].paso = "commit"]
          BY <3>3, <4>3 DEF Revertir, Ir
        <5>2. /\ pet'[w].op = pet[w].op /\ pet'[w].nov = pet[w].nov /\ pet'[w].proc = pet[w].proc
              /\ pet'[w].img = pet[w].img /\ pet'[w].paso = "commit"
          BY <1>1, <5>1 DEF Peticion
        <5>3. QED
          BY <2>1, <4>1, <4>3, <5>2
      <4>4. QED
        BY <4>2, <4>3
    <3>4. QED
      BY <1>11, <3>1, <3>2, <3>3
  <2>4. Pendientes(w)' = Pendientes(w)
    BY <1>2, <2>3 DEF Pendientes
  <2>5. QED
    BY <1>2, <2>1, <2>2, <2>3, <2>4
<1>12. QED
  BY <1>4, <1>5, <1>6, <1>7, <1>8, <1>9, <1>10, <1>11 DEF Avanzar, ConsultarActivo,
     ConsultarAprobado, ConsultarUltimo, ConsultarOtroUltimo, PasosCrear

\* A COMMIT that writes a row opens a process in an account with none open, or makes a
\* change its state machine allows.
LEMMA CommitPaso ==
    ASSUME Orden, NEW w \in Peticiones, Commit(w), Escribe(w)
    PROVE  /\ pet[w].proc \in Procesos /\ pet[w].img \in Fila
           /\ fila' = [fila EXCEPT ![pet[w].proc] = pet[w].img]
           /\ \/ /\ fila[pet[w].proc].estado = "ausente" /\ pet[w].img = FilaNueva(pet[w].proc)
                 /\ \A q \in Procesos : CuentaDe[q] = CuentaDe[pet[w].proc] =>
                      fila[q].estado \in Completados \cup {"ausente"}
              \/ /\ Permitida(pet[w].proc, fila[pet[w].proc].estado, pet[w].img.estado)
                 /\ pet[w].img.completado <=> pet[w].img.estado \in Completados
<1>1. pet[w].paso = "commit" /\ Vigente(w) /\ FormaPeticion(pet[w]) /\ pet[w] \in Peticion
  BY DEF Orden, Accesos, Tipo, TypeOK, Forma, Commit
<1>2. pet[w].op # "ninguna" /\ pet[w].proc \in Procesos /\ pet[w].img \in Fila
  BY <1>1 DEF FormaPeticion, Peticion
<1>3. fila' = [fila EXCEPT ![pet[w].proc] = pet[w].img]
  BY DEF Commit, Escribe
<1>4. pet[w].op \in OpsCrear \/ pet[w].op \in OpsCambio
  BY <1>1, <1>2 DEF Peticion, Operaciones, OpsCrear, OpsCambio
<1>5. CASE pet[w].op \in OpsCrear
  <2>1. fila[pet[w].proc].estado = "ausente"
    BY <1>5 DEF Orden, Accesos, ProcesosPedidos
  <2>2. QED
    BY <1>1, <1>2, <1>3, <1>5, <2>1 DEF Vigente, CreaConCuentaLibre
<1>6. CASE pet[w].op \in OpsCambio
  BY <1>1, <1>2, <1>3, <1>6 DEF Vigente, CambioVigente
<1>7. QED
  BY <1>4, <1>5, <1>6

\* A change of state starts from an open process.
LEMMA DesdeAbierto ==
    \A p, d, h : Permitida(p, d, h) =>
        d \notin Terminales \cup {"ausente"} /\ d \notin Completados /\ h \in Estados
BY DEF Permitida, TRANSICIONES_TRASLADO, TRANSICIONES_RADICACION, Terminales, Completados, Estados,
   EstadoTraslado, EstadoRadicacion

\* A request is about the novedad it arrived with until it ends.
LEMMA AvanzarNovedad ==
    ASSUME Tipo, NEW w \in Peticiones, Avanzar(w), ~Commit(w)
    PROVE  \/ pet'[w] = PeticionLibre
           \/ pet'[w].op = pet[w].op /\ pet'[w].nov = pet[w].nov
<1> USE DEF Terminar, Ir
<1>1. pet \in [Peticiones -> Peticion] /\ pet[w] \in Peticion
  BY DEF Tipo, TypeOK
<1>2. CASE ConsultarActivo(w) \/ ConsultarAprobado(w) \/ ConsultarOtroUltimo(w)
  BY <1>1, <1>2 DEF ConsultarActivo, ConsultarAprobado, ConsultarOtroUltimo, Peticion
<1>3. CASE ConsultarUltimo(w)
  <2>1. CASE Ir(w, "insertar")
    BY <1>1, <2>1 DEF Peticion
  <2>2. ASSUME NEW p, pet' = [pet EXCEPT ![w].leido = fila[p].sello, ![w].paso = "otro_ultimo"]
        PROVE  pet'[w].op = pet[w].op /\ pet'[w].nov = pet[w].nov
    BY <1>1, <2>2 DEF Peticion
  <2>3. QED
    BY <1>3, <2>1, <2>2 DEF ConsultarUltimo
<1>4. CASE Insertar(w) \/ Leer(w)
  BY <1>1, <1>4 DEF Insertar, Leer, Peticion
<1>5. CASE Recargar(w) \/ Escribir(w)
  BY <1>1, <1>5 DEF Recargar, Escribir, Peticion
<1>6. CASE LeerProceso(w) \/ LeerNovedad(w)
  BY <1>1, <1>6 DEF LeerProceso, LeerNovedad, Peticion
<1>7. CASE EscribirNovedad(w) \/ ConsultarPendientes(w) \/ Revertir(w)
  BY <1>1, <1>7 DEF EscribirNovedad, ConsultarPendientes, Revertir, Peticion
<1>8. QED
  BY <1>2, <1>3, <1>4, <1>5, <1>6, <1>7 DEF Avanzar

\* Whatever happens, a novedad is created by one request.
LEMMA NextNovedades ==
    ASSUME Tipo, NovedadesPropias, [Next]_vars
    PROVE  NovedadesPropias'
<1>1. pet \in [Peticiones -> Peticion]
  BY DEF Tipo, TypeOK
<1>2. ASSUME NEW w \in Peticiones, Solo(w),
             pet'[w].op = "crear_novedad" =>
                 \/ pet'[w].op = pet[w].op /\ pet'[w].nov = pet[w].nov
                 \/ \A v \in Peticiones : pet[v].nov # pet'[w].nov
      PROVE  NovedadesPropias'
  BY <1>2 DEF Solo, NovedadesPropias
<1>3. PeticionLibre.op = "ninguna"
  BY DEF PeticionLibre
<1>4. CASE UNCHANGED vars
  BY <1>4 DEF vars, NovedadesPropias
<1>5. ASSUME NEW w \in Peticiones, Llegar(w) PROVE NovedadesPropias'
  <2>1. ASSUME NEW n, NEW p, PedirNovedad(w, n, p)
        PROVE  pet'[w].nov = n /\ \A v \in Peticiones : pet[v].nov # n
    BY <1>1, <2>1 DEF PedirNovedad, PeticionLibre
  <2>2. ASSUME NEW p, PedirTraslado(w, p) \/ PedirRadicacion(w, p)
        PROVE  pet'[w].op # "crear_novedad"
    BY <1>1, <2>2 DEF PedirTraslado, PedirRadicacion, PeticionLibre
  <2>3. ASSUME NEW p, NEW e, NEW g, PedirCambio(w, p, e, g)
        PROVE  pet'[w].op # "crear_novedad"
    BY <1>1, <2>3 DEF PedirCambio, PeticionLibre
  <2>4. ASSUME NEW n, NEW a, PedirResolver(w, n, a)
        PROVE  pet'[w].op # "crear_novedad"
    BY <1>1, <2>4 DEF PedirResolver, PeticionLibre
  <2>5. Solo(w)
    BY <1>5, LlegarEfecto DEF Llegada
  <2>6. QED
    BY <1>2, <1>5, <2>1, <2>2, <2>3, <2>4, <2>5 DEF Llegar
<1>6. ASSUME NEW w \in Peticiones, Avanzar(w), ~Commit(w) PROVE NovedadesPropias'
  <2>1. Solo(w)
    BY <1>6, AvanzarEfecto DEF Efecto
  <2>2. QED
    BY <1>2, <1>3, <1>6, <2>1, AvanzarNovedad
<1>7. ASSUME NEW w \in Peticiones, Commit(w) \/ Rollback(w) \/ EsperaAgotada(w)
      PROVE  NovedadesPropias'
  <2>1. pet' = [pet EXCEPT ![w] = PeticionLibre]
    BY <1>7 DEF Commit, Rollback, EsperaAgotada, Terminar
  <2>2. Solo(w) /\ pet'[w] = PeticionLibre
    BY <1>1, <2>1 DEF Solo
  <2>3. QED
    BY <1>2, <1>3, <2>2
<1>8. QED
  BY <1>4, <1>5, <1>6, <1>7 DEF Next

\* A COMMIT takes nothing from the requests about other accounts.
LEMMA AjenaVigente ==
    ASSUME Orden, SinSolape, NEW w \in Peticiones, Commit(w),
           NEW v \in Peticiones, v # w, pet[v].paso # "libre"
    PROVE  Vigente(v)'
<1>1. /\ pet \in [Peticiones -> Peticion] /\ pet[w] \in Peticion /\ pet[v] \in Peticion
      /\ FormaPeticion(pet[w]) /\ FormaPeticion(pet[v]) /\ pet[w].paso = "commit"
      /\ nov \in [Novedades -> FilaNovedad]
  BY DEF Orden, Accesos, Tipo, TypeOK, Forma, Commit
<1>2. pet'[v] = pet[v] /\ Vigente(v) /\ Vigente(w)
  BY <1>1 DEF Commit, Terminar, Orden
<1>3. CASE pet[v].paso = "leer_novedad"
  BY <1>1, <1>2, <1>3 DEF Vigente, CreaConCuentaLibre, CambioVigente, NovedadVigente, Escribe,
     FormaPeticion, PasosCambio, PasosCrear, OpsCrear
<1>4. CASE pet[v].paso # "leer_novedad"
  <2> DEFINE p == pet[w].proc
             q == pet[v].proc
             m == pet[w].nov
  <2>1. p \in Procesos /\ q \in Procesos /\ CuentaDe[q] # CuentaDe[p]
    BY <1>1, <1>4 DEF SinSolape, CuentaTratada, FormaPeticion
  <2>2. \A r \in Procesos : r # p => fila'[r] = fila[r]
    BY <1>1, CommitEfecto DEF Orden, Accesos
  <2>3. fila'[q] = fila[q] /\ \A r \in Procesos : CuentaDe[r] = CuentaDe[q] => fila'[r] = fila[r]
    BY <2>1, <2>2
  <2>4. \/ nov' = nov
        \/ /\ m \in Novedades /\ \A n \in Novedades \ {m} : nov'[n] = nov[n]
           /\ nov'[m].proc = p
           /\ nov[m].estado = "ausente" \/ nov[m].proc = p
           /\ pet[w].op = "crear_novedad" \/ nov[m].estado # "ausente"
    <3>1. nov' = NovedadesEscritas(w)
      BY DEF Commit
    <3>2. CASE pet[w].op = "crear_novedad"
      BY <1>1, <1>2, <3>1, <3>2 DEF NovedadesEscritas, Vigente, NovedadVigente, FormaPeticion
    <3>3. CASE pet[w].op = "resolver_novedad"
      <4>1. m \in Novedades /\ nov[m].estado = "pendiente" /\ nov[m].proc = p
        BY <1>1, <1>2, <3>3 DEF Vigente, NovedadVigente, FormaPeticion
      <4>2. nov' = [nov EXCEPT ![m].estado = "resuelta", ![m].por = pet[w].actor]
        BY <3>1, <3>3 DEF NovedadesEscritas
      <4>3. QED
        BY <1>1, <4>1, <4>2 DEF FilaNovedad
    <3>4. CASE pet[w].op \notin {"crear_novedad", "resolver_novedad"}
      BY <3>1, <3>4 DEF NovedadesEscritas
    <3>5. QED
      BY <3>2, <3>3, <3>4
  <2>5. \A n \in Novedades : nov[n].proc = q /\ nov[n].estado # "ausente" => nov'[n] = nov[n]
    BY <2>1, <2>4
  <2>6. Pendientes(v)' = Pendientes(v)
    BY <1>2, <2>1, <2>4 DEF Pendientes
  <2>7. CreaConCuentaLibre(v)'
    BY <1>2, <2>3 DEF Vigente, CreaConCuentaLibre
  <2>8. CambioVigente(v)'
    BY <1>2, <2>3 DEF Vigente, CambioVigente, Escribe
  <2>9. NovedadVigente(v)'
    <3>1. pet[v].op = "crear_novedad" => nov'[pet[v].nov].estado = "ausente"
      BY <1>1, <1>2, <2>4 DEF Vigente, NovedadVigente, Orden, NovedadesPropias, FormaPeticion
    <3>2. pet[v].op = "resolver_novedad" => nov'[pet[v].nov] = nov[pet[v].nov]
      BY <1>1, <1>2, <1>4, <2>5 DEF Vigente, NovedadVigente, FormaPeticion
    <3>3. QED
      BY <1>2, <2>3, <2>6, <3>1, <3>2 DEF Vigente, NovedadVigente, Escribe
  <2>10. QED
    BY <2>7, <2>8, <2>9 DEF Vigente
<1>5. QED
  BY <1>3, <1>4

\* A COMMIT of the only request in progress about its account keeps the database
\* consistent.
LEMMA CommitOrden ==
    ASSUME Orden, SinSolape, NEW w \in Peticiones, Commit(w)
    PROVE  UnProcesoActivo' /\ CompletadoCoincide' /\ \A v \in Peticiones : Vigente(v)'
<1> DEFINE p == pet[w].proc
<1>1. pet[w].paso = "commit" /\ pet \in [Peticiones -> Peticion] /\ fila \in [Procesos -> Fila]
  BY DEF Orden, Accesos, Tipo, TypeOK, Commit
<1>2. pet'[w] = PeticionLibre /\ \A v \in Peticiones : v # w => pet'[v] = pet[v]
  BY <1>1 DEF Commit, Terminar
<1>3. ASSUME NEW v \in Peticiones PROVE Vigente(v)'
  <2>1. CASE v = w
    BY <1>2, <2>1, LibreVigenteAhora
  <2>2. CASE v # w /\ pet[v].paso = "libre"
    <3>1. pet[v] = PeticionLibre
      BY <2>2 DEF Orden, Accesos, Tipo, Forma, FormaPeticion
    <3>2. QED
      BY <1>2, <2>2, <3>1, LibreVigenteAhora
  <2>3. CASE v # w /\ pet[v].paso # "libre"
    BY <2>3, AjenaVigente
  <2>4. QED
    BY <2>1, <2>2, <2>3
<1>4. CASE ~Escribe(w)
  <2>1. fila' = fila
    BY <1>1, <1>4 DEF Commit, Escribe
  <2>2. QED
    BY <1>3, <2>1 DEF Orden, UnProcesoActivo, CompletadoCoincide
<1>5. CASE Escribe(w)
  <2>1. /\ p \in Procesos /\ pet[w].img \in Fila
        /\ fila' = [fila EXCEPT ![p] = pet[w].img]
        /\ \/ /\ fila[p].estado = "ausente" /\ pet[w].img = FilaNueva(p)
              /\ \A q \in Procesos : CuentaDe[q] = CuentaDe[p] =>
                   fila[q].estado \in Completados \cup {"ausente"}
           \/ /\ Permitida(p, fila[p].estado, pet[w].img.estado)
              /\ pet[w].img.completado <=> pet[w].img.estado \in Completados
    BY <1>5, CommitPaso
  <2>2. fila'[p] = pet[w].img /\ \A q \in Procesos \ {p} : fila'[q] = fila[q]
    BY <1>1, <2>1
  <2>3. FilaNueva(p).completado = FALSE /\ FilaNueva(p).estado = "sin_asignar"
    BY DEF FilaNueva, FilaAusente
  <2>4. pet[w].img.completado <=> pet[w].img.estado \in Completados
    BY <2>1, <2>3 DEF Completados
  <2>5. CompletadoCoincide'
    BY <2>2, <2>4 DEF Orden, CompletadoCoincide
  <2>6. ASSUME NEW q \in Procesos, q # p, CuentaDe[q] = CuentaDe[p]
        PROVE  fila[q].estado \in Terminales \cup {"ausente"}
    <3>1. CASE \A r \in Procesos : CuentaDe[r] = CuentaDe[p] =>
                 fila[r].estado \in Completados \cup {"ausente"}
      BY <2>6, <3>1 DEF Completados, Terminales
    <3>2. CASE Permitida(p, fila[p].estado, pet[w].img.estado)
      BY <2>1, <2>6, <3>2, DesdeAbierto DEF Orden, UnProcesoActivo
    <3>3. QED
      BY <2>1, <3>1, <3>2
  <2>7. UnProcesoActivo'
    BY <2>2, <2>6 DEF Orden, UnProcesoActivo
  <2>8. QED
    BY <1>3, <2>5, <2>7
<1>6. QED
  BY <1>4, <1>5

\* Requests about an account one after another keep the order.
LEMMA NextOrden == Orden /\ SinSolape /\ [Next]_vars => Orden'
<1> SUFFICES ASSUME Orden, SinSolape, [Next]_vars PROVE Orden'
  OBVIOUS
<1>1. Accesos' /\ NovedadesPropias'
  BY NextAccesos, NextNovedades DEF Orden, Accesos
<1>2. ASSUME NEW w \in Peticiones, Solo(w), UNCHANGED <<fila, nov>>, Vigente(w)' PROVE Orden'
  <2>1. \A v \in Peticiones : Vigente(v)'
    BY <1>2, QuietaVigente DEF Solo, Orden
  <2>2. UnProcesoActivo' /\ CompletadoCoincide'
    BY <1>2 DEF Orden, UnProcesoActivo, CompletadoCoincide
  <2>3. QED
    BY <1>1, <2>1, <2>2 DEF Orden
<1>3. CASE UNCHANGED vars
  <2>1. fila' = fila /\ nov' = nov /\ pet' = pet
    BY <1>3 DEF vars
  <2>2. \A v \in Peticiones : Vigente(v)'
    BY <2>1, QuietaVigente DEF Orden
  <2>3. QED
    BY <1>1, <2>1, <2>2 DEF Orden, UnProcesoActivo, CompletadoCoincide
<1>4. ASSUME NEW w \in Peticiones, Llegar(w) PROVE Orden'
  BY <1>2, <1>4, LlegarEfecto, LlegarVigente DEF Llegada, Orden, Accesos
<1>5. ASSUME NEW w \in Peticiones, Avanzar(w), ~Commit(w) PROVE Orden'
  BY <1>2, <1>5, AvanzarEfecto, AvanzarVigente DEF Efecto, Orden, Accesos
<1>6. ASSUME NEW w \in Peticiones, Commit(w) PROVE Orden'
  BY <1>1, <1>6, CommitOrden DEF Orden
<1>7. ASSUME NEW w \in Peticiones, Rollback(w) \/ EsperaAgotada(w) PROVE Orden'
  <2>1. UNCHANGED <<fila, nov>> /\ pet' = [pet EXCEPT ![w] = PeticionLibre]
    BY <1>7 DEF Rollback, EsperaAgotada, Terminar, SinFilas
  <2>2. Solo(w) /\ pet'[w] = PeticionLibre
    BY <2>1 DEF Solo, Orden, Accesos, Tipo, TypeOK
  <2>3. QED
    BY <1>2, <2>1, <2>2, LibreVigenteAhora
<1>8. QED
  BY <1>3, <1>4, <1>5, <1>6, <1>7 DEF Next

\* When the requests about one account do not overlap, the order holds in every state.
LEMMA OrdenSiempre == Sucesivas => []Orden
<1>1. Historia => Orden
  BY HistoriaOrden
<1>2. Orden /\ SinSolape /\ [Next]_vars => Orden'
  BY NextOrden
<1>3. QED
  BY <1>1, <1>2, PTL DEF Sucesivas

\* One request slot, as in a deployment of one process that serves one request after the
\* other, gives such behaviours: the hypothesis of the theorems below can be met.
LEMMA UnaPeticion ==
    ASSUME \A v, w \in Peticiones : v = w
    PROVE  Spec => Sucesivas
<1>1. Init => Historia
  BY InitHistoria
<1>2. SinSolape
  BY DEF SinSolape
<1>3. QED
  BY <1>1, <1>2, PTL DEF Spec, Sucesivas

\* "Solo se permite uno a la vez" holds if requests about one account do not overlap,
\* however many of other accounts do: the checks of the use cases are then enough.
THEOREM UnoALaVez == Sucesivas => []UnProcesoActivo
<1>1. Orden => UnProcesoActivo
  BY DEF Orden
<1>2. QED
  BY <1>1, OrdenSiempre, PTL

\* completado_en says that a process is completed if requests about one account do not overlap:
\* only a change that overtakes another one can leave it on a process sent back.
THEOREM CompletadoEnOrden == Sucesivas => []CompletadoCoincide
<1>1. Orden => CompletadoCoincide
  BY DEF Orden
<1>2. QED
  BY <1>1, OrdenSiempre, PTL

----------------------------------------------------------------------------
(* The refinement of ProcesoUnico *)

\* The state of the processes as ProcesoUnico sees it.
Visto == [p \in Procesos |-> fila[p].estado]

\* A step is a step of the life cycle of one process, or none.
LEMMA PasoDelCiclo ==
    ASSUME Orden, [Next]_vars
    PROVE  [Ciclo!Next]_([p \in Procesos |-> fila[p].estado])
<1>1. fila \in [Procesos -> Fila]
  BY DEF Orden, Accesos, Tipo, TypeOK
<1>2. CASE fila' = fila
  BY <1>2
<1>3. ASSUME NEW w \in Peticiones, Commit(w), Escribe(w) PROVE Ciclo!Next
  <2> DEFINE e == pet[w].img.estado
  <2>0. PICK p \in Procesos : p = pet[w].proc
    BY <1>3, CommitPaso
  <2>1. /\ p \in Procesos /\ pet[w].img \in Fila
        /\ fila' = [fila EXCEPT ![p] = pet[w].img]
        /\ \/ /\ fila[p].estado = "ausente" /\ pet[w].img = FilaNueva(p)
              /\ \A q \in Procesos : CuentaDe[q] = CuentaDe[p] =>
                   fila[q].estado \in Completados \cup {"ausente"}
           \/ /\ Permitida(p, fila[p].estado, pet[w].img.estado)
              /\ pet[w].img.completado <=> pet[w].img.estado \in Completados
    BY <1>3, <2>0, CommitPaso
  <2>2. Visto' = [Visto EXCEPT ![p] = e]
    BY <1>1, <2>1 DEF Visto
  <2>3. CASE /\ fila[p].estado = "ausente" /\ pet[w].img = FilaNueva(p)
             /\ \A q \in Procesos : CuentaDe[q] = CuentaDe[p] =>
                  fila[q].estado \in Completados \cup {"ausente"}
    <3>1. e = "sin_asignar"
      BY <2>3 DEF FilaNueva, FilaAusente
    <3>2. \A q \in Procesos : CuentaDe[q] = CuentaDe[p] => ~Ciclo!Abierto(q)
      BY <2>3 DEF Ciclo!Abierto, Completados, Terminales
    <3>3. Ciclo!Abrir(p)
      BY <2>1, <2>2, <2>3, <3>1, <3>2 DEF Ciclo!Abrir, Visto
    <3>4. QED
      BY <2>1, <3>3 DEF Ciclo!Next
  <2>4. CASE Permitida(p, fila[p].estado, e)
    <3>1. e \in Estados
      BY <2>4, DesdeAbierto
    <3>2. Ciclo!Cambiar(p)
      BY <2>1, <2>2, <2>4, <3>1 DEF Ciclo!Cambiar, Visto
    <3>3. QED
      BY <2>1, <3>2 DEF Ciclo!Next
  <2>5. QED
    BY <2>1, <2>3, <2>4
<1>4. fila' = fila \/ \E w \in Peticiones : Commit(w) /\ Escribe(w)
  <2>1. CASE UNCHANGED vars
    BY <2>1 DEF vars
  <2>2. ASSUME NEW w \in Peticiones, Llegar(w) PROVE fila' = fila
    BY <2>2, LlegarEfecto DEF Llegada, Orden, Accesos
  <2>3. ASSUME NEW w \in Peticiones, Avanzar(w), ~Commit(w) PROVE fila' = fila
    BY <2>3, AvanzarEfecto DEF Efecto, Orden, Accesos
  <2>4. ASSUME NEW w \in Peticiones, Commit(w), ~Escribe(w) PROVE fila' = fila
    BY <2>4 DEF Commit, Escribe
  <2>5. ASSUME NEW w \in Peticiones, Rollback(w) \/ EsperaAgotada(w) PROVE fila' = fila
    BY <2>5 DEF Rollback, EsperaAgotada, SinFilas
  <2>6. QED
    BY <2>1, <2>2, <2>3, <2>4, <2>5 DEF Next
<1>5. QED
  BY <1>2, <1>3, <1>4

\* When the requests about one account do not overlap, they open one process of it at a
\* time and move it along its life cycle, from any consistent history and whatever the
\* requests about other accounts do meanwhile: Movilidad implements ProcesoUnico.
THEOREM ImplementaCiclo == Sucesivas => CicloDeUnProceso
<1>1. Historia => Ciclo!Init
  <2>1. SUFFICES ASSUME Historia PROVE Ciclo!Init
    OBVIOUS
  <2>2. \A p \in Procesos : fila[p].estado \in Estados \cup {"ausente"}
    BY <2>1 DEF Historia, Tipo, TypeOK, Fila
  <2>3. QED
    BY <2>1, <2>2 DEF Historia, UnProcesoActivo, Ciclo!Init, Ciclo!Abierto
<1>2. Orden /\ [Next]_vars => [Ciclo!Next]_([p \in Procesos |-> fila[p].estado])
  BY PasoDelCiclo
<1>3. QED
  BY <1>1, <1>2, OrdenSiempre, PTL DEF Sucesivas, CicloDeUnProceso, Ciclo!Spec

----------------------------------------------------------------------------
(* The last pending novedad *)

\* A COMMIT that leaves a process without pending novedades resolved the last one.
LEMMA CommitNovedad ==
    ASSUME Orden, NEW w \in Peticiones, Commit(w), NEW p \in Procesos,
           ~SinPendientes(p), SinPendientes(p)'
    PROVE  fila'[p].estado # "con_novedades"
<1>1. /\ pet[w].paso = "commit" /\ Vigente(w) /\ FormaPeticion(pet[w])
      /\ nov \in [Novedades -> FilaNovedad] /\ fila \in [Procesos -> Fila]
      /\ nov' = NovedadesEscritas(w)
  BY DEF Orden, Accesos, Tipo, TypeOK, Forma, Commit
<1>2. PICK m \in Novedades : nov[m].proc = p /\ nov[m].estado = "pendiente"
  BY DEF SinPendientes
<1>3. \A n \in Novedades : nov'[n].proc = p => nov'[n].estado # "pendiente"
  BY DEF SinPendientes
<1>4. nov'[m] # nov[m]
  BY <1>2, <1>3
<1>5. pet[w].op \in {"crear_novedad", "resolver_novedad"} /\ pet[w].nov = m
  <2>1. CASE pet[w].op = "crear_novedad"
    BY <1>1, <1>4, <2>1 DEF NovedadesEscritas
  <2>2. CASE pet[w].op = "resolver_novedad"
    BY <1>1, <1>4, <2>2 DEF NovedadesEscritas
  <2>3. CASE pet[w].op \notin {"crear_novedad", "resolver_novedad"}
    BY <1>1, <1>4, <2>3 DEF NovedadesEscritas
  <2>4. QED
    BY <2>1, <2>2, <2>3
<1>6. pet[w].op = "resolver_novedad"
  BY <1>1, <1>2, <1>5 DEF Vigente, NovedadVigente
<1>7. pet[w].proc = p
  BY <1>1, <1>2, <1>5, <1>6 DEF Vigente, NovedadVigente
<1>8. Pendientes(w) = {}
  <2>1. \A n \in Novedades \ {m} : nov'[n] = nov[n]
    BY <1>1, <1>5, <1>6 DEF NovedadesEscritas
  <2>2. QED
    BY <1>3, <1>5, <1>7, <2>1 DEF Pendientes
<1>9. "con_novedades" # IF Escribe(w) THEN pet[w].img.estado ELSE fila[p].estado
  BY <1>1, <1>6, <1>7, <1>8 DEF Vigente, NovedadVigente
<1>10. fila'[p] = IF Escribe(w) THEN pet[w].img ELSE fila[p]
  BY <1>7, CommitEfecto DEF Orden, Accesos
<1>11. QED
  BY <1>9, <1>10

\* Resolving the last pending novedad takes its process out of con_novedades, if no other
\* request creates or resolves one meanwhile.
THEOREM UltimaNovedadLibera == Sucesivas => ResolverUltimaLibera
<1>1. ASSUME Orden, [Next]_vars, NEW p \in Procesos, ~SinPendientes(p), SinPendientes(p)'
      PROVE  fila'[p].estado # "con_novedades"
  <2>1. CASE nov' = nov
    BY <1>1, <2>1 DEF SinPendientes
  <2>2. CASE \E w \in Peticiones : Commit(w)
    BY <1>1, <2>2, CommitNovedad
  <2>3. nov' = nov \/ \E w \in Peticiones : Commit(w)
    <3>1. CASE UNCHANGED vars
      BY <3>1 DEF vars
    <3>2. ASSUME NEW w \in Peticiones, Llegar(w) PROVE nov' = nov
      BY <1>1, <3>2, LlegarEfecto DEF Llegada, Orden, Accesos
    <3>3. ASSUME NEW w \in Peticiones, Avanzar(w), ~Commit(w) PROVE nov' = nov
      BY <1>1, <3>3, AvanzarEfecto DEF Efecto, Orden, Accesos
    <3>4. ASSUME NEW w \in Peticiones, Rollback(w) \/ EsperaAgotada(w) PROVE nov' = nov
      BY <3>4 DEF Rollback, EsperaAgotada, SinFilas
    <3>5. QED
      BY <1>1, <3>1, <3>2, <3>3, <3>4 DEF Next
  <2>4. QED
    BY <2>1, <2>2, <2>3
<1>2. Orden /\ [Next]_vars =>
        [\A p \in Procesos :
           ~SinPendientes(p) /\ SinPendientes(p)' => fila'[p].estado # "con_novedades"]_vars
  BY <1>1
<1>3. QED
  BY <1>2, OrdenSiempre, PTL DEF Sucesivas, ResolverUltimaLibera
=============================================================================
