SPECIFICATION SpecEscenas
CONSTANTS
    Peticiones = {w1, w2, w3}
    Nombres = {n1, n2}
    Organizaciones = {o1, o2}
    Politicas = TRUE
    MaxDia = 2
    MaxValor = 2
    Base = 2
    Tope = 4
    MaxCuentas = 2
    Nada = Nada
SYMMETRY Simetria
INVARIANTS TypeOK NumeroSinChoque  ErrorSoloPorCarrera RastroFiel
PROPERTIES SobrescrituraSoloPorSolape
