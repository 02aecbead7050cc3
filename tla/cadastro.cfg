SPECIFICATION Spec
CONSTANTS
    e1 = e1
    e2 = e2
    p1 = p1
    u1 = u1
    f1 = f1
    f2 = f2
    f3 = f3
    n1 = n1
    n2 = n2
    r1 = r1
    r2 = r2
    Empresas = {e1, e2}
    Permissoes = {p1}
    Usuarios = {u1}
    Perfis = {f1, f2, f3}
    Nomes = {n1, n2}
    Requests = {r1, r2}
    None = None
SYMMETRY Interchangeable
INVARIANTS
    IInv
    MembershipScoped
    InvalidationCovers
PROPERTIES
    TenantScoped
    ImplementsCadastroStore
