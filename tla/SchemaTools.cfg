\* Two tool calls of one run, an edit of the registry and a migration.
CONSTANTS
    c1 = c1  c2 = c2  d1 = d1  d2 = d2  shop = shop  Shop = Shop  dashed = dashed
    orders = orders  Orders = Orders  users = users
    Call = {c1, c2}
    Database = {d1, d2}
    Name = {shop, Shop, dashed, orders, Orders, users}
    Invalid = {dashed}
    Odd = {"user id", "of user id"}
    Folded <- FoldCase
    Document <- Registries
    Malformed = Malformed
    Catalog <- Catalogs
    Asks <- Questions
    Drafts <- SchemasUsed
    MaxEdits = 1
    MaxMigrations = 1
    None = None
SYMMETRY Interchangeable
SPECIFICATION Spec
INVARIANTS TypeOK AnswerFaithful PromptedIsServed GuideNamesLookedUp
CHECK_DEADLOCK FALSE
