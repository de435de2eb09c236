SPECIFICATION Spec
CONSTANTS
  Docs = {d1, d2}
  Owners = {u1, u2}
  Chats = {s1, s2}
  Batches <- MCBatches
  SearchLimit = 2
  TopK = 3
  DocEnd = 7
  Sizes = {1, 2, 4}
  Budgets <- MCBudgets
  MaxMessages = 3
  Contents = {c1, c2, c3}
  PruneLimit = 2
  MemTopK = 1
  Embeddings <- MCEmbeddings
  ChatEnd = 5
  Addresses = {e1, e2}
  GoogleAccounts = {g1, g2}
  RefreshTokens = {t1, t2}
  NoToken = none
  UserEnd = 6
  Questions = {1, 2, 3}
  Hashes = {1, 2, 3}
  Points = {0, 1, 2}
  Canonicals = {1, 2, 3}
  DisplaysOf <- MCDisplaysOf
  Second = 2
  CacheTtls = {0, 1, 2, 3}
  FaqEnd = 5
  Recommended = {0, 1, 2}
  DefaultTop = 2
INVARIANTS DocumentStoresAgree ConversationStoresAgree UserStoresAgree QuestionsAgree CachesAgree
CHECK_DEADLOCK FALSE
