------------------------------- MODULE MCAuth -------------------------------
(* Endpoint groups small enough to explore every interleaving of their requests. *)
EXTENDS Auth, TLC

Symmetry == Permutations(Procs)

MCBackends == {[tables |-> "mysql", black |-> "redis"], [tables |-> "memory", black |-> "memory"]}

MCEndpoints ==
  {{"login", "register", "refresh", "logout"},
   {"login", "register", "changePassword", "deleteUser"},
   {"login", "me", "updateProfile", "getUser", "updateUser", "deleteUser"},
   {"login", "listUsers", "listAccounts", "listAPIKeys"},
   {"callback", "bind"},
   {"callback", "unbind"},
   {"login", "register", "assignRole"},
   {"login", "createAPIKey", "updateAPIKey", "deleteAPIKey", "apikey"}}
=============================================================================
