----------------------------- MODULE MCPlatform -----------------------------
(* The platform services share no state: one behaviour exercises one of them. *)
EXTENDS ServerConfig, Discovery, FeatureFlags, RateLimit, AuditLog,
        SchemaMigrations, DataMigration, GoodserAdmin, KeyRotation, LogRotation,
        AIRouter

VARIABLE part

MCPoolOf == CHOOSE f \in [Users -> Names] : Cardinality({f[m] : m \in Users}) = Cardinality(Users)
MCTypeOfRow == [k \in 1..MaxKey |-> <<"int", "statement", "blob">>[k]]
MCCodeOf == [s \in Preset |-> "x"]
MCKindOf == <<"string", "bytes", "client">>

MCSymmetry == Permutations(Jobs)

Parts == {"config", "discovery", "flags", "rate", "audit", "schema", "data", "admin", "keys", "log", "ai"}

vars == <<part, serverVars, discoveryVars, flagVars, rateVars, auditVars,
          migrationVars, dataVars, adminVars, keyVars, logVars, routerVars>>

Only(p) ==
  /\ part = p /\ UNCHANGED part
  /\ p # "config" => UNCHANGED serverVars
  /\ p # "discovery" => UNCHANGED discoveryVars
  /\ p # "flags" => UNCHANGED flagVars
  /\ p # "rate" => UNCHANGED rateVars
  /\ p # "audit" => UNCHANGED auditVars
  /\ p # "schema" => UNCHANGED migrationVars
  /\ p # "data" => UNCHANGED dataVars
  /\ p # "admin" => UNCHANGED adminVars
  /\ p # "keys" => UNCHANGED keyVars
  /\ p # "log" => UNCHANGED logVars
  /\ p # "ai" => UNCHANGED routerVars

\* The services this behaviour leaves alone start in one of their initial states.
Init ==
  /\ part \in Parts
  /\ DiscoveryInit /\ FlagsInit /\ RateInit /\ AuditInit /\ AdminInit /\ LogInit
  /\ ServerInit /\ (part # "config" => enabled = {} /\ reachable = {} /\ release)
  /\ MigrationsInit /\ (part # "schema" => server = "mysql")
  /\ DataInit /\ (part # "data" => dbms = "mysql" /\ table = <<>>)
  /\ KeyInit /\ (part # "keys" => \A c \in Cells : cell[c] = Plain("x"))
  /\ RouterInit
  /\ part # "ai" => /\ rule.provider = NoProvider /\ rule.fallback = NoProvider
                    /\ registered = {} /\ serving = {} /\ strategy = "direct" /\ retryCount = 0

Next ==
  \/ Only("config") /\ ServerNext
  \/ Only("discovery") /\ DiscoveryNext
  \/ Only("flags") /\ FlagsNext
  \/ Only("rate") /\ RateNext
  \/ Only("audit") /\ AuditNext
  \/ Only("schema") /\ MigrationsNext
  \/ Only("data") /\ DataNext
  \/ Only("admin") /\ AdminNext
  \/ Only("keys") /\ KeyNext
  \/ Only("log") /\ LogNext
  \/ Only("ai") /\ RouterNext

Spec == Init /\ [][Next]_vars
=============================================================================
