------------------------------ MODULE AIRouter ------------------------------
(* The AI service: Manager routes a request for a model to a provider (Ollama,  *)
(* OpenAI), tries it again after an error, and under StrategyFallback asks the  *)
(* rule's other provider; a streamed answer comes through a channel that a      *)
(* goroutine of the provider fills.  There is one model, which every provider   *)
(* lists; only its first routing rule counts.                                    *)
EXTENDS Integers, Sequences, FiniteSets, Functions

CONSTANTS
  Askers,         \* callers of Manager
  Pieces,         \* chunks of a streamed answer
  ChunkCap,       \* capacity of the channel, 64 in the code
  MaxRetries, MaxAsks, MaxSwitches

ASSUME RouterAssumption == Pieces \in Nat \ {0} /\ ChunkCap \in Nat \ {0} /\ MaxRetries \in Nat

Providers == {"openai", "ollama"}
NoProvider == "none"     \* the name "" of a rule

VARIABLES
  rule,           \* the first rule of the model: its provider and its fallback
  registered, listed,   \* providers; the ones whose list of models is cached
  strategy, retryCount,
  serving,        \* the providers that answer
  ask,            \* ask[a]: the request of caller a
  asks, switches

routerVars == <<rule, registered, listed, strategy, retryCount, serving, ask, asks, switches>>
routingVars == <<rule, registered, strategy, retryCount, serving, switches>>

NoAsk == [pc |-> "off"]

Rules == [provider: Providers \cup {NoProvider}, fallback: Providers \cup {NoProvider}]
NoRule == [provider |-> NoProvider, fallback |-> NoProvider]

RouterInit ==
  /\ rule \in Rules
  /\ registered \in SUBSET Providers /\ serving \in SUBSET Providers /\ listed = {}
  /\ strategy \in {"direct", "fallback"} /\ retryCount \in 0..MaxRetries
  /\ ask = [a \in Askers |-> NoAsk] /\ asks = 0 /\ switches = 0

-----------------------------------------------------------------------------
\* resolveProvider: the rule's provider, or whichever lists the model first,
\* and keeps its list.
Resolved ==
  IF rule.provider \in registered THEN {rule.provider}
  ELSE {p \in registered : p \in serving \cup listed}

\* A request arrives: Chat, Embed or ChatStream.  steady is what has answered
\* throughout, falls whether the strategy was StrategyFallback throughout.
Resolve(a, op) ==
  /\ ask[a].pc \in {"off", "end"} /\ asks < MaxAsks /\ asks' = asks + 1
  /\ IF Resolved = {}
     THEN ask' = [ask EXCEPT ![a] = NoAsk] /\ UNCHANGED listed
     ELSE \E p \in Resolved :
       /\ ask' = [ask EXCEPT ![a] =
            [pc |-> IF op = "stream" THEN "open" ELSE "try", op |-> op, p |-> p,
             left |-> retryCount, answer |-> "none", gone |-> FALSE,
             steady |-> serving, falls |-> strategy = "fallback" /\ rule.fallback \in registered,
             sent |-> 0, chan |-> <<>>, fills |-> FALSE, got |-> 0]]
       /\ listed' = IF p = rule.provider THEN listed ELSE listed \cup {p}
  /\ UNCHANGED routingVars

Advance(a, new) == ask' = [ask EXCEPT ![a] = new] /\ UNCHANGED <<listed, asks, routingVars>>

Finish(a, result) == Advance(a, [ask[a] EXCEPT !.pc = "end", !.answer = result])

Answers(a, p) == p \in serving /\ ~ask[a].gone

\* One turn of a retry loop; every error is retryable.
Try(a) ==
  IF Answers(a, ask[a].p) THEN Finish(a, "ok")
  ELSE IF ask[a].left > 0 THEN Advance(a, [ask[a] EXCEPT !.pc = "wait", !.left = @ - 1])
  ELSE Advance(a, [ask[a] EXCEPT !.pc = "failed"])

TryChat(a) == ask[a].pc = "try" /\ ask[a].op = "chat" /\ Try(a)

TryEmbed(a) == ask[a].pc = "try" /\ ask[a].op = "embed" /\ Try(a)

\* The wait between two tries ends, at once when the context does.
Wait(a) ==
  /\ ask[a].pc = "wait"
  /\ Advance(a, [ask[a] EXCEPT !.pc = IF ask[a].gone THEN "failed" ELSE "try"])

\* Mutated FallBack: the fallback is looked up among the rules' first providers.
FallBackToItself(a) ==
  /\ ask[a].pc = "failed" /\ ask[a].op = "chat"
  /\ IF strategy = "fallback" /\ rule.provider \in registered
     THEN Advance(a, [ask[a] EXCEPT !.pc = "fallback", !.p = rule.provider])
     ELSE Finish(a, "error")

\* After the last try of a Chat: strategy and rule as they are now.
FallBack(a) ==
  /\ ask[a].pc = "failed" /\ ask[a].op = "chat"
  /\ IF strategy = "fallback" /\ rule.fallback \in registered
     THEN Advance(a, [ask[a] EXCEPT !.pc = "fallback", !.p = rule.fallback])
     ELSE Finish(a, "error")

\* An Embed has no fallback.
EmbedFails(a) == ask[a].pc = "failed" /\ ask[a].op = "embed" /\ Finish(a, "error")

\* The fallback is asked once.
TryFallback(a) ==
  /\ ask[a].pc = "fallback"
  /\ Finish(a, IF Answers(a, ask[a].p) THEN "ok" ELSE "error")

-----------------------------------------------------------------------------
(* Streams                                                                   *)

Chunk(n, done) == [n |-> n, done |-> done]

\* ChatStream of OpenAI: the request is made before it returns.
OpenOpenAI(a) ==
  /\ ask[a].pc = "open" /\ ask[a].p = "openai"
  /\ IF Answers(a, "openai") THEN Advance(a, [ask[a] EXCEPT !.pc = "read", !.fills = TRUE])
     ELSE Finish(a, "error")

\* ChatStream of Ollama: the goroutine makes the request.
OpenOllama(a) ==
  /\ ask[a].pc = "open" /\ ask[a].p = "ollama"
  /\ Advance(a, [ask[a] EXCEPT !.pc = "read", !.fills = TRUE])

Fills(a, p) == ask[a].pc \in {"read", "end"} /\ ask[a].fills /\ ask[a].p = p

SendChunk(a, chunk, more) ==
  /\ Len(ask[a].chan) < ChunkCap
  /\ Advance(a, [ask[a] EXCEPT !.sent = @ + 1, !.chan = Append(@, chunk), !.fills = more])

\* The next piece; the last one is marked, and is mostly empty (n = 0).
Piece(a) ==
  LET n == ask[a].sent + 1 IN
  {Chunk(words, n = Pieces) : words \in IF n = Pieces THEN {0, n} ELSE {n}}

\* One turn of OpenAI's goroutine: it reads on after the marked piece.
FillOpenAI(a) ==
  /\ Fills(a, "openai") /\ ask[a].sent < Pieces /\ Answers(a, "openai")
  /\ \E c \in Piece(a) : SendChunk(a, c, TRUE)

\* Recv fails, or the stream is at its end: one more chunk says Done.
OpenAIEnds(a) ==
  /\ Fills(a, "openai") /\ (ask[a].sent = Pieces \/ ~Answers(a, "openai"))
  /\ SendChunk(a, Chunk(0, TRUE), FALSE)

\* One call of Ollama's callback, which ends with the marked piece.
FillOllama(a) ==
  /\ Fills(a, "ollama") /\ Answers(a, "ollama")
  /\ \E c \in Piece(a) : SendChunk(a, c, ~c.done)

\* The words of the error are in a chunk that says Done; no reader looks at them.
OllamaFails(a) ==
  /\ Fills(a, "ollama") /\ ~Answers(a, "ollama")
  /\ SendChunk(a, Chunk(0, TRUE), FALSE)

\* StreamToString, CollectStream: a marked chunk ends the answer, its text unread.
Read(a) ==
  /\ ask[a].pc = "read"
  /\ LET chan == ask[a].chan IN
     \/ /\ chan # <<>> /\ Head(chan).done /\ Finish(a, "ok")
     \/ /\ chan # <<>> /\ ~Head(chan).done
        /\ Advance(a, [ask[a] EXCEPT !.chan = Tail(chan), !.got = Head(chan).n])

\* The context ends, which a reader may see before the next chunk.
EndContext(a) ==
  /\ ask[a].pc \notin {"off", "end"} /\ ~ask[a].gone
  /\ Advance(a, [ask[a] EXCEPT !.gone = TRUE])

StopReading(a) == ask[a].pc = "read" /\ ask[a].gone /\ Finish(a, "error")

-----------------------------------------------------------------------------
(* Meanwhile                                                                 *)

\* Providers and settings after a change, as every request under way sees it.
Switch(up, how) ==
  /\ switches < MaxSwitches /\ switches' = switches + 1
  /\ serving' = up /\ strategy' = how
  /\ ask' = [a \in Askers |-> IF ask[a] = NoAsk THEN NoAsk
       ELSE [ask[a] EXCEPT !.steady = @ \cap up, !.falls = @ /\ how = "fallback"]]
  /\ UNCHANGED <<rule, listed, asks>>

ProviderChanges(up) == up # serving /\ Switch(up, strategy) /\ UNCHANGED <<registered, retryCount>>

SetStrategy(how) == how # strategy /\ Switch(serving, how) /\ UNCHANGED <<registered, retryCount>>

SetRetryPolicy(n) ==
  n # retryCount /\ retryCount' = n /\ Switch(serving, strategy) /\ UNCHANGED registered

\* Only the first rule of a model is ever found.
AddRule(r) ==
  /\ rule = NoRule /\ r # NoRule /\ rule' = r
  /\ switches < MaxSwitches /\ switches' = switches + 1
  /\ UNCHANGED <<registered, listed, strategy, retryCount, serving, ask, asks>>

\* The list of all models: every provider keeps its own.
Models ==
  /\ listed' = listed \cup (registered \cap serving)
  /\ UNCHANGED <<ask, asks, routingVars>>

RegisterProvider(p) ==
  /\ p \notin registered /\ registered' = registered \cup {p}
  /\ Switch(serving, strategy) /\ UNCHANGED retryCount

RouterNext ==
  \/ \E a \in Askers :
       \/ \E op \in {"chat", "embed", "stream"} : Resolve(a, op)
       \/ TryChat(a) \/ TryEmbed(a) \/ Wait(a) \/ FallBack(a) \/ EmbedFails(a) \/ TryFallback(a)
       \/ OpenOpenAI(a) \/ OpenOllama(a)
       \/ FillOpenAI(a) \/ OpenAIEnds(a) \/ FillOllama(a) \/ OllamaFails(a)
       \/ Read(a) \/ EndContext(a) \/ StopReading(a)
  \/ \E up \in SUBSET Providers : ProviderChanges(up)
  \/ \E how \in {"direct", "fallback"} : SetStrategy(how)
  \/ \E n \in 0..MaxRetries : SetRetryPolicy(n)
  \/ \E p \in Providers : RegisterProvider(p)
  \/ \E r \in Rules : AddRule(r)
  \/ Models

RouterSpec == RouterInit /\ [][RouterNext]_routerVars

-----------------------------------------------------------------------------
\* A caller that stays gets its answer if the provider chosen first, or for a Chat
\* under StrategyFallback the rule's fallback, answered from the first step to the
\* last, whatever else went down, was registered or set meanwhile: no error, and
\* of a stream every piece before the marked one.
OnlyOutagesFail ==
  \A a \in Askers :
    LET r == ask[a] IN
    r.pc = "end" /\ ~r.gone
      /\ (r.p \in r.steady \/ (r.op = "chat" /\ r.falls /\ rule.fallback \in r.steady))
    => r.answer = "ok" /\ (r.op = "stream" => r.got = Pieces - 1)
=============================================================================
