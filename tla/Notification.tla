---------------------------- MODULE Notification ----------------------------
(***************************************************************************)
(* The notification service: senders registered per channel; Send tries    *)
(* them in order until one succeeds, SendToAll asks them all.  The list is *)
(* read under the lock and used after it.                                  *)
(***************************************************************************)
EXTENDS Integers, Sequences, FiniteSets, SequencesExt

CONSTANTS
  NotifySenders,   \* senders, the ones of Kinds "email" need a recipient
  KindOf, ChannelOf, Channels,
  Notifiers,       \* goroutines that send
  MaxSendCalls

ASSUME NotifyAssumption == ChannelOf \in [NotifySenders -> Channels]

VARIABLES
  senders,         \* senders[ch]: registered on the channel, oldest first
  sending,         \* sending[n]: the call goroutine n is in
  sendCalls,
  delivered        \* history: delivered[n]: how often its last call was delivered

notifyVars == <<senders, sending, sendCalls, delivered>>

NotSending == [mode |-> "none", outcome |-> "none"]

NotifyInit ==
  /\ senders = [ch \in Channels |-> <<>>]
  /\ sending = [n \in Notifiers |-> NotSending]
  /\ sendCalls = 0 /\ delivered = [n \in Notifiers |-> 0]

RegisterSender(s) ==
  /\ \A ch \in Channels : s \notin ToSet(senders[ch])
  /\ senders' = [senders EXCEPT ![ChannelOf[s]] = Append(@, s)]
  /\ UNCHANGED <<sending, sendCalls, delivered>>

\* Send and SendToAll take the channel's list as it is now; with none registered
\* they answer at once.
SendBegin(n, mode, ch, recipients) ==
  /\ sending[n].mode = "none" /\ sendCalls < MaxSendCalls /\ sendCalls' = sendCalls + 1
  /\ sending' = [sending EXCEPT ![n] =
       [mode |-> IF senders[ch] = <<>> THEN "none" ELSE mode,
        all |-> senders[ch], todo |-> senders[ch], to |-> recipients, ok |-> {}, tried |-> {},
        outcome |-> IF senders[ch] = <<>> THEN "error" ELSE "open"]]
  /\ delivered' = [delivered EXCEPT ![n] = 0]
  /\ UNCHANGED senders

\* EmailSender.Send refuses a message without recipients; an SMTP failure is a
\* result without success.
EmailResults(recipients) == IF recipients THEN {"success", "unsuccessful"} ELSE {"error"}

\* LogSender.Send always succeeds.
LogResults == {"success"}

SenderResults(s, recipients) ==
  IF KindOf[s] = "log" THEN LogResults ELSE EmailResults(recipients)

\* The call after its next sender answered r; a Send that takes the answer for a
\* success is over.
AfterTry(c, r, success) ==
  LET s == Head(c.todo)
      over == c.mode = "first" /\ success
      last == Len(c.todo) = 1
  IN [mode |-> IF over \/ last THEN "none" ELSE c.mode,
      all |-> c.all, todo |-> Tail(c.todo), to |-> c.to,
      ok |-> IF r = "success" THEN c.ok \cup {s} ELSE c.ok, tried |-> c.tried \cup {s},
      outcome |-> IF over THEN "success" ELSE IF ~last THEN "open"
                  ELSE IF c.mode = "first" THEN "error" ELSE "results"]

\* Mutated TrySender: only an error moves Send on, not an unsuccessful result.
TrySenderTrustsResult(n, r) ==
  /\ sending[n].mode # "none" /\ r \in SenderResults(Head(sending[n].todo), sending[n].to)
  /\ sending' = [sending EXCEPT ![n] = AfterTry(sending[n], r, r # "error")]
  /\ delivered' = [delivered EXCEPT ![n] = IF r = "success" THEN @ + 1 ELSE @]
  /\ UNCHANGED <<senders, sendCalls>>

\* One sender is asked; Send returns at the first success.
TrySender(n, r) ==
  /\ sending[n].mode # "none" /\ r \in SenderResults(Head(sending[n].todo), sending[n].to)
  /\ sending' = [sending EXCEPT ![n] = AfterTry(sending[n], r, r = "success")]
  /\ delivered' = [delivered EXCEPT ![n] = IF r = "success" THEN @ + 1 ELSE @]
  /\ UNCHANGED <<senders, sendCalls>>

NotifyNext ==
  \/ \E s \in NotifySenders : RegisterSender(s)
  \/ \E n \in Notifiers :
       \/ \E mode \in {"first", "all"}, ch \in Channels, to \in BOOLEAN : SendBegin(n, mode, ch, to)
       \/ \E r \in {"success", "unsuccessful", "error"} : TrySender(n, r)

NotifySpec == NotifyInit /\ [][NotifyNext]_notifyVars

-----------------------------------------------------------------------------
\* Send answers success exactly when the message went out, and then once; its
\* error means that every sender registered when it began was tried and failed.
\* SendToAll asks each of them.
SendTellsTheTruth ==
  \A n \in Notifiers :
    CASE sending[n].outcome = "success" -> delivered[n] = 1
      [] sending[n].outcome = "error" -> /\ delivered[n] = 0
                                         /\ sending[n].tried = ToSet(sending[n].all)
      [] sending[n].outcome = "results" -> sending[n].tried = ToSet(sending[n].all)
                                           /\ delivered[n] = Cardinality(sending[n].ok)
      [] OTHER -> TRUE
=============================================================================
