---------------------------- MODULE MCProviders ----------------------------
(***************************************************************************)
(* The way of a request to the model and back: the sessions that keep the  *)
(* transcripts, the history that is sent, what the providers make of it,   *)
(* the failover between them, the streams they decode and the login of     *)
(* Codex.  A behaviour is one of a single part, the part it starts with;   *)
(* the variables of the others stay as they start.                         *)
(***************************************************************************)
EXTENDS Session, History, Conversion, FailoverStream, CodexAuth, ProviderStream, TLC

CONSTANTS s1, s2, p1, p2, here, t1, t2, odd, odder

VARIABLE part

\* Messages of text, blanks and images; turns that think, talk and call, with or
\* without signatures.
Text    == Part("text", 0, FALSE)
Thought == Part("thought", 0, TRUE)
Image   == Part("image", 0, FALSE)
CallOf(n, signed) == Part("call", n, signed)
MCInputs  == {<<Text>>, <<Part("blank", 0, FALSE)>>, <<Text, Image>>, <<Image>>}
MCTurns   == {<<Thought>>, <<Thought, Text>>, <<Text, CallOf(1, TRUE)>>, <<CallOf(1, FALSE), CallOf(2, FALSE)>>,
              <<CallOf(1, TRUE), Text, CallOf(2, FALSE)>>, <<Image>>}
MCOutputs == {<<>>, <<Text>>}

\* A provider that cannot be reached, one that closes at once, one that reports an
\* error after two events, one that answers and one that stops half way.
Does(refuses, error, events, closes) ==
  [refuses |-> refuses, error |-> error, events |-> events, closes |-> closes]
Refusal   == Does(TRUE, FALSE, 0, TRUE)
MCScripts == {Refusal, Does(FALSE, FALSE, 0, TRUE), Does(FALSE, TRUE, 2, TRUE),
              Does(FALSE, FALSE, 3, TRUE), Does(FALSE, FALSE, 2, FALSE)}

\* Two streams of one process and one of another.
MCManager == [a1 |-> "p", a2 |-> "p", b1 |-> "q"]

\* Call ids: three spellings of one text collide.
MCPool   == {Id("a", s, 0) : s \in {Proper, odd, odder}}
Symmetry == Permutations(Prompts)

-----------------------------------------------------------------------------
SessionOff == Init /\ env = "blank"
HistoryOff == HistoryInit /\ model = "flash"
ConvOff == ConvInit /\ ~modern
FailOff == FailoverInit /\ \A i \in DOMAIN scripts : scripts[i] = Refusal
WireOff == StreamInit /\ provider = "codex"
AuthOff == AuthInit /\ ~rotates

AllVars  == <<part, vars, historyVars, convVars, failoverVars, streamVars, authVars>>

ProvidersInit ==
  \/ part = "session" /\ Init /\ HistoryOff /\ ConvOff /\ FailOff /\ WireOff /\ AuthOff
  \/ part = "history" /\ SessionOff /\ HistoryInit /\ ConvOff /\ FailOff /\ WireOff /\ AuthOff
  \/ part = "convert" /\ SessionOff /\ HistoryOff /\ ConvInit /\ FailOff /\ WireOff /\ AuthOff
  \/ part = "failover" /\ SessionOff /\ HistoryOff /\ ConvOff /\ FailoverInit /\ WireOff /\ AuthOff
  \/ part = "stream" /\ SessionOff /\ HistoryOff /\ ConvOff /\ FailOff /\ StreamInit /\ AuthOff
  \/ part = "auth" /\ SessionOff /\ HistoryOff /\ ConvOff /\ FailOff /\ WireOff /\ AuthInit

SessionPart  == part = "session" /\ Next /\ UNCHANGED <<part, historyVars, convVars, failoverVars, streamVars, authVars>>
HistoryPart  == part = "history" /\ HistoryNext /\ UNCHANGED <<part, vars, convVars, failoverVars, streamVars, authVars>>
ConvertPart  == part = "convert" /\ ConvNext /\ UNCHANGED <<part, vars, historyVars, failoverVars, streamVars, authVars>>
FailoverPart == part = "failover" /\ FailoverNext /\ UNCHANGED <<part, vars, historyVars, convVars, streamVars, authVars>>
StreamPart   == part = "stream" /\ StreamNext /\ UNCHANGED <<part, vars, historyVars, convVars, failoverVars, authVars>>
AuthPart     == part = "auth" /\ AuthNext /\ UNCHANGED <<part, vars, historyVars, convVars, failoverVars, streamVars>>

ProvidersNext == SessionPart \/ HistoryPart \/ ConvertPart \/ FailoverPart \/ StreamPart \/ AuthPart
ProvidersSpec == ProvidersInit /\ [][ProvidersNext]_AllVars
=============================================================================
