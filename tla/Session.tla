------------------------------ MODULE Session ------------------------------
(***************************************************************************)
(* Sessions (session.go, agent.go), the store that keeps them (stores/)    *)
(* and the commands of the TUI that work on stored sessions beside the     *)
(* running ones (cmd/glue/tui/tui.go).                                     *)
(*                                                                         *)
(* A session's transcript is in memory and, after every prompt, in the     *)
(* store.  Prompts of one session are serialised by runMu; crashes, forks  *)
(* and /compact are not.  The agent loop is an environment here that       *)
(* answers a request with messages and an outcome (AgentLoop models it).   *)
(***************************************************************************)
EXTENDS Integers, Sequences, SequencesExt

CONSTANTS
  Ids,       \* session ids
  Prompts,   \* calls of Session.Prompt
  Blocks,    \* renderings of the environment context, NoBlock included
  Threshold, \* CompactionThreshold
  Commands,  \* the commands the user gives: a subset of {"fork", "compact"}
  MaxCrashes \* bound: process restarts

None    == "none"
NoBlock == "blank"

ASSUME SessionAssumption ==
  /\ None \notin Prompts /\ NoBlock \in Blocks
  /\ Threshold \in Nat /\ MaxCrashes \in Nat /\ Commands \subseteq {"fork", "compact"}

VARIABLES
  live,       \* ids in the agent's session map
  mem,        \* per id: Session.messages
  disk,       \* per id: the stored transcript, or Absent
  holder,     \* per id: the prompt that holds runMu
  job,        \* per prompt: the locals of Session.Prompt
  env,        \* what AgentOptions.EnvContext renders at the moment
  compacting, \* the /compact in flight: its session and its output
  compacted,  \* sessions a /compact was reported for
  crashes

vars == <<live, mem, disk, holder, job, env, compacting, compacted, crashes>>

\* A message: who asked for it, what it is, and its attempt or block.
Entry(p, kind, tag) == [by |-> p, kind |-> kind, tag |-> tag]
Summary == Entry(None, "marker", None)
Absent == <<Entry(None, "absent", None)>> \* no stored session

Job(at, id) == [at |-> at, id |-> id, base |-> <<>>, block |-> NoBlock,
                attempt |-> "first", new |-> <<>>, emitted |-> <<>>, state |-> <<>>, failed |-> FALSE]
NoCompaction == [id |-> None, out |-> <<>>]

Init ==
  /\ live = {} /\ mem = [i \in Ids |-> <<>>] /\ disk = [i \in Ids |-> Absent]
  /\ holder = [i \in Ids |-> None]
  /\ job = [p \in Prompts |-> Job("idle", None)]
  /\ env \in Blocks
  /\ compacting = NoCompaction /\ compacted = {}
  /\ crashes = 0

-----------------------------------------------------------------------------
(* Agent.Session and Session.Prompt. *)

\* The session map holds it already, or it is loaded from the store, or new.
Open(i) ==
  /\ i \notin live /\ live' = live \cup {i}
  /\ mem' = [mem EXCEPT ![i] = IF disk[i] = Absent THEN <<>> ELSE disk[i]]
  /\ UNCHANGED <<disk, holder, job, env, compacting, compacted, crashes>>

CallPrompt(p, i) ==
  /\ i \in live /\ job[p].at = "idle"
  /\ job' = [job EXCEPT ![p] = Job("queued", i)]
  /\ UNCHANGED <<live, mem, disk, holder, env, compacting, compacted, crashes>>

Lock(p) ==
  /\ job[p].at = "queued" /\ holder[job[p].id] = None
  /\ holder' = [holder EXCEPT ![job[p].id] = p]
  /\ job' = [job EXCEPT ![p].at = "held"]
  /\ UNCHANGED <<live, mem, disk, env, compacting, compacted, crashes>>

Return(p, answer) ==
  /\ holder' = [holder EXCEPT ![job[p].id] = None]
  /\ job' = [job EXCEPT ![p].at = answer]

\* What a Compactor makes of a transcript: itself, or a marker and its last messages.
Compactions(m) == {m} \cup {<<Summary>> \o SubSeq(m, n + 1, Len(m)) : n \in 1 .. Len(m)}

\* maybeCompact: an output of the same length counts as none.
Threshed(m) ==
  IF Len(m) <= Threshold THEN {m}
  ELSE {m} \cup {o \in Compactions(m) : Len(o) # Len(m)}

\* lastEnvContextText.
LastBlock(m) ==
  LET at == {k \in DOMAIN m : m[k].kind = "env"}
  IN  IF at = {} THEN NoBlock ELSE m[CHOOSE k \in at : \A j \in at : j <= k].tag

Fresh(m, b) == b # NoBlock /\ b # LastBlock(m)

\* Compaction may fail the prompt; else the environment block is refreshed.
Prepare(p) ==
  LET i == job[p].id
  IN  /\ job[p].at = "held"
      /\ \/ /\ Len(mem[i]) > Threshold
            /\ Return(p, "error") /\ UNCHANGED mem
         \/ \E b \in Threshed(mem[i]) :
              /\ mem' = [mem EXCEPT ![i] = b]
              /\ job' = [job EXCEPT ![p].at = "run", ![p].base = b,
                                    ![p].block = IF Fresh(b, env) THEN env ELSE NoBlock]
              /\ UNCHANGED holder
      /\ UNCHANGED <<live, disk, env, compacting, compacted, crashes>>

\* What withPrompt adds to the base.
Asked(p) ==
  (IF job[p].block = NoBlock THEN <<>> ELSE <<Entry(p, "env", job[p].block)>>)
    \o <<Entry(p, "user", None)>>

Reply(p) == Entry(p, "reply", job[p].attempt)

\* The messages of a run: none, or an answer.
Runs(p) == {<<>>, <<Reply(p)>>}

\* The run's messages are appended, and the state to save is copied.
Appends(p, new, ok) ==
  /\ mem' = [mem EXCEPT ![job[p].id] = @ \o Asked(p) \o new]
  /\ job' = [job EXCEPT ![p].at = "save", ![p].new = new, ![p].failed = ~ok,
                        ![p].emitted = @ \o new, ![p].state = mem'[job[p].id]]

RunReturns(p) ==
  /\ job[p].at = "run"
  /\ \E new \in Runs(p), ok \in BOOLEAN : (ok => new # <<>>) /\ Appends(p, new, ok)
  /\ UNCHANGED <<live, disk, holder, env, compacting, compacted, crashes>>

\* Mutant: memory keeps the transcript as it was.
OverflowsAside(p) ==
  /\ job[p].at = "run" /\ job[p].attempt = "first"
  /\ \E o \in Compactions(job[p].base) :
       Len(o) \in 1 .. Len(job[p].base) - 1 /\ job' = [job EXCEPT ![p].base = o, ![p].attempt = "second"]
  /\ UNCHANGED <<live, mem, disk, holder, env, compacting, compacted, crashes>>

\* The first run overflowed the context and a compaction made the base shorter:
\* the prompt is run once more, and the messages of the first run are dropped.
Overflows(p) ==
  LET i == job[p].id
  IN  /\ job[p].at = "run" /\ job[p].attempt = "first"
      /\ \E new \in Runs(p), o \in Compactions(job[p].base) :
           /\ Len(o) \in 1 .. Len(job[p].base) - 1
           /\ mem' = [mem EXCEPT ![i] = o]
           /\ job' = [job EXCEPT ![p].base = o, ![p].attempt = "second", ![p].emitted = new]
      /\ UNCHANGED <<live, disk, holder, env, compacting, compacted, crashes>>

\* Mutant: the error of the store is dropped.
SaveIgnored(p) ==
  /\ job[p].at = "save" /\ Return(p, IF job[p].failed THEN "error" ELSE "ok")
  /\ (disk' = disk \/ disk' = [disk EXCEPT ![job[p].id] = job[p].state])
  /\ UNCHANGED <<live, mem, env, compacting, compacted, crashes>>

\* Save is atomic; it fails when the context is cancelled (stores/sqlite) or on I/O.
Save(p) ==
  /\ job[p].at = "save"
  /\ \/ /\ disk' = [disk EXCEPT ![job[p].id] = job[p].state]
        /\ Return(p, IF job[p].failed THEN "error" ELSE "ok")
     \/ Return(p, "error") /\ UNCHANGED disk
  /\ UNCHANGED <<live, mem, env, compacting, compacted, crashes>>

Step(p) == Lock(p) \/ Prepare(p) \/ RunReturns(p) \/ Overflows(p) \/ Save(p)

-----------------------------------------------------------------------------
(* The world, the store and the commands. *)

EnvChanges ==
  /\ env' \in Blocks \ {env}
  /\ UNCHANGED <<live, mem, disk, holder, job, compacting, compacted, crashes>>

Active(p) == job[p].at \in {"queued", "held", "run", "save"}

Crash ==
  /\ crashes < MaxCrashes /\ crashes' = crashes + 1
  /\ live' = {} /\ mem' = [i \in Ids |-> <<>>] /\ holder' = [i \in Ids |-> None]
  /\ job' = [p \in Prompts |-> IF Active(p) THEN Job("lost", job[p].id) ELSE job[p]]
  /\ compacting' = NoCompaction
  /\ UNCHANGED <<disk, env, compacted>>

\* Mutant: the new id may be one in use.
ForkOver(i, new) ==
  /\ "fork" \in Commands /\ i \in live /\ new # i /\ disk[i] # Absent
  /\ \E n \in 0 .. Len(disk[i]) : disk' = [disk EXCEPT ![new] = SubSeq(disk[i], 1, n)]
  /\ UNCHANGED <<live, mem, holder, job, env, compacting, compacted, crashes>>

\* /fork and /clone.  The place of a fork is a message of the transcript in memory,
\* the last of the user's role by default; what is copied, to an id nobody has used,
\* is the stored transcript up to it, and all of it by a clone.
Fork(i, new) ==
  /\ "fork" \in Commands /\ i \in live
  /\ new \notin live /\ disk[new] = Absent /\ disk[i] # Absent
  /\ \E n \in 0 .. Len(disk[i]) :
       /\ n <= Len(mem[i]) \/ n = Len(disk[i])
       /\ disk' = [disk EXCEPT ![new] = SubSeq(disk[i], 1, n)]
  /\ UNCHANGED <<live, mem, holder, job, env, compacting, compacted, crashes>>

\* /compact, with no turn running, summarises the transcript of the moment ...
StartCompact(i) ==
  /\ "compact" \in Commands /\ i \in live /\ compacting = NoCompaction
  /\ \A p \in Prompts : ~Active(p)
  /\ \E o \in Compactions(mem[i]) : Len(o) < Len(mem[i]) /\ compacting' = [id |-> i, out |-> o]
  /\ UNCHANGED <<live, mem, disk, holder, job, env, compacted, crashes>>

\* ... and writes the summary to the store when it has come.
SaveCompact ==
  /\ compacting # NoCompaction /\ compacting' = NoCompaction
  /\ disk' = [disk EXCEPT ![compacting.id] = compacting.out]
  /\ compacted' = compacted \cup {compacting.id}
  /\ UNCHANGED <<live, mem, holder, job, env, crashes>>

Next ==
  \/ \E i \in Ids : Open(i) \/ StartCompact(i)
  \/ \E p \in Prompts : Step(p) \/ \E i \in Ids : CallPrompt(p, i)
  \/ \E i, new \in Ids : Fork(i, new)
  \/ EnvChanges \/ Crash \/ SaveCompact

Spec == Init /\ [][Next]_vars

-----------------------------------------------------------------------------
Entries ==
  [by : Prompts \cup {None}, kind : {"marker", "env", "user", "reply"},
   tag : Blocks \cup {"first", "second", None}]
Stages == {"idle", "queued", "held", "run", "save", "ok", "error", "lost"}

TypeOK ==
  /\ live \subseteq Ids /\ compacted \subseteq Ids
  /\ \A i \in Ids : mem[i] \in Seq(Entries) /\ disk[i] \in Seq(Entries) \cup {Absent}
  /\ holder \in [Ids -> Prompts \cup {None}]
  /\ \A p \in Prompts : job[p].at \in Stages /\ job[p].id \in Ids \cup {None}
  /\ \A p \in Prompts, i \in Ids :
       holder[i] = p <=> job[p].id = i /\ job[p].at \in {"held", "run", "save"}
  /\ env \in Blocks /\ crashes \in 0 .. MaxCrashes

\* The transcript is exactly what the model was sent, followed by its answer: no
\* other prompt and no compaction came between.
TranscriptIsWhatTheModelSaw ==
  \A p \in Prompts : job[p].at = "save" =>
    mem[job[p].id] = job[p].base \o Asked(p) \o job[p].new

\* A transcript that a compaction has shortened.
Marked(m) == m # <<>> /\ Head(m) = Summary

\* What m keeps of all the messages of a prompt: all of them, together, or, behind a
\* marker, as many of the last ones as the compaction spared.
Keeps(m, p, all) ==
  \E a \in 0 .. Len(m), n \in 0 .. Len(all) :
    /\ {k \in DOMAIN m : m[k].by = p} = a + 1 .. a + n
    /\ \A l \in 1 .. n : m[a + l] = all[Len(all) - n + l]
    /\ n = Len(all) \/ (Marked(m) /\ (n > 0 => a = 1))

\* A prompt that returned without error is in the store across restarts, whole or,
\* behind a marker, as the suffix a compaction kept of it.  /compact overwrites it.
AnsweredIsStored ==
  \A p \in Prompts : job[p].at = "ok" /\ job[p].id \notin compacted =>
    Keeps(disk[job[p].id], p, Asked(p) \o job[p].new)

\* A stored transcript is only ever extended, or replaced by a compaction: no save
\* writes a snapshot older than what the store has.
StoreNeverGoesBack ==
  [][\A i \in Ids : disk[i] # Absent /\ i \notin compacted =>
       IsPrefix(disk[i], disk'[i]) \/ Marked(disk'[i])]_vars

\* Messages of one prompt stand together and in order, whatever was forked, loaded
\* or compacted: a marker only comes first, and a prompt is asked once.
WellFormed(m) ==
  /\ \A k \in DOMAIN m : m[k].kind = "marker" => k = 1
  /\ \A j, k \in DOMAIN m : j < k /\ m[j].by = m[k].by =>
       /\ m[k].kind # "env" /\ (m[k].kind = "user" => m[j].kind = "env")
       /\ \A l \in j .. k : m[l].by = m[k].by
TranscriptsWellFormed ==
  \A i \in Ids : WellFormed(mem[i]) /\ (disk[i] # Absent => WellFormed(disk[i]))

\* The model is told of its environment exactly when the rendering differs from the
\* last one it was told: consecutive blocks of a transcript differ.
BlocksDiffer(m) ==
  \A j, k \in DOMAIN m :
    j < k /\ m[j].kind = "env" /\ m[k].kind = "env" =>
      m[j].tag # m[k].tag \/ \E l \in j + 1 .. k - 1 : m[l].kind = "env"
BlocksOnChange == \A i \in Ids : BlocksDiffer(mem[i])

\* What a session keeps in memory and in the store is what was said in it.
TranscriptsAreSound ==
  TypeOK /\ TranscriptIsWhatTheModelSaw /\ TranscriptsWellFormed /\ BlocksOnChange

\* "NewMessages contains every message produced during this run" (session.go:115).
NewMessagesAreAll ==
  \A p \in Prompts : job[p].at = "save" => job[p].new = job[p].emitted

\* "/compact (token-aware summarization of older messages to free context window)"
\* (README.md:431).
CompactFreesContext ==
  \A p \in Prompts : job[p].at = "run" /\ job[p].id \in compacted => Summary \in ToSet(job[p].base)

-----------------------------------------------------------------------------
(***************************************************************************)
(* The inductive strengthening.  Transcripts, wherever they are kept, are  *)
(* sound and hold nothing of a prompt not run yet; a prompt works on the   *)
(* transcript in memory, whose block it knows; and memory has at least     *)
(* what the store has, or a compaction of it.                              *)
(***************************************************************************)
Jobs == [at : Stages, id : Ids \cup {None}, base : Seq(Entries), block : Blocks,
         attempt : {"first", "second"}, new : Seq(Entries), emitted : Seq(Entries),
         state : Seq(Entries), failed : BOOLEAN]

StateInv ==
  /\ mem \in [Ids -> Seq(Entries)] /\ disk \in [Ids -> Seq(Entries) \cup {Absent}]
  /\ job \in [Prompts -> Jobs]
  /\ compacting \in [id : Ids \cup {None}, out : Seq(Entries)]
  /\ compacting # NoCompaction => compacting.id \in Ids /\ Marked(compacting.out)

\* Every transcript that is kept somewhere.
Transcripts == ({mem[i] : i \in Ids} \cup {disk[i] : i \in Ids} \cup {compacting.out}) \ {Absent}

\* Only a marker is nobody's.
Attributed(m) == \A k \in DOMAIN m : m[k].by = None <=> m[k].kind = "marker"

SoundInv == \A m \in Transcripts : WellFormed(m) /\ BlocksDiffer(m) /\ Attributed(m)

UnaskedInv ==
  \A p \in Prompts : job[p].at \in {"idle", "queued", "held", "run"} =>
    \A m \in Transcripts : \A k \in DOMAIN m : m[k].by # p

\* No message of m is the last to show the block b.
ShowsOther(m, b) ==
  \A k \in DOMAIN m :
    m[k].kind = "env" /\ (\A j \in DOMAIN m : j > k => m[j].kind # "env") => m[k].tag # b

TurnInv ==
  \A p \in Prompts :
    /\ job[p].at # "idle" => job[p].id \in Ids
    /\ Active(p) => job[p].id \in live
    /\ job[p].at = "run" => /\ mem[job[p].id] = job[p].base
                            /\ job[p].block # NoBlock => ShowsOther(job[p].base, job[p].block)
    /\ job[p].at = "save" => job[p].state = mem[job[p].id]

StoreInv ==
  \A i \in live : i \notin compacted /\ disk[i] # Absent =>
    IsPrefix(disk[i], mem[i]) \/ Marked(mem[i])

AnswerInv ==
  \A p \in Prompts : job[p].at = "ok" =>
    /\ disk[job[p].id] # Absent
    /\ job[p].id \in live /\ job[p].id \notin compacted =>
         Keeps(mem[job[p].id], p, Asked(p) \o job[p].new)

\* A prompt being saved is whole in memory.
SavedInv ==
  \A p \in Prompts : job[p].at = "save" => Keeps(mem[job[p].id], p, Asked(p) \o job[p].new)

IInv == /\ TypeOK /\ StateInv /\ SoundInv /\ UnaskedInv /\ TurnInv /\ StoreInv /\ AnswerInv /\ SavedInv
        /\ TranscriptIsWhatTheModelSaw /\ AnsweredIsStored
=============================================================================
