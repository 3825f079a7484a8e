--------------------------- MODULE LanguageServer ---------------------------
(***************************************************************************)
(* The loop of the language server (lsp/server.psm, with lsp/analysis.psm  *)
(* and lsp/documents.psm): the client's edits and requests, the check of a *)
(* program in a child process, and the requests that wait for it.          *)
(*                                                                         *)
(* One thread serves everything, so an action is one message or one event  *)
(* of the child.  A text is only whether the compiler has something to say *)
(* about it, and an index is the texts that the check read.  The client    *)
(* opens no manifest, and a request is one that reads an index.            *)
(***************************************************************************)
EXTENDS Integers, Sequences

CONSTANTS
  Sources,     \* the .psm files
  Programs,    \* the programs that can be checked
  Layouts,     \* the workspaces, see Workspace
  Requests,    \* the ids of the client's requests
  MaxEdits,    \* bound: how many documents are opened, changed, saved or closed
  Faults,      \* "start": a child may not start; "first": a program's first check may fail
  NoSnapshot   \* no index, no diagnostics

Texts == {"clean", "bad"}

VARIABLES
  layout,     \* the workspace
  open,       \* Documents: the open ones
  text,       \* what the compiler reads for a file: the buffer or the file
  disk,       \* what a closed file says
  attempts,   \* Documents.attempts
  dirty,      \* Server.dirty, as a set: its order is the order of the checks
  run,        \* Analysis: the program and the texts of the check in flight
  index,      \* each program's index file
  shown,      \* the list of diagnostics the client last got for a file
  published,  \* publishedUris and publishedOwners
  lost,       \* programs whose last check gave no index (history)
  pending,    \* Server.pending: the requests that wait
  server,     \* "serving", "spinning" in flushPending, or "exited"
  edits       \* how many edits the client has still to make

documentVars == <<layout, open, text, disk, edits>>
resultVars == <<index, shown, published, lost>>
serverVars == <<documentVars, resultVars, attempts, dirty, run, pending, server>>

(* What lsp/projects.psm makes of the files: the programs to try for each,   *)
(* the entry of each program, the files it reads; and which files the client *)
(* opens.  There is always one to try, the file alone at the last.           *)
Workspace ==
  [tries : [Sources -> Seq(Programs) \ {<<>>}], entry : [Programs -> Sources],
   reads : [Programs -> SUBSET Sources], opens : SUBSET Sources]

ASSUME LayoutsAssumption == Layouts \subseteq Workspace
ASSUME NoSnapshotAssumption == NoSnapshot \notin Programs

Idle == [program |-> NoSnapshot, texts |-> NoSnapshot]

ServerInit ==
  /\ layout \in Layouts
  /\ open = {} /\ dirty = {} /\ pending = <<>>
  /\ disk \in [Sources -> Texts] /\ text = disk
  /\ attempts = [f \in Sources |-> 0]
  /\ run = Idle
  /\ index = [p \in Programs |-> NoSnapshot]
  /\ shown = [f \in Sources |-> NoSnapshot]
  /\ published = {} /\ lost = {}
  /\ server = "serving"
  /\ edits = MaxEdits

-----------------------------------------------------------------------------
(* programFor and programCount *)
ProgramOf(f, attempt) ==
  LET tries == layout.tries[f]
  IN tries[IF attempt < Len(tries) THEN attempt + 1 ELSE Len(tries)]

ProgramFor(f) == ProgramOf(f, attempts[f])

Active == run # Idle
Stale == dirty # {} \/ Active

(* What a check of the program reads now.                                    *)
Snapshot(p) == [f \in layout.reads[p] |-> text[f]]

(* markDirty: the run in flight is about text that no longer exists.         *)
MarkDirty(f) ==
  /\ run' = Idle
  /\ dirty' = dirty \cup {f}

Serving == server = "serving"

-----------------------------------------------------------------------------
(* didOpen and didChange, which differ in nothing: either opens the document *)
(* or replaces its text.                                                     *)
DidChange(f, t) ==
  /\ Serving /\ edits > 0 /\ f \in layout.opens
  /\ edits' = edits - 1
  /\ open' = open \cup {f}
  /\ text' = [text EXCEPT ![f] = t]
  /\ MarkDirty(f)
  /\ UNCHANGED <<layout, disk, attempts, resultVars, pending, server>>

(* didClose: the document goes back to what is on disk.                      *)
DidClose(f) ==
  /\ Serving /\ edits > 0 /\ f \in open
  /\ edits' = edits - 1
  /\ open' = open \ {f}
  /\ text' = [text EXCEPT ![f] = disk[f]]
  /\ attempts' = [attempts EXCEPT ![f] = 0]
  /\ MarkDirty(f)
  /\ UNCHANGED <<layout, disk, resultVars, pending, server>>

(* didSave, after the client has written the file: markAllDirty.             *)
DidSave(f) ==
  /\ Serving /\ edits > 0 /\ f \in open
  /\ edits' = edits - 1
  /\ disk' = [disk EXCEPT ![f] = text[f]]
  /\ run' = Idle
  /\ dirty' = dirty \cup open
  /\ UNCHANGED <<layout, open, text, attempts, resultVars, pending, server>>

(* exit, or the end of the input.                                            *)
Exit ==
  /\ Serving
  /\ server' = "exited"
  /\ run' = Idle
  /\ UNCHANGED <<documentVars, resultVars, attempts, dirty, pending>>

-----------------------------------------------------------------------------
(* startAnalysis: the program of the first dirty file, which takes all of    *)
(* its dirty files with it.                                                  *)
StartAnalysis(first, started) ==
  LET p == ProgramFor(first)
  IN /\ dirty' = {f \in dirty : ProgramFor(f) # p}
     /\ run' = IF started THEN [program |-> p, texts |-> Snapshot(p)] ELSE Idle
     /\ lost' = IF started THEN lost \ {p} ELSE lost \cup {p}

(* tick, in the turn of the loop in which the debounce has passed.           *)
Tick ==
  /\ Serving /\ ~Active
  /\ \E first \in dirty, started \in IF "start" \in Faults THEN BOOLEAN ELSE {TRUE} :
        StartAnalysis(first, started)
  /\ UNCHANGED <<documentVars, index, shown, published, attempts, pending, server>>

-----------------------------------------------------------------------------
(* A request has no index to read yet: it asks for the check and waits.      *)
Unchecked(f, indexes) == indexes[ProgramFor(f)] = NoSnapshot /\ f \in open

(* flushPending.  Its loop looks at `stale` once, before it starts: a        *)
(* request that asks for a check makes the text stale, is put back and is    *)
(* met again for ever, with every one after it.                              *)
FlushPending(indexes) ==
  LET asks == {i \in DOMAIN pending : Unchecked(pending[i].file, indexes)}
      first == CHOOSE i \in asks : \A j \in asks : i <= j
  IN IF asks = {}
     THEN /\ pending' = <<>>
          /\ UNCHANGED <<dirty, server>>
     ELSE /\ pending' = SubSeq(pending, first, Len(pending))
          /\ dirty' = {pending[first].file}
          /\ server' = "spinning"

(* A check that is killed, or that cannot write its index: of a program that *)
(* has an index, or by choice.                                               *)
MayFail == index[run.program] # NoSnapshot \/ "first" \in Faults

(* Mutant: the requests that wait for a check that dies are not served.      *)
CheckDies_NoFlush ==
  /\ Serving /\ Active /\ MayFail
  /\ run' = Idle
  /\ lost' = lost \cup {run.program}
  /\ UNCHANGED <<documentVars, index, shown, published, attempts, dirty, pending, server>>

(* pumpAnalysis at the end of a check that died: what was shown before stays.*)
CheckDies ==
  /\ Serving /\ Active /\ MayFail
  /\ run' = Idle
  /\ lost' = lost \cup {run.program}
  /\ IF dirty = {} THEN FlushPending(index) ELSE UNCHANGED <<dirty, pending, server>>
  /\ UNCHANGED <<documentVars, index, shown, published, attempts>>

(* publish: a list for the entry, for every file with something to say and   *)
(* for every open document the program read; and the lists of this program   *)
(* that are none of these are withdrawn.                                     *)
Publish ==
  LET p == run.program
      files == {layout.entry[p]} \cup {f \in layout.reads[p] : run.texts[f] = "bad" \/ f \in open}
  IN /\ shown' = [f \in Sources |-> IF f \in files THEN run.texts
                                    ELSE IF <<f, p>> \in published THEN NoSnapshot
                                    ELSE shown[f]]
     /\ published' = {x \in published : x[2] # p} \cup (files \X {p})

(* nextPrograms: an open document checked through this program and not read  *)
(* by it (P1075) moves on to its next.                                       *)
MovesOn(f) ==
  /\ f \in open \ layout.reads[run.program]
  /\ ProgramFor(f) = run.program
  /\ attempts[f] + 1 < Len(layout.tries[f])

(* Mutant: a document that no program has read yet is not checked again.     *)
NextPrograms_NotDirty ==
  /\ attempts' = [f \in Sources |-> IF MovesOn(f) THEN attempts[f] + 1 ELSE attempts[f]]
  /\ UNCHANGED dirty

NextPrograms ==
  /\ attempts' = [f \in Sources |-> IF MovesOn(f) THEN attempts[f] + 1 ELSE attempts[f]]
  /\ dirty' = dirty \cup {f \in Sources : MovesOn(f)}

(* pumpAnalysis at the end of a check that has a result.  The index it wrote *)
(* replaces the last; when it wrote none, the last stays.                    *)
CheckEnds ==
  /\ Serving /\ Active
  /\ run' = Idle
  /\ \/ index' = [index EXCEPT ![run.program] = run.texts] /\ UNCHANGED lost
     \/ MayFail /\ lost' = lost \cup {run.program} /\ UNCHANGED index
  /\ Publish
  /\ IF dirty = {} /\ \A f \in Sources : ~MovesOn(f)
     THEN UNCHANGED attempts /\ FlushPending(index')
     ELSE NextPrograms /\ UNCHANGED <<pending, server>>
  /\ UNCHANGED documentVars

-----------------------------------------------------------------------------
Asked(r) == \E i \in DOMAIN pending : pending[i].id = r

(* feature: the request waits while the text is stale, asks for the check    *)
(* of a program that has none, and is answered from the index otherwise.     *)
Feature(r, f) ==
  /\ Serving /\ ~Asked(r) /\ f \in layout.opens
  /\ Stale \/ Unchecked(f, index)
  /\ pending' = Append(pending, [id |-> r, file |-> f])
  /\ IF Stale THEN UNCHANGED <<dirty, run>> ELSE MarkDirty(f)
  /\ UNCHANGED <<documentVars, resultVars, attempts, server>>

(* $/cancelRequest of a request that waits.                                  *)
CancelRequest(r) ==
  /\ Serving /\ Asked(r)
  /\ pending' = SelectSeq(pending, LAMBDA x : x.id # r)
  /\ UNCHANGED <<documentVars, resultVars, attempts, dirty, run, server>>

ServerNext ==
  \/ \E f \in Sources :
       \/ \E t \in Texts : DidChange(f, t)
       \/ DidClose(f)
       \/ DidSave(f)
       \/ \E r \in Requests : Feature(r, f)
  \/ \E r \in Requests : CancelRequest(r)
  \/ Exit
  \/ Tick
  \/ CheckDies
  \/ CheckEnds

(* The debounce passes, and a child that runs comes to an end.               *)
ServerFairness == WF_serverVars(Tick) /\ WF_serverVars(CheckDies \/ CheckEnds)

ServerSpec == ServerInit /\ [][ServerNext]_serverVars /\ ServerFairness

-----------------------------------------------------------------------------
(* The documents of a workspace are of one program: the client opens one at  *)
(* most, or the most likely program of each is the same and reads them all.  *)
OneProgramAtATime ==
  \A l \in Layouts :
    \/ \A f, g \in l.opens : f = g
    \/ \E p \in Programs : \A f \in l.opens : l.tries[f][1] = p /\ f \in l.reads[p]

(* "The rest read the index of the program the file belongs to, as of the    *)
(* text it has now" (feature): when nothing is stale, so that a request is   *)
(* answered from the index, the index and the diagnostics of every open      *)
(* document are those of the texts as they are, or the check of them gave no *)
(* index and the last answer stays.                                          *)
SettledIsCurrent ==
  Serving /\ ~Stale =>
    \A f \in open :
      LET p == ProgramFor(f)
      IN \/ p \in lost
         \/ index[p] = Snapshot(p) /\ (f \in layout.reads[p] => shown[f] = Snapshot(p))

(* A request that waits is answered, unless it is cancelled or the client    *)
(* goes away.                                                                *)
RequestsAnswered == \A r \in Requests : Asked(r) ~> (~Asked(r) \/ server = "exited")
=============================================================================
