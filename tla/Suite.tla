-------------------------------- MODULE Suite --------------------------------
(***************************************************************************)
(* The conformance runner acn_standard.cli: a list of paths is made first, *)
(* then each file is loaded and validated, while other programs may write, *)
(* replace and delete files.                                               *)
(***************************************************************************)
EXTENDS Naturals, Sequences, FiniteSets

CONSTANTS
    Files,       \* names that *.json matches, in a total order
    Contents,    \* what a file may hold
    MaxChanges   \* bound on the writes and deletions of other programs

ASSUME FilesAssumption == Files \subseteq Nat /\ IsFiniteSet(Files)

(* What a file may hold: an envelope with a signature of the given key; an *)
(* envelope with none, or of another key; an A2A message of an envelope;   *)
(* what each command refuses; no JSON, or no text; or a document on which  *)
(* a validator fails (TypeError, RecursionError).                          *)
Kinds == {"signed", "envelope", "message", "refused", "not JSON", "upsetting"}
ASSUME ContentsAssumption == Contents \subseteq Kinds
Missing == "missing"

VARIABLES
    directory,   \* the contents of each file, or Missing
    command,     \* of the command line; all but "suite" take the path of a file
    paths,       \* the files to validate
    results,     \* of the first of them: [path, conformant]
    status,      \* "starting", "running", "crashed", or the exit
    changed,     \* history: files changed since the start
    changes      \* how many changes there were
vars == <<directory, command, paths, results, status, changed, changes>>
-----------------------------------------------------------------------------
Commands == {"validate", "validate-a2a", "verify", "suite"}
Exits == {"exit 0", "exit 1"}

Init ==
    /\ directory \in [Files -> Contents \cup {Missing}]
    /\ command \in Commands
    /\ paths = <<>> /\ results = <<>>
    /\ status = "starting"
    /\ changed = {} /\ changes = 0

Present == {f \in Files : directory[f] # Missing}

(* sorted(...) of the names.                                               *)
Listings(names) ==
    {s \in UNION {[1 .. n -> names] : n \in 0 .. Cardinality(names)} :
        /\ \A i, j \in DOMAIN s : i < j => s[i] < s[j]
        /\ \A f \in names : \E i \in DOMAIN s : s[i] = f}

(* sorted(glob("*.json")), which is empty for a directory that is not there, *)
(* or the path on the command line, which need not exist.                  *)
List ==
    /\ status = "starting"
    /\ \/ command = "suite" /\ paths' \in Listings(Present)
       \/ command # "suite" /\ \E f \in Files : paths' = <<f>>
    /\ status' = "running"
    /\ UNCHANGED <<directory, command, results, changed, changes>>

(* Defect: the loop does not move on.                                      *)
FirstPath == paths[1]

NextPath == paths[Len(results) + 1]

(* What the command takes: validate_envelope, followed for "verify" by     *)
(* verify_envelope_signature, or parse_a2a_message.                        *)
Takes(c) == CASE c = "validate-a2a" -> {"message"}
              [] c = "verify"       -> {"signed"}
              [] OTHER              -> {"signed", "envelope"}

(* Defect: a file that cannot be opened is not expected.                   *)
CaughtUnlessOpen == Kinds \ {"upsetting"}

(* OSError, ValueError, ContractError and JSONDecodeError.                 *)
Caught == (Kinds \ {"upsetting"}) \cup {Missing}

Check ==
    /\ status = "running" /\ Len(results) < Len(paths)
    /\ LET content == directory[NextPath]
       IN /\ content \in Caught
          /\ results' = Append(results, [path |-> NextPath, conformant |-> content \in Takes(command)])
    /\ UNCHANGED <<directory, command, paths, status, changed, changes>>

(* Any other error ends the program: nothing is printed, of any file.      *)
Crash ==
    /\ status = "running" /\ Len(results) < Len(paths)
    /\ directory[NextPath] \notin Caught
    /\ status' = "crashed"
    /\ UNCHANGED <<directory, command, paths, results, changed, changes>>

(* Defect: the exit code is that of the last file.                         *)
ExitCodeOfLast(rs) == IF rs = <<>> \/ rs[Len(rs)].conformant THEN "exit 0" ELSE "exit 1"

ExitCode(rs) == IF \A i \in DOMAIN rs : rs[i].conformant THEN "exit 0" ELSE "exit 1"

Report ==
    /\ status = "running" /\ Len(results) = Len(paths)
    /\ status' = ExitCode(results)
    /\ UNCHANGED <<directory, command, paths, results, changed, changes>>

(* Another program writes or deletes a file.                               *)
Change(f, content) ==
    /\ changes < MaxChanges
    /\ directory[f] # content
    /\ directory' = [directory EXCEPT ![f] = content]
    /\ changed' = changed \cup {f}
    /\ changes' = changes + 1
    /\ UNCHANGED <<command, paths, results, status>>

Next == \/ List \/ Check \/ Crash \/ Report
        \/ \E f \in Files, c \in Contents \cup {Missing} : Change(f, c)

Spec == Init /\ [][Next]_vars /\ WF_vars(List \/ Check \/ Crash \/ Report)
-----------------------------------------------------------------------------
(* The results so far are of the first paths, one for each, in their order. *)
TypeOK ==
    /\ directory \in [Files -> Contents \cup {Missing}]
    /\ status \in {"starting", "running", "crashed"} \cup Exits
    /\ Len(results) <= Len(paths)
    /\ \A i \in DOMAIN results : results[i].path = paths[i]

(* Exit code 0 is true of every file that did not change: it is, or is not *)
(* in the suite but missing, what the command takes.  Exit code 1 is true  *)
(* of one of the files on the list, which is not what the command takes,   *)
(* or was changed: a change of any other file does not excuse it.          *)
VerdictTruthful ==
    /\ status = "exit 0" =>
         /\ command = "suite" => \A f \in Present \ changed : directory[f] \in Takes(command)
         /\ command # "suite" => paths[1] \in changed \/ directory[paths[1]] \in Takes(command)
    /\ status = "exit 1" =>
         \E i \in DOMAIN paths : paths[i] \in changed \/ directory[paths[i]] \notin Takes(command)

(* "suite is machine readable": a run ends with a report of all its files, *)
(* whatever they hold and however they change while it runs, if they are   *)
(* never of the kind that upsets the validator (which the handler at       *)
(* cli.py:62 lets through: see Crash).                                     *)
Reports == [](\A f \in Files : directory[f] # "upsetting") =>
               <>(status \in Exits /\ Len(results) = Len(paths))
=============================================================================
