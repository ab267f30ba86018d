--------------------------- MODULE AttachmentImport ---------------------------
(* importChatGptAttachment: each call downloads into a temporary file of its *)
(* own and gives it the name of the destination, by a hard link or an        *)
(* exclusive copy, or by a rename when it may overwrite.  All calls have the *)
(* same destination, which others change as well.  Bytes, digests, types and *)
(* addresses are left out: what fails for one of them is Throws.             *)
EXTENDS ToolHost, Naturals

CONSTANT MaxEdits

ASSUME EditsAssumption == MaxEdits \in Nat
ASSUME OutcomesAssumption == None \notin {"imported", "failed"}

VARIABLES
    target,     \* what has the name of the destination, and whether it is all there
    temp,       \* the temporary file of each call
    import,     \* what the call of each import remembers, and its outcome
    edits       \* how often others changed the destination

importVars == <<target, temp, import, edits>>

Nothing == [is |-> "absent", whole |-> TRUE]
NoImport == [overwrite |-> FALSE, late |-> FALSE, outcome |-> None,
             placed |-> FALSE, kept |-> FALSE]

ImportPc == {"import", "opening", "writing", "recheck", "commit", "copy",
             "copying", "unlink", "unlinkCopy", "cleanup"}

ImportInit ==
    /\ target = Nothing
    /\ temp = [c \in Calls |-> "none"]
    /\ import = [c \in Calls |-> NoImport]
    /\ edits = 0

\* late: the temporary file may still be opened after its download failed.
\* placed, kept: history, the call took the destination's name; a removal failed.
ImportType ==
    /\ target \in [is : Calls \cup {"absent", "other", "directory"}, whole : BOOLEAN]
    /\ temp \in [Calls -> {"none", "part", "whole", "late"}]
    /\ import \in [Calls -> [overwrite : BOOLEAN, late : BOOLEAN,
                             outcome : {None, "imported", "failed"}, placed : BOOLEAN,
                             kept : BOOLEAN]]
    /\ edits \in 0..MaxEdits

IsFile == target.is # "directory"
Free == target.is = "absent"

-----------------------------------------------------------------------------
(* One import *)

AskImport(c, overwrite) ==
    /\ Ask(c, "import")
    /\ import' = [import EXCEPT ![c].overwrite = overwrite]
    /\ UNCHANGED <<target, temp, edits>>

\* Not authorized, read-only, a path outside the workspace, or no regular file there.
ImportRefused(c) ==
    /\ Step(c, "import", "over")
    /\ import' = [import EXCEPT ![c].outcome = "failed"]
    /\ UNCHANGED <<target, temp, edits>>

\* The parent is there and the destination is a file or free; the request is sent.  Redirects
\* and response are awaited, then the temporary file is opened.
Validate(c) ==
    /\ IsFile
    /\ Step(c, "import", "opening")
    /\ UNCHANGED importVars

OpenTemp(c) ==
    /\ Step(c, "opening", "writing")
    /\ temp' = [temp EXCEPT ![c] = "part"]
    /\ UNCHANGED <<target, import, edits>>

Downloaded(c) ==
    /\ Step(c, "writing", "recheck")
    /\ temp' = [temp EXCEPT ![c] = "whole"]
    /\ UNCHANGED <<target, import, edits>>

\* Anything before the file has its name throws: the response, its size, a file operation, the
\* digest, EEXIST.  An error or timeout of the request does not wait for the opening of the file.
Throws(c) ==
    /\ pc[c] \in {"opening", "writing", "recheck", "commit", "copy"}
    /\ Step(c, pc[c], "cleanup")
    /\ \E late \in BOOLEAN :
          /\ late => pc[c] = "opening"
          /\ import' = [import EXCEPT ![c].outcome = "failed", ![c].late = late]
    /\ UNCHANGED <<target, temp, edits>>

\* The file that the failed download still had to open.
LateOpen(c) ==
    /\ Running
    /\ import[c].late
    /\ import' = [import EXCEPT ![c].late = FALSE]
    /\ temp' = [temp EXCEPT ![c] = "late"]
    /\ UNCHANGED <<hostVars, pc, target, edits>>

\* The destination is validated again, the digest compared, the destination looked at for what
\* will be reported as overwritten, and validated once more.
Recheck(c) ==
    /\ IsFile
    /\ Step(c, "recheck", "commit")
    /\ UNCHANGED importVars

\* The call takes the name of the destination.
Place(c, whole, outcome) ==
    /\ target' = [is |-> c, whole |-> whole]
    /\ import' = [import EXCEPT ![c].placed = TRUE, ![c].outcome = outcome]

\* Mutant: the digest is compared when the file has its name.
MutPlacedBy(c) == \E outcome \in {"imported", "failed"} : Place(c, TRUE, outcome)
PlacedBy(c) == Place(c, TRUE, "imported")

\* overwrite: rename
Rename(c) ==
    /\ import[c].overwrite
    /\ IsFile
    /\ Step(c, "commit", "cleanup")
    /\ PlacedBy(c)
    /\ temp' = [temp EXCEPT ![c] = "none"]
    /\ UNCHANGED edits

\* link, when the destination is free (EEXIST is Throws).
Link(c) ==
    /\ ~import[c].overwrite
    /\ Free
    /\ Step(c, "commit", "unlink")
    /\ Place(c, TRUE, None)
    /\ UNCHANGED <<temp, edits>>

\* link fails for another reason than EEXIST: copyFile is tried.
LinkFails(c) ==
    /\ ~import[c].overwrite
    /\ Step(c, "commit", "copy")
    /\ UNCHANGED importVars

\* Mutant: copyFile without COPYFILE_EXCL.
MutMayCopy == IsFile
\* copyFile with COPYFILE_EXCL (EEXIST is Throws).
MayCopy == Free

Copy(c) ==
    /\ MayCopy
    /\ Step(c, "copy", "copying")
    /\ Place(c, FALSE, None)
    /\ UNCHANGED <<temp, edits>>

\* The copy is written to the file that was created, whatever has its name by now.
CopyEnds(c) ==
    /\ Step(c, "copying", "unlinkCopy")
    /\ target' = IF target.is = c THEN [is |-> c, whole |-> TRUE] ELSE target
    /\ UNCHANGED <<temp, import, edits>>

\* A copy that fails removes the destination; libuv does so by its name, Windows the copy.
CopyFails(c) ==
    /\ Step(c, "copying", "cleanup")
    /\ target' = IF target.is = c \/ (platform = "posix" /\ IsFile) THEN Nothing ELSE target
    /\ import' = [import EXCEPT ![c].outcome = "failed"]
    /\ UNCHANGED <<temp, edits>>

\* rm of the temporary file after link or copyFile.
Unlink(c) ==
    /\ pc[c] \in {"unlink", "unlinkCopy"}
    /\ Step(c, pc[c], "cleanup")
    /\ temp' = [temp EXCEPT ![c] = "none"]
    /\ import' = [import EXCEPT ![c].outcome = "imported"]
    /\ UNCHANGED <<target, edits>>

\* It fails: after link the file is copied as well, after copyFile the error is thrown.
UnlinkFails(c) ==
    /\ pc[c] \in {"unlink", "unlinkCopy"}
    /\ Step(c, pc[c], IF pc[c] = "unlink" THEN "copy" ELSE "cleanup")
    /\ import' = [import EXCEPT ![c].kept = TRUE,
                                ![c].outcome = IF pc[c] = "unlink" THEN @ ELSE "failed"]
    /\ UNCHANGED <<target, temp, edits>>

\* finally: the temporary file is removed, or the error of its removal is swallowed.
Cleanup(c) ==
    /\ Step(c, "cleanup", "over")
    /\ \E removed \in BOOLEAN :
          /\ temp' = [temp EXCEPT ![c] = IF removed THEN "none" ELSE @]
          /\ import' = [import EXCEPT ![c].kept = @ \/ (~removed /\ temp[c] # "none")]
    /\ UNCHANGED <<target, edits>>

ImportStep(c) ==
    \/ ImportRefused(c) \/ Validate(c) \/ OpenTemp(c) \/ Downloaded(c)
    \/ Throws(c) \/ Recheck(c)
    \/ Rename(c) \/ Link(c) \/ LinkFails(c) \/ Copy(c) \/ CopyEnds(c) \/ CopyFails(c)
    \/ Unlink(c) \/ UnlinkFails(c) \/ Cleanup(c)

-----------------------------------------------------------------------------
\* file_write, a terminal, a Luna turn or a user changes what is there.
Edit ==
    /\ Running
    /\ edits < MaxEdits
    /\ edits' = edits + 1
    /\ \E is \in {"absent", "other", "directory"} :
          /\ is # target.is
          /\ target' = [is |-> is, whole |-> TRUE]
    /\ UNCHANGED <<hostVars, pc, temp, import>>
=============================================================================
