----------------------------- MODULE ConfigFile -----------------------------
(***************************************************************************)
(* The file-backed tenant config and the editors that change it.           *)
(*                                                                         *)
(* GET /raw and PUT /raw of the services mount                             *)
(* (rs2-core/src/services/services_config.rs), put_config                  *)
(* (rs2-core/src/runtime.rs) and FileConfigLoader::save_raw                *)
(* (rs2-server/src/lib.rs), for one tenant.  No lock spans them, so every  *)
(* file-system call is a step of its own.  The purge that ends put_config  *)
(* is the subject of TenantCache.  A file-system call runs on a thread of  *)
(* its own: it goes on when the PUT that made it is dropped.               *)
(*                                                                         *)
(* A config is the set of editors whose change it contains, and the value  *)
(* of its secret; its version is its content.  A file name points to an    *)
(* inode, because save_raw writes through a descriptor while the name it   *)
(* opened may be renamed by another save.                                  *)
(***************************************************************************)
EXTENDS Naturals, FiniteSets

CONSTANTS
    Editors,         \* clients that GET, edit and PUT the config
    NoInode,         \* a name that does not exist
    First,           \* the config's first inode, and its first secret
    Mask,            \* SECRET_MASK
    Empty,           \* a file just truncated
    Torn,            \* a file that mixes two writes
    NoConfig,        \* nothing read
    UseIfMatch       \* editors that send If-Match

ASSUME ConfigFileAssumption ==
    /\ IsFiniteSet(Editors)
    /\ UseIfMatch \subseteq Editors
    /\ {NoInode, First} \cap Editors = {}
    /\ NoInode # First

VARIABLES
    file,       \* inode of <tenant>.json
    tmp,        \* inode of <tenant>.json.tmp
    inodes,     \* content of each inode
    pc,         \* where each editor is
    seen,       \* the config an editor's GET returned
    body,       \* the config its PUT has yet to write
    fd,         \* the inode its write has open
    crashed,    \* whether the node has crashed (bound: once)
    replaces,   \* whether the platform's rename replaces an existing file
    dropped,    \* the PUTs that were dropped with a file-system call under way
    refused,    \* whether the file system ever refused a rename it could do
    overlapped  \* whether two PUTs were ever in progress at once

vars == <<file, tmp, inodes, pc, seen, body, fd, crashed, replaces, dropped, refused,
          overlapped>>

Inodes == Editors \cup {First}

Secrets == Editors \cup {First}

Config == [edits : SUBSET Editors, secret : Secrets]

Sent == [edits : SUBSET Editors, secret : Secrets \cup {Mask}]

\* A PUT is in progress from the moment its handler has read its body, and a
\* dropped one until its file-system call is over.
InPut == {e \in Editors : pc[e] \in {"checking", "opening", "writing", "renaming",
                                     "removing", "renamingAgain"}}

\* The text behind the config's name, Empty when there is none to read.
Text == IF file = NoInode THEN Empty ELSE inodes[file]

\* load_raw: the config, if the file exists and parses.
Readable == Text \in Config

Init ==
    /\ file = First
    /\ tmp = NoInode
    /\ inodes = [i \in Inodes |->
                   IF i = First THEN [edits |-> {}, secret |-> First] ELSE Empty]
    /\ pc = [e \in Editors |-> "idle"]
    /\ seen = [e \in Editors |-> NoConfig]
    /\ body = [e \in Editors |-> NoConfig]
    /\ fd = [e \in Editors |-> NoInode]
    /\ crashed = FALSE
    /\ replaces \in BOOLEAN
    /\ dropped = {}
    /\ refused = FALSE
    /\ overlapped = FALSE

\* A file-system call is over: its PUT goes on, unless it was dropped.
Over(e, next) ==
    /\ pc' = [pc EXCEPT ![e] = IF e \in dropped THEN "lost" ELSE next]
    /\ dropped' = dropped \ {e}

\* Mutation of Get: a text that does not parse is answered.
GetUnparsed(e) ==
    /\ pc[e] = "idle"
    /\ seen' = [seen EXCEPT ![e] = Text]
    /\ pc' = [pc EXCEPT ![e] = "read"]
    /\ UNCHANGED <<file, tmp, inodes, body, fd, crashed, replaces, dropped,
                   refused, overlapped>>

\* GET /raw: the config with its secrets masked, and its version.
Get(e) ==
    /\ pc[e] = "idle"
    /\ IF Readable
       THEN /\ seen' = [seen EXCEPT ![e] = Text]
            /\ pc' = [pc EXCEPT ![e] = "read"]
       ELSE /\ pc' = [pc EXCEPT ![e] = "failed"]
            /\ UNCHANGED seen
    /\ UNCHANGED <<file, tmp, inodes, body, fd, crashed, replaces, dropped,
                   refused, overlapped>>

\* Mutation of Restored: the mask takes the secret of the config once read.
RestoredStale(e, sent) ==
    IF sent.secret = Mask THEN [sent EXCEPT !.secret = seen[e].secret] ELSE sent

\* restore_secrets: a mask takes the stored value of the config read now.
Restored(e, sent) ==
    IF sent.secret = Mask /\ Readable THEN [sent EXCEPT !.secret = Text.secret] ELSE sent

\* Mutation of HasMask: the marker left over is not looked for.
HasMaskNever(sent) == FALSE

\* has_mask: a marker with no stored value to restore.
HasMask(sent) == sent.secret = Mask

\* Mutation of AfterDryBuild: If-Match is ignored.
AfterDryBuildUnchecked(e) == "opening"

\* save_raw starts with the version check only when If-Match was sent.
AfterDryBuild(e) == IF e \in UseIfMatch THEN "checking" ELSE "opening"

\* PUT /raw up to save_raw: restore secrets from the config on disk, then
\* parse and dry-build.  rotated: the editor supplies a new secret in place
\* of the mask; valid: the edited config parses and builds.
Put(e, rotated, valid) ==
    /\ pc[e] = "read"
    /\ LET sent == [edits |-> seen[e].edits \cup {e},
                    secret |-> IF rotated THEN e ELSE Mask]
           whole == Restored(e, sent)
       IN  IF HasMask(whole) \/ ~valid
           THEN /\ pc' = [pc EXCEPT ![e] = "rejected"]
                /\ UNCHANGED body
           ELSE /\ pc' = [pc EXCEPT ![e] = AfterDryBuild(e)]
                /\ body' = [body EXCEPT ![e] = whole]
    /\ overlapped' = (overlapped \/ InPut # {})
    /\ UNCHANGED <<file, tmp, inodes, seen, fd, crashed, replaces, dropped, refused>>

\* save_raw: the file still has the version the editor read, else 409.
VersionCheck(e) ==
    /\ pc[e] = "checking"
    /\ Over(e, IF Text = seen[e] THEN "opening" ELSE "conflict")
    /\ UNCHANGED <<file, tmp, inodes, seen, body, fd, crashed, replaces, refused,
                   overlapped>>

\* Mutation of OpenTmp: the config itself is opened for writing.
OpenInPlace(e) ==
    /\ pc[e] = "opening"
    /\ LET i == IF file = NoInode THEN e ELSE file
       IN  /\ file' = i
           /\ tmp' = e
           /\ inodes' = [inodes EXCEPT ![i] = Empty, ![e] = body[e]]
           /\ fd' = [fd EXCEPT ![e] = i]
    /\ pc' = [pc EXCEPT ![e] = "writing"]
    /\ UNCHANGED <<seen, body, crashed, replaces, dropped, refused, overlapped>>

\* fs::write(tmp), first half: create the file, or truncate the one there.
OpenTmp(e) ==
    /\ pc[e] = "opening"
    /\ LET i == IF tmp = NoInode THEN e ELSE tmp
       IN  /\ tmp' = i
           /\ inodes' = [inodes EXCEPT ![i] = Empty]
           /\ fd' = [fd EXCEPT ![e] = i]
    /\ pc' = [pc EXCEPT ![e] = "writing"]
    /\ UNCHANGED <<file, seen, body, crashed, replaces, dropped, refused, overlapped>>

\* fs::write(tmp), second half: the text lands at offset 0.  Over the longer
\* text of another save it leaves that text's tail.
WriteTmp(e) ==
    /\ pc[e] = "writing"
    /\ \E text \in {body[e]} \cup (IF inodes[fd[e]] = Empty THEN {} ELSE {Torn}) :
         inodes' = [inodes EXCEPT ![fd[e]] = text]
    /\ fd' = [fd EXCEPT ![e] = NoInode]
    /\ body' = [body EXCEPT ![e] = NoConfig]
    /\ Over(e, "renaming")
    /\ UNCHANGED <<file, tmp, seen, crashed, replaces, refused, overlapped>>

\* fs::write(tmp) fails: it cannot open the file, or writes a part of the text.
WriteError(e) ==
    /\ \/ pc[e] = "opening" /\ UNCHANGED inodes
       \/ pc[e] = "writing" /\ inodes' = [inodes EXCEPT ![fd[e]] = Torn]
    /\ fd' = [fd EXCEPT ![e] = NoInode]
    /\ body' = [body EXCEPT ![e] = NoConfig]
    /\ Over(e, "failed")
    /\ UNCHANGED <<file, tmp, seen, crashed, replaces, refused, overlapped>>

\* Mutation of Rename: the target is always removed first.
RenameRemoving(e) ==
    /\ pc[e] = "renaming"
    /\ pc' = [pc EXCEPT ![e] = "removing"]
    /\ UNCHANGED <<file, tmp, inodes, seen, body, fd, crashed, replaces, dropped,
                   refused, overlapped>>

\* rename(tmp, path); on failure the target is removed and renamed to again.
Rename(e) ==
    /\ pc[e] = "renaming"
    /\ IF tmp # NoInode /\ (replaces \/ file = NoInode)
       THEN /\ file' = tmp
            /\ tmp' = NoInode
            /\ Over(e, "saved")
       ELSE /\ Over(e, "removing")
            /\ UNCHANGED <<file, tmp>>
    /\ UNCHANGED <<inodes, seen, body, fd, crashed, replaces, refused, overlapped>>

\* A failure to remove the target is not looked at.
Remove(e) ==
    /\ pc[e] = "removing"
    /\ file' \in {file, NoInode}
    /\ Over(e, "renamingAgain")
    /\ UNCHANGED <<tmp, inodes, seen, body, fd, crashed, replaces, refused, overlapped>>

RenameAgain(e) ==
    /\ pc[e] = "renamingAgain"
    /\ IF tmp # NoInode /\ (replaces \/ file = NoInode)
       THEN /\ file' = tmp
            /\ tmp' = NoInode
            /\ Over(e, "saved")
       ELSE /\ Over(e, "failed")
            /\ UNCHANGED <<file, tmp>>
    /\ UNCHANGED <<inodes, seen, body, fd, crashed, replaces, refused, overlapped>>

\* A rename the file system refuses for a reason of its own.
RenameRefused(e) ==
    /\ \/ pc[e] = "renaming" /\ Over(e, "removing")
       \/ pc[e] = "renamingAgain" /\ Over(e, "failed")
    /\ refused' = TRUE
    /\ UNCHANGED <<file, tmp, inodes, seen, body, fd, crashed, replaces, overlapped>>

\* The PUT's future is dropped, before its next file-system call is made or
\* while it runs.
Drop(e) ==
    /\ e \in InPut \ dropped
    /\ \/ pc[e] # "writing" /\ pc' = [pc EXCEPT ![e] = "lost"] /\ UNCHANGED dropped
       \/ dropped' = dropped \cup {e} /\ UNCHANGED pc
    /\ UNCHANGED <<file, tmp, inodes, seen, body, fd, crashed, replaces, refused, overlapped>>

\* The node stops and restarts: PUTs in progress end where they are, and what
\* they left on disk, the temporary file included, stays.
Crash ==
    /\ ~crashed
    /\ crashed' = TRUE
    /\ pc' = [e \in Editors |-> IF e \in InPut THEN "lost" ELSE pc[e]]
    /\ fd' = [e \in Editors |-> NoInode]
    /\ body' = [e \in Editors |-> NoConfig]
    /\ dropped' = {}
    /\ UNCHANGED <<file, tmp, inodes, seen, replaces, refused, overlapped>>

Next ==
    \/ \E e \in Editors :
         \/ Get(e)
         \/ \E rotated, valid \in BOOLEAN : Put(e, rotated, valid)
         \/ VersionCheck(e)
         \/ OpenTmp(e)
         \/ WriteTmp(e)
         \/ Rename(e)
         \/ Remove(e)
         \/ RenameAgain(e)
         \/ WriteError(e)
         \/ RenameRefused(e)
         \/ Drop(e)
    \/ Crash

Spec == Init /\ [][Next]_vars

(***************************************************************************)
(* Properties.                                                             *)
(***************************************************************************)
\* Every variable keeps its type.
TypeOK ==
    /\ file \in Inodes \cup {NoInode}
    /\ tmp \in Inodes \cup {NoInode}
    /\ inodes \in [Inodes -> Sent \cup {Empty, Torn}]
    /\ pc \in [Editors -> {"idle", "read", "checking", "opening", "writing", "renaming",
                           "removing", "renamingAgain", "saved", "rejected", "conflict",
                           "failed", "lost"}]
    /\ seen \in [Editors -> Config \cup {NoConfig}]
    /\ body \in [Editors -> Sent \cup {NoConfig}]
    /\ fd \in [Editors -> Inodes \cup {NoInode}]
    /\ dropped \subseteq Editors
    /\ {crashed, replaces, refused, overlapped} \subseteq BOOLEAN

\* Unless two PUTs overlap, the config on disk is never torn, wherever a save
\* fails, is dropped or is cut off: what write-then-rename is there for.
NeverTorn == overlapped \/ (file # NoInode => Readable)

\* What the manual says of editing a live tenant: the worst case of a PUT is
\* that it is refused, so the config is always there (where rename replaces and
\* the file system does what it is asked).
AlwaysThere == replaces /\ ~refused => file # NoInode

\* Unless two PUTs overlap, the tenant's config is always there where rename
\* replaces and is not refused, wherever a save fails, is dropped or is cut off.
NeverMissing == overlapped \/ AlwaysThere

\* What the manual says of If-Match: of the PUTs that sent the version they
\* read, no two with the same version succeed.
FirstWriterWins ==
    \A d, e \in UseIfMatch :
        pc[d] = "saved" /\ pc[e] = "saved" /\ seen[d] = seen[e] => d = e

\* Unless two PUTs overlap, If-Match keeps one edit from clobbering another.
NoClobber == overlapped \/ FirstWriterWins

\* Unless two PUTs overlap, the stored secret changes only to the value of an
\* editor whose edit the config did not contain: a PUT that carries the mask
\* never brings back an older secret.
SecretKept ==
    [][Readable /\ Readable' /\ ~overlapped /\ Text'.secret # Text.secret
         => Text'.secret \in Editors \ Text.edits]_vars

\* The literal mask is never stored as a secret.
MaskNeverStored ==
    \A i \in Inodes : inodes[i] \notin {Empty, Torn} => inodes[i].secret # Mask
=============================================================================
