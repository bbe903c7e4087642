---------------------------- MODULE ProfileImages ----------------------------
(***************************************************************************)
(* Profile images: a file that was uploaded to the storage directory is    *)
(* named by its client, moved to the directory of profile images and       *)
(* written into the person's row, and the file it replaces is removed.     *)
(* The name is a path below the storage directory, which also holds the    *)
(* directories of profile images: these can be named, and moved, as well.  *)
(* UsersService.updateProfileImage, the same method of AdminService, and   *)
(* the StorageService methods they call, one awaited call per step.        *)
(*                                                                         *)
(* The row is written in a database transaction around the file            *)
(* operations; these are not undone when it is rolled back, and go on when *)
(* it has run into its time limit.                                         *)
(*                                                                         *)
(* A definition marked SLIP is not the code's: it is the one after it with *)
(* a mistake such code invites, kept to see that a property notices it.    *)
(***************************************************************************)
EXTENDS Naturals, Sequences, SequencesExt

CONSTANTS Requests,
          Users, Admins,   \* their ids
          Files,           \* the names multer gives, with the extension of an image
          Names,           \* what clients send, as join leaves it: without "." and
                           \* with no ".." that leads out of the storage directory
          Picture,         \* an image of Google: a URL, no file of the storage
          None, InitialImage

People == Users \cup Admins
Peers(p) == IF p \in Users THEN Users ELSE Admins
ProfilePath(p) == IF p \in Users THEN <<"user", "profile">> ELSE <<"admin", "profile">>

\* A path is the sequence of its components, from the storage directory on.
Component == Files \cup {"user", "admin", "profile", Picture}
Path == Seq(Component)
IsFile(path) == path # <<>> /\ Last(path) \in Files
Image == Names \cup {<<f>> : f \in Files} \cup {<<Picture>>, None}

ASSUME ImagesAssumption ==
    /\ Users \cap Admins = {}
    /\ Files \cap {"user", "admin", "profile", Picture} = {}
    /\ Names \subseteq Path
    /\ None \notin Path \cup People
    /\ InitialImage \in [People -> {<<f>> : f \in Files} \cup {<<Picture>>, None}]
    /\ \A p, q \in People :
          InitialImage[p] \notin {<<Picture>>, None} /\ InitialImage[p] = InitialImage[q]
             => p = q

VARIABLES
    image,     \* per person: the profile image of the committed row
    disk,      \* the paths that exist, of files and directories
    uploaded,  \* the names multer has given; each is new
    pc,        \* per request: the statement that comes next
    who, new,  \* its person, and what it names
    old,       \* the image of the row it read at first
    open,      \* whether its database transaction is
    removed, moved,  \* whether it removed the old file, and moved the new one
    spoiled, leaked, taken
               \* history, read by no action: people whose image a failed
               \* request has removed; files nothing will remove again; paths
               \* that were moved away

request == <<pc, who, new, old, open, removed, moved>>
history == <<spoiled, leaked, taken>>
vars == <<image, disk, uploaded, request, history>>

Init == /\ image = InitialImage
        /\ LET P == {p \in People : InitialImage[p] \notin {<<Picture>>, None}} IN
           /\ disk = {<<>>} \cup {<<Head(ProfilePath(p))>> : p \in P}
                     \cup {ProfilePath(p) : p \in P}
                     \cup {ProfilePath(p) \o InitialImage[p] : p \in P}
           /\ uploaded = {Head(InitialImage[p]) : p \in P}
        /\ pc = [r \in Requests |-> "idle"]
        /\ who = [r \in Requests |-> None]
        /\ new = [r \in Requests |-> None]
        /\ old = [r \in Requests |-> None]
        /\ open = [r \in Requests |-> FALSE]
        /\ removed = [r \in Requests |-> FALSE]
        /\ moved = [r \in Requests |-> FALSE]
        /\ spoiled = {} /\ leaked = {} /\ taken = {}

Active(r) == pc[r] \notin {"idle", "done", "failed"}
Goto(r, statement) == pc' = [pc EXCEPT ![r] = statement]

\* A file arrives in the storage directory under a random name.
Upload(f) == /\ f \notin uploaded
             /\ uploaded' = uploaded \cup {f}
             /\ disk' = disk \cup {<<f>>}
             /\ UNCHANGED <<image, request, history>>

\* The name is whatever the client sends.
Receive(r, p, n) == /\ pc[r] = "idle"
                    /\ Goto(r, "read")
                    /\ who' = [who EXCEPT ![r] = p]
                    /\ new' = [new EXCEPT ![r] = n]
                    /\ UNCHANGED <<image, disk, uploaded, old, open, removed, moved,
                                   history>>

Read(r) == /\ pc[r] = "read"
           /\ old' = [old EXCEPT ![r] = image[who[r]]]
           /\ Goto(r, "update")
           /\ UNCHANGED <<image, disk, uploaded, who, new, open, removed, moved,
                          history>>

\* Begins the transaction; waits for the row lock of another one.
Update(r) == /\ pc[r] = "update"
             /\ \A q \in Requests : ~(open[q] /\ who[q] = who[r])
             /\ open' = [open EXCEPT ![r] = TRUE]
             /\ Goto(r, IF old[r] = None THEN "findNew" ELSE "findOld")
             /\ UNCHANGED <<image, disk, uploaded, who, new, old, removed, moved,
                            history>>

-----------------------------------------------------------------------------
(* removeFile and move look before they act.                               *)

RemovesNone(r) == old[r]                                          \* SLIP
RemovesNew(r) == ProfilePath(who[r]) \o new[r]                    \* SLIP
OldFile(r) == ProfilePath(who[r]) \o old[r]

FindOld(r) == /\ pc[r] = "findOld"
              /\ Goto(r, IF OldFile(r) \in disk THEN "unlink" ELSE "findNew")
              /\ UNCHANGED <<image, disk, uploaded, who, new, old, open, removed, moved,
                             history>>

\* unlink refuses a directory.
Unlink(r) == /\ pc[r] = "unlink" /\ OldFile(r) \in disk /\ IsFile(OldFile(r))
             /\ disk' = disk \ {OldFile(r)}
             /\ removed' = [removed EXCEPT ![r] = TRUE]
             /\ Goto(r, "findNew")
             /\ UNCHANGED <<image, uploaded, who, new, old, open, moved, history>>

Source(r) == new[r]
NewDirOfUsers(r) == <<"user", "profile">>                         \* SLIP
NewDir(r) == ProfilePath(who[r])
Target(r) == NewDir(r) \o new[r]

\* A file that is in its place already passes, and so reaches the rename.
FindNew(r) == /\ pc[r] = "findNew"
              /\ Source(r) \in disk \/ Target(r) \in disk
              /\ Goto(r, "makeDir")
              /\ UNCHANGED <<image, disk, uploaded, who, new, old, open, removed, moved,
                             history>>

MakeDir(r) == /\ pc[r] = "makeDir"
              /\ disk' = disk \cup {<<Head(NewDir(r))>>, NewDir(r)}
              /\ Goto(r, "rename")
              /\ UNCHANGED <<image, uploaded, who, new, old, open, removed, moved, history>>

\* A file or directory with all that is in it.
Tree(path) == {q \in disk : IsPrefix(path, q)}

\* What rename of the file system asks for: a source, a directory to put it in
\* that is not in the source, and in its place at most an empty directory.
CanRename(from, to) == /\ from \in disk /\ Front(to) \in disk
                       /\ ~IsPrefix(from, to)
                       /\ Tree(to) \subseteq {to}

Rename(r) == /\ pc[r] = "rename" /\ CanRename(Source(r), Target(r))
             /\ disk' = (disk \ Tree(Source(r)))
                            \cup {NewDir(r) \o q : q \in Tree(Source(r))}
             /\ taken' = taken \cup Tree(Source(r))
             /\ moved' = [moved EXCEPT ![r] = TRUE]
             /\ Goto(r, "commit")
             /\ UNCHANGED <<image, uploaded, who, new, old, open, removed, spoiled, leaked>>

-----------------------------------------------------------------------------
\* Where the image of a person is, if the row names one.
Place(p) == ProfilePath(p) \o image[p]

RowIsPath(r) == Target(r)                                         \* SLIP
NewRow(r) == new[r]

Commit(r) ==
    LET p == who[r] IN
    /\ pc[r] = "commit" /\ open[r]
    /\ image' = [image EXCEPT ![p] = NewRow(r)]
    /\ open' = [open EXCEPT ![r] = FALSE]
    /\ Goto(r, "done")
    /\ spoiled' = spoiled \ {p}
    /\ leaked' = leaked \cup (IF image[p] \notin {old[r], None} THEN {Place(p)} ELSE {})
    /\ UNCHANGED <<disk, uploaded, who, new, old, removed, moved, taken>>

\* The transaction passes its limit: the row and its lock are given back, the
\* handler notices when it next uses the transaction, at the commit.
Expire(r) == /\ open[r] /\ Active(r)
             /\ open' = [open EXCEPT ![r] = FALSE]
             /\ UNCHANGED <<image, disk, uploaded, pc, who, new, old, removed, moved,
                            history>>

\* A statement throws: the database or the file system fails, the file to be
\* removed is not one, what is to be moved is not there or cannot be moved
\* there, the transaction has expired.
Fail(r) == /\ Active(r)
           /\ Goto(r, "failed")
           /\ open' = [open EXCEPT ![r] = FALSE]
           /\ spoiled' = IF removed[r] /\ image[who[r]] = old[r]
                         THEN spoiled \cup {who[r]} ELSE spoiled
           /\ leaked' = IF moved[r] THEN leaked \cup {Target(r)} ELSE leaked
           /\ UNCHANGED <<image, disk, uploaded, who, new, old, removed, moved, taken>>

Step(r) == \/ Read(r) \/ Update(r) \/ FindOld(r) \/ Unlink(r) \/ FindNew(r)
           \/ MakeDir(r) \/ Rename(r) \/ Commit(r) \/ Fail(r)

Next == \/ \E f \in Files : Upload(f)
        \/ \E r \in Requests : \/ \E p \in People, n \in Names : Receive(r, p, n)
                               \/ Step(r) \/ Expire(r)

Spec == Init /\ [][Next]_vars

-----------------------------------------------------------------------------
(* Properties.                                                             *)

Statements == {"idle", "read", "update", "findOld", "unlink", "findNew", "makeDir",
               "rename", "commit", "done", "failed"}

\* The types; a row holds a name, as the client sent it.
TypeOK ==
    /\ image \in [People -> Image]
    /\ disk \subseteq Path
    /\ uploaded \subseteq Files
    /\ pc \in [Requests -> Statements]
    /\ who \in [Requests -> People \cup {None}]
    /\ new \in [Requests -> Names \cup {None}]
    /\ old \in [Requests -> Image]
    /\ open \in [Requests -> BOOLEAN]
    /\ removed \in [Requests -> BOOLEAN]
    /\ moved \in [Requests -> BOOLEAN]
    /\ spoiled \subseteq People
    /\ leaked \subseteq Path /\ taken \subseteq Path

\* What a row names is there, until a request of that person that has removed it
\* fails (updateProfileImage removes before it moves, and files are not rolled
\* back), or a move has taken it away with its directory; and but for the time
\* between the removal by a request and its commit.
ImagesExist ==
    \A p \in People :
       image[p] \notin {<<Picture>>, None} /\ p \notin spoiled =>
          \/ Place(p) \in disk \cup taken
          \/ \E r \in Requests : /\ Active(r) /\ who[r] = p /\ removed[r]
                                 /\ old[r] = image[p]

\* A profile image is named by the row of a person, or on its way into one, but
\* for those left behind by a request that failed after it moved its file, or
\* that had read the row before an overlapping one replaced the image.
ImagesAreNamed ==
    \A d \in {<<"user", "profile">>, <<"admin", "profile">>}, f \in Files :
       d \o <<f>> \in disk =>
          \/ \E p \in People : ProfilePath(p) = d /\ image[p] = <<f>>
          \/ \E r \in Requests : Active(r) /\ moved[r] /\ Target(r) = d \o <<f>>
          \/ d \o <<f>> \in leaked

\* Whatever below the storage directory clients name, no request of a user takes
\* away what another user's row names, and none of an administrator what another
\* administrator's names: it is removed by a request of its person, or moved away
\* by one of the other kind that names it or a directory it is in.
PeersNeverRemove ==
    [][\A p \in People :
          image[p] # None /\ Place(p) \in disk \ disk' =>
             \E r \in Requests :
                \/ who[r] = p /\ removed'[r] /\ ~removed[r]
                \/ /\ who[r] \notin Peers(p) /\ moved'[r] /\ ~moved[r]
                   /\ IsPrefix(new[r], Place(p))]_vars

=============================================================================
