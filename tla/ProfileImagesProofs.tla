------------------------- MODULE ProfileImagesProofs -------------------------
(***************************************************************************)
(* Proofs about ProfileImages, for any people, files, requests and names   *)
(* below the storage directory: who can take an image away, that it is     *)
(* there unless this has happened, and that no image is left unnamed but   *)
(* by a request that failed or overlapped.                                 *)
(***************************************************************************)
EXTENDS ProfileImages, SequenceTheorems, TLAPS

USE DEF request, history, vars

-----------------------------------------------------------------------------
(* Paths.                                                                  *)

ProfileDirs == {<<"user", "profile">>, <<"admin", "profile">>}

LEMMA DirsOfPeople == \A p : ProfilePath(p) \in ProfileDirs
  BY DEF ProfilePath, ProfileDirs

\* The directories: their components, and that they are no files.
LEMMA DirParts ==
  ASSUME NEW d \in ProfileDirs
  PROVE  /\ d \in Path /\ Len(d) = 2 /\ d[1] \in {"user", "admin"} /\ d[2] = "profile"
         /\ <<Head(d)>> \in Path /\ Len(<<Head(d)>>) = 1
         /\ ~IsFile(d) /\ ~IsFile(<<Head(d)>>)
  <1>1. d \in Path /\ Len(d) = 2 /\ d[1] \in {"user", "admin"} /\ d[2] = "profile"
    BY DEF ProfileDirs, Path, Component
  <1>2. Head(d) \in {"user", "admin"}
    BY DEF ProfileDirs
  <1>3. <<Head(d)>> \in Path /\ Len(<<Head(d)>>) = 1 /\ <<Head(d)>>[1] = Head(d)
    BY <1>2 DEF Path, Component
  <1> QED BY <1>1, <1>2, <1>3, ImagesAssumption DEF IsFile, Last

\* A path put into a directory of profile images.
LEMMA Placed ==
  ASSUME NEW d \in ProfileDirs, NEW a \in Path
  PROVE  /\ d \o a \in Path /\ Len(d \o a) = Len(a) + 2
         /\ (d \o a)[1] = d[1]
         /\ \A i \in 1..Len(a) : (d \o a)[i + 2] = a[i]
         /\ a # <<>> => Last(d \o a) = Last(a)
         /\ IsFile(d \o a) <=> IsFile(a)
  <1>1. d \in Path /\ Len(d) = 2 /\ ~IsFile(d)
    BY DirParts
  <1>2. /\ d \o a \in Path /\ Len(d \o a) = Len(a) + 2 /\ Len(a) \in Nat
        /\ \A i \in 1..(Len(a) + 2) : (d \o a)[i] = IF i <= 2 THEN d[i] ELSE a[i - 2]
    <2>1. d \in Seq(Component) /\ a \in Seq(Component) /\ Len(a) \in Nat
      BY <1>1, LenProperties DEF Path
    <2>2. /\ d \o a \in Seq(Component) /\ Len(d \o a) = Len(d) + Len(a)
          /\ \A i \in 1..(Len(d) + Len(a)) :
                (d \o a)[i] = IF i <= Len(d) THEN d[i] ELSE a[i - Len(d)]
      BY <2>1, ConcatProperties
    <2> QED BY <1>1, <2>1, <2>2 DEF Path
  <1>3. (d \o a)[1] = d[1] /\ \A i \in 1..Len(a) : (d \o a)[i + 2] = a[i]
    BY <1>2
  <1>4. ASSUME a # <<>> PROVE Last(d \o a) = Last(a) /\ d \o a # <<>>
    <2>1. Len(a) \in 1..Len(a)
      BY <1>4, EmptySeq DEF Path
    <2> QED BY <1>2, <1>3, <2>1 DEF Last
  <1>5. CASE a = <<>>
    <2>1. d \o a = d
      BY <1>1, <1>5, ConcatEmptySeq DEF Path
    <2> QED BY <1>1, <1>2, <1>3, <1>5, <2>1 DEF IsFile
  <1>6. CASE a # <<>>
    BY <1>2, <1>3, <1>4, <1>6 DEF IsFile
  <1> QED BY <1>5, <1>6

\* The directory and the name that a path was put together of.
DirOf(q) == CHOOSE d \in ProfileDirs : \E a \in Path : q = d \o a
NameOf(q) == CHOOSE a \in Path : \E d \in ProfileDirs : q = d \o a

LEMMA PlacedParts ==
  \A d \in ProfileDirs, a \in Path : DirOf(d \o a) = d /\ NameOf(d \o a) = a
  <1> SUFFICES ASSUME NEW d \in ProfileDirs, NEW a \in Path
               PROVE  DirOf(d \o a) = d /\ NameOf(d \o a) = a
    OBVIOUS
  <1> DEFINE q == d \o a
  <1>1. ASSUME NEW e \in ProfileDirs, NEW b \in Path, q = e \o b
        PROVE  d = e /\ a = b
    <2>1. q[1] = d[1] /\ q[1] = e[1]
      BY <1>1, Placed
    <2>2. d = e
      BY <2>1 DEF ProfileDirs
    <2>3. Len(a) = Len(b)
      <3>1. Len(a) \in Nat /\ Len(b) \in Nat
        BY LenProperties DEF Path
      <3>2. Len(q) = Len(a) + 2 /\ Len(q) = Len(b) + 2
        BY <1>1, Placed
      <3> QED BY <3>1, <3>2
    <2>4. ASSUME NEW i \in 1..Len(a) PROVE a[i] = b[i]
      <3>1. q[i + 2] = a[i]
        BY Placed
      <3>2. q[i + 2] = b[i]
        BY <1>1, <2>3, Placed
      <3> QED BY <3>1, <3>2
    <2> QED BY <2>2, <2>3, <2>4, SeqEqual DEF Path
  <1>2. q = d \o a
    OBVIOUS
  <1> HIDE DEF q
  <1>3. DirOf(q) = d
    BY <1>1, <1>2 DEF DirOf
  <1>4. NameOf(q) = a
    BY <1>1, <1>2 DEF NameOf
  <1> QED BY <1>3, <1>4 DEF q

LEMMA PlacedOnce ==
  \A d, e \in ProfileDirs, a, b \in Path : d \o a = e \o b => d = e /\ a = b
  <1> SUFFICES ASSUME NEW d \in ProfileDirs, NEW e \in ProfileDirs,
                      NEW a \in Path, NEW b \in Path, d \o a = e \o b
               PROVE  d = e /\ a = b
    OBVIOUS
  <1>1. DirOf(d \o a) = d /\ NameOf(d \o a) = a
    BY PlacedParts
  <1>2. DirOf(e \o b) = e /\ NameOf(e \o b) = b
    BY PlacedParts
  <1> QED BY <1>1, <1>2

LEMMA PrefixParts ==
  ASSUME NEW s \in Path, NEW q \in Path
  PROVE  IsPrefix(s, q) <=> Len(s) <= Len(q) /\ \A i \in 1..Len(s) : s[i] = q[i]
  <1>1. Len(s) \in Nat /\ Len(q) \in Nat
    BY LenProperties DEF Path
  <1>2. SubSeq(s, 1, Len(s)) = s
    BY SubSeqFull DEF Path
  <1>3. ASSUME Len(s) <= Len(q)
        PROVE  /\ SubSeq(q, 1, Len(s)) \in Path /\ Len(SubSeq(q, 1, Len(s))) = Len(s)
               /\ \A i \in 1..Len(s) : SubSeq(q, 1, Len(s))[i] = q[i]
    BY <1>1, <1>3, SubSeqProperties DEF Path
  <1>4. ASSUME Len(s) <= Len(q), \A i \in 1..Len(s) : s[i] = q[i]
        PROVE  s = SubSeq(q, 1, Len(s))
    BY <1>3, <1>4, SeqEqual DEF Path
  <1> QED BY <1>2, <1>3, <1>4 DEF IsPrefix

LEMMA TreeHasRoot == ASSUME NEW s \in Path, s \in disk PROVE s \in Tree(s)
  BY PrefixParts, LenProperties DEF Tree, Path

\* No path below a profile directory starts with the directory again.
Apart == \A q \in disk : Len(q) >= 3 => q[1] # q[3]

\* What can be moved to a directory of profile images is not beside it.
LEMMA MovesFromElsewhere ==
  ASSUME disk \subseteq Path, Apart, NEW d \in ProfileDirs, NEW s \in Path,
         CanRename(s, d \o s)
  PROVE  /\ s # <<>> /\ s[1] # d[1]
         /\ \A q \in Tree(s) : q # <<>> /\ q[1] # d[1]
  <1>1. Len(s) \in Nat /\ d \o s \in Path /\ Len(d \o s) = Len(s) + 2
    BY Placed, LenProperties DEF Path
  <1>2. s # <<>>
    <2> SUFFICES ASSUME s = <<>> PROVE FALSE
      OBVIOUS
    <2>1. Len(s) = 0
      OBVIOUS
    <2> QED BY <1>1, <2>1, PrefixParts DEF CanRename
  <1>3. Len(s) >= 1
    BY <1>1, <1>2, EmptySeq DEF Path
  <1>4. s[1] # d[1]
    <2> SUFFICES ASSUME s[1] = d[1] PROVE FALSE
      OBVIOUS
    <2>1. CASE Len(s) = 1
      <3>1. (d \o s)[1] = s[1]
        BY Placed
      <3>2. Len(s) <= Len(d \o s) /\ \A i \in 1..Len(s) : s[i] = (d \o s)[i]
        BY <1>1, <2>1, <3>1
      <3>3. IsPrefix(s, d \o s)
        BY <1>1, <3>2, PrefixParts
      <3> QED BY <3>3 DEF CanRename
    <2>2. CASE Len(s) >= 2
      <3> DEFINE t == d \o s
                 u == Front(t)
      <3>1. u = SubSeq(t, 1, Len(s) + 1)
        BY <1>1 DEF Front
      <3>2. Len(u) = Len(s) + 1 /\ u[1] = t[1] /\ u[3] = t[3]
        <4>1. \A i \in 1..(Len(s) + 1) : u[i] = t[i]
          BY <1>1, <3>1, SubSeqProperties DEF Path
        <4>2. Len(u) = Len(s) + 1
          BY <1>1, <3>1, SubSeqProperties DEF Path
        <4> QED BY <1>1, <2>2, <4>1, <4>2
      <3>3. t[1] = d[1] /\ t[3] = s[1]
        <4>1. 1 \in 1..Len(s) /\ 1 + 2 = 3
          BY <1>1, <1>3
        <4> QED BY <4>1, Placed
      <3>4. u \in disk
        BY DEF CanRename
      <3> QED BY <1>1, <2>2, <3>2, <3>3, <3>4 DEF Apart
    <2>3. Len(s) = 1 \/ Len(s) >= 2
      <3>1. \A n \in Nat : n >= 1 => n = 1 \/ n >= 2
        OBVIOUS
      <3> QED BY <1>1, <1>3, <3>1
    <2> QED BY <2>1, <2>2, <2>3
  <1>5. \A q \in Tree(s) : q # <<>> /\ q[1] # d[1]
    <2> SUFFICES ASSUME NEW q \in Tree(s) PROVE q # <<>> /\ q[1] # d[1]
      OBVIOUS
    <2>1. q \in Path /\ Len(s) <= Len(q) /\ s[1] = q[1]
      BY <1>1, <1>3, PrefixParts DEF Tree
    <2>2. Len(q) >= 1
      BY <1>1, <1>3, <2>1, LenProperties DEF Path
    <2> QED BY <1>4, <2>1, <2>2
  <1> QED BY <1>2, <1>4, <1>5


LEMMA ImagesArePaths ==
  /\ Image \subseteq Path \cup {None} /\ None \notin Path
  /\ \A f \in Files : <<f>> \in Path /\ Len(<<f>>) = 1 /\ IsFile(<<f>>) /\ Last(<<f>>) = f
  /\ <<Picture>> \in Path /\ ~IsFile(<<Picture>>)
  <1>1. None \notin Path /\ Names \subseteq Path
    BY ImagesAssumption
  <1>2. \A c \in Component : <<c>> \in Path /\ Len(<<c>>) = 1 /\ Last(<<c>>) = c /\ <<c>> # <<>>
    BY DEF Path, Last
  <1>3. Files \subseteq Component /\ Picture \in Component /\ Picture \notin Files
    BY ImagesAssumption DEF Component
  <1>4. (\A f \in Files : IsFile(<<f>>)) /\ ~IsFile(<<Picture>>)
    BY <1>2, <1>3 DEF IsFile
  <1>5. Image \subseteq Path \cup {None}
    BY <1>1, <1>2, <1>3 DEF Image
  <1> QED BY <1>1, <1>2, <1>3, <1>4, <1>5

\* A file in a directory of profile images.
LEMMA PlacedFile ==
  ASSUME NEW d \in ProfileDirs, NEW f \in Files
  PROVE  /\ d \o <<f>> \in Path /\ Len(d \o <<f>>) = 3
         /\ (d \o <<f>>)[1] \in {"user", "admin"} /\ (d \o <<f>>)[3] = f
         /\ IsFile(d \o <<f>>) /\ Last(d \o <<f>>) = f
  <1>1. <<f>> \in Path /\ Len(<<f>>) = 1 /\ <<f>>[1] = f /\ <<f>> # <<>>
    BY ImagesArePaths
  <1>2. IsFile(<<f>>) /\ Last(<<f>>) = f
    BY ImagesArePaths
  <1>3. d \o <<f>> \in Path /\ Len(d \o <<f>>) = Len(<<f>>) + 2 /\ (d \o <<f>>)[1] = d[1]
    BY <1>1, Placed
  <1>4. (d \o <<f>>)[3] = f
    <2>1. 1 \in 1..Len(<<f>>) /\ 1 + 2 = 3
      BY <1>1
    <2> QED BY <1>1, <2>1, Placed
  <1>5. IsFile(d \o <<f>>) /\ Last(d \o <<f>>) = f
    BY <1>1, <1>2, Placed
  <1>6. d[1] \in {"user", "admin"}
    BY DirParts
  <1> QED BY <1>1, <1>3, <1>4, <1>5, <1>6

-----------------------------------------------------------------------------
(* The invariant.                                                          *)

\* What a request has done by the statement it is at.
Early == {"idle", "read", "update", "findOld", "unlink"}
PcInv(r) ==
    /\ pc[r] = "idle" => who[r] = None
    /\ pc[r] # "idle" => who[r] \in People /\ new[r] \in Names
    /\ pc[r] \in {"idle", "read"} => old[r] = None
    /\ pc[r] \in {"findOld", "unlink"} => old[r] # None
    /\ pc[r] \in Early => ~removed[r]
    /\ pc[r] \in Early \cup {"findNew", "makeDir", "rename"} => ~moved[r]
    /\ pc[r] = "commit" => moved[r]

\* A file is somewhere once, and not before it was uploaded.
FilesInv ==
    /\ \A q \in disk : IsFile(q) => Last(q) \in uploaded
    /\ \A q, t \in disk : IsFile(q) /\ IsFile(t) /\ Last(q) = Last(t) => q = t

\* A file was at path n and is no longer: each move takes it deeper.
Gone(n) == /\ Last(n) \in uploaded
           /\ \A q \in disk : IsFile(q) /\ Last(q) = Last(n) => Len(q) > Len(n)

\* A name of a file belongs to the person whose row holds it or held it, or whose
\* request has moved what it named.
Holds(p, n) == \/ image[p] = n
               \/ \E r \in Requests : who[r] = p /\ (old[r] = n \/ (moved[r] /\ new[r] = n))

\* It belongs to one person, and names nothing that could be moved again.
HomeInv ==
    \A n \in Path : IsFile(n) =>
       /\ \A p, q \in People : Holds(p, n) /\ Holds(q, n) => p = q
       /\ \A p \in People : Holds(p, n) => Gone(n)

\* What a request is about to commit is in its place, or was moved on; if it is a
\* file it is nobody else's.
FreshInv(r) ==
    pc[r] = "commit" =>
       /\ Target(r) \in disk \cup taken
       /\ IsFile(new[r]) =>
             /\ \A p \in People : image[p] # new[r]
             /\ \A s \in Requests : old[s] # new[r]
             /\ \A s \in Requests \ {r} : moved[s] => new[s] # new[r]

IInv == /\ TypeOK
        /\ Apart
        /\ FilesInv
        /\ \A r \in Requests : PcInv(r)
        /\ HomeInv
        /\ \A r \in Requests : FreshInv(r)

\* The paths of a request.
LEMMA PathsOfRequests ==
  ASSUME TypeOK, NEW r \in Requests, PcInv(r)
  PROVE  /\ NewDir(r) \in ProfileDirs
         /\ pc[r] # "idle" => Target(r) \in Path /\ Source(r) \in Path
         /\ old[r] # None => old[r] \in Path /\ OldFile(r) \in Path
  <1>1. NewDir(r) \in ProfileDirs /\ ProfilePath(who[r]) \in ProfileDirs
    BY DirsOfPeople DEF NewDir
  <1>2. pc[r] # "idle" => new[r] \in Path
    BY ImagesAssumption DEF PcInv
  <1>3. old[r] # None => old[r] \in Path
    BY ImagesArePaths DEF TypeOK
  <1> QED BY <1>1, <1>2, <1>3, Placed DEF Target, Source, OldFile

LEMMA StartInv == Init => IInv
  <1> SUFFICES ASSUME Init PROVE IInv
    OBVIOUS
  <1> DEFINE P == {p \in People : InitialImage[p] \notin {<<Picture>>, None}}
             dirs == {<<Head(ProfilePath(p))>> : p \in P} \cup {ProfilePath(p) : p \in P}
             files == {ProfilePath(p) \o InitialImage[p] : p \in P}
  <1>1. \A p \in P : \E f \in Files : InitialImage[p] = <<f>>
    BY ImagesAssumption
  <1>2. \A p \in P : /\ InitialImage[p] \in Path /\ Len(InitialImage[p]) = 1
                     /\ IsFile(InitialImage[p])
                     /\ Head(InitialImage[p]) = Last(InitialImage[p])
                     /\ InitialImage[p][1] \in Files
                     /\ Last(InitialImage[p]) = InitialImage[p][1]
    <2> SUFFICES ASSUME NEW p \in P, NEW f \in Files, InitialImage[p] = <<f>>
                 PROVE  /\ <<f>> \in Path /\ Len(<<f>>) = 1 /\ IsFile(<<f>>)
                        /\ Head(<<f>>) = Last(<<f>>) /\ <<f>>[1] \in Files
                        /\ Last(<<f>>) = <<f>>[1]
      BY <1>1
    <2> QED BY ImagesArePaths
  <1>3. disk = {<<>>} \cup dirs \cup files
    BY DEF Init
  <1>4. <<>> \in Path /\ Len(<<>>) = 0 /\ ~IsFile(<<>>)
    BY DEF Path, IsFile
  <1>5. \A q \in dirs : q \in Path /\ Len(q) \in {1, 2} /\ ~IsFile(q)
    BY DirsOfPeople, DirParts
  <1>6. ASSUME NEW p \in P, NEW q, q = ProfilePath(p) \o InitialImage[p]
        PROVE  /\ q \in Path /\ Len(q) = 3 /\ q[1] \in {"user", "admin"}
               /\ q[3] = InitialImage[p][1] /\ IsFile(q) /\ Last(q) = Last(InitialImage[p])
    <2>1. PICK f \in Files : InitialImage[p] = <<f>>
      BY <1>1
    <2>2. ProfilePath(p) \in ProfileDirs /\ Last(<<f>>) = f /\ <<f>>[1] = f
      BY DirsOfPeople, ImagesArePaths
    <2> QED BY <1>6, <2>1, <2>2, PlacedFile
  <1> HIDE DEF dirs
  <1>7. TypeOK
    <2>1. disk \subseteq Path
      BY <1>3, <1>4, <1>5, <1>6
    <2>2. uploaded \subseteq Files
      BY <1>2 DEF Init
    <2>3. image \in [People -> Image]
      BY ImagesAssumption DEF Init, Image
    <2> QED BY <2>1, <2>2, <2>3 DEF Init, TypeOK, Image, Statements
  <1>8. Apart
    <2> SUFFICES ASSUME NEW q \in disk, Len(q) >= 3 PROVE q[1] # q[3]
      BY DEF Apart
    <2>1. PICK p \in P : q = ProfilePath(p) \o InitialImage[p]
      <3>1. ~(3 <= 0) /\ ~(3 <= 1) /\ ~(3 <= 2)
        OBVIOUS
      <3>2. Len(q) # 0 /\ Len(q) \notin {1, 2}
        BY <3>1
      <3>3. q \notin dirs /\ q # <<>>
        BY <1>4, <1>5, <3>2
      <3> QED BY <1>3, <3>3
    <2>2. q[1] \in {"user", "admin"} /\ q[3] \in Files
      BY <1>2, <1>6, <2>1
    <2> QED BY <2>2, ImagesAssumption
  <1>9. \A q \in disk : IsFile(q) => \E p \in P : q = ProfilePath(p) \o InitialImage[p]
    BY <1>3, <1>4, <1>5
  <1>10. FilesInv
    <2>1. \A q \in disk : IsFile(q) => Last(q) \in uploaded
      <3> SUFFICES ASSUME NEW p \in P PROVE Last(InitialImage[p]) \in uploaded
        BY <1>6, <1>9
      <3>1. Head(InitialImage[p]) \in uploaded
        BY DEF Init
      <3> QED BY <1>2, <3>1
    <2>2. ASSUME NEW q \in disk, NEW t \in disk, IsFile(q), IsFile(t), Last(q) = Last(t)
          PROVE  q = t
      <3>1. PICK p \in P : q = ProfilePath(p) \o InitialImage[p]
        BY <1>9, <2>2
      <3>2. PICK s \in P : t = ProfilePath(s) \o InitialImage[s]
        BY <1>9, <2>2
      <3>3. Last(InitialImage[p]) = Last(InitialImage[s])
        BY <1>6, <2>2, <3>1, <3>2
      <3>4. InitialImage[p] = InitialImage[s]
        <4>1. PICK f \in Files : InitialImage[p] = <<f>>
          BY <1>1
        <4>2. PICK g \in Files : InitialImage[s] = <<g>>
          BY <1>1
        <4> QED BY <3>3, <4>1, <4>2, ImagesArePaths
      <3>5. p = s
        BY <3>4, ImagesAssumption
      <3> QED BY <3>1, <3>2, <3>5
    <2> QED BY <2>1, <2>2 DEF FilesInv
  <1>11. \A r \in Requests : PcInv(r) /\ FreshInv(r)
    BY DEF Init, PcInv, FreshInv, Early
  <1>12. HomeInv
    <2> SUFFICES ASSUME NEW n \in Path, IsFile(n)
                 PROVE  /\ \A p, q \in People : Holds(p, n) /\ Holds(q, n) => p = q
                        /\ \A p \in People : Holds(p, n) => Gone(n)
      BY DEF HomeInv
    <2>1. n # None /\ n # <<Picture>>
      BY ImagesArePaths
    <2>2. \A p \in People : Holds(p, n) => p \in P /\ InitialImage[p] = n
      BY <2>1 DEF Init, Holds
    <2>3. \A p \in People : Holds(p, n) => Gone(n)
      <3> SUFFICES ASSUME NEW p \in P, InitialImage[p] = n PROVE Gone(n)
        BY <2>2
      <3>1. Last(n) \in uploaded /\ Len(n) = 1
        BY <1>2 DEF Init
      <3>2. \A q \in disk : IsFile(q) => Len(q) = 3
        BY <1>6, <1>9
      <3> QED BY <3>1, <3>2 DEF Gone
    <2> QED BY <2>2, <2>3, ImagesAssumption
  <1> QED BY <1>7, <1>8, <1>10, <1>11, <1>12 DEF IInv


\* No file gains a person, and none comes back to a path of no greater depth.
LEMMA KeepHome ==
  ASSUME HomeInv,
         \A p \in People, n \in Path : IsFile(n) /\ Holds(p, n)' => Holds(p, n),
         uploaded \subseteq uploaded',
         \A q \in disk' : IsFile(q) /\ Last(q) \in uploaded => q \in disk
  PROVE  HomeInv'
  <1>1. ASSUME NEW n \in Path, IsFile(n), Gone(n)
        PROVE  Gone(n)'
    BY <1>1 DEF Gone
  <1>2. \A n \in Path, p \in People : IsFile(n) /\ Holds(p, n)' => Gone(n)'
    BY <1>1 DEF HomeInv
  <1>3. \A n \in Path, p, q \in People :
           IsFile(n) /\ Holds(p, n)' /\ Holds(q, n)' => p = q
    BY DEF HomeInv
  <1> QED BY <1>2, <1>3 DEF HomeInv

LEMMA UploadKeepsInv ==
  ASSUME IInv, NEW f \in Files, Upload(f)
  PROVE  IInv'
  <1> USE DEF IInv, Upload
  <1>1. <<f>> \in Path /\ Len(<<f>>) = 1 /\ IsFile(<<f>>) /\ Last(<<f>>) = f
    BY ImagesArePaths
  <1>2. TypeOK'
    BY <1>1 DEF TypeOK
  <1>3. Apart'
    BY <1>1 DEF Apart
  <1>4. FilesInv'
    BY <1>1 DEF FilesInv
  <1>5. \A r \in Requests : PcInv(r)'
    BY DEF PcInv
  <1>6. HomeInv'
    BY <1>1, KeepHome DEF Holds
  <1>7. \A r \in Requests : FreshInv(r)'
    BY DEF FreshInv, Target, NewDir
  <1> QED BY <1>2, <1>3, <1>4, <1>5, <1>6, <1>7

\* Steps that leave the disk and the history as they are.
LEMMA SameDisk ==
  ASSUME Apart, FilesInv, UNCHANGED <<disk, uploaded>>
  PROVE  Apart' /\ FilesInv'
  BY DEF Apart, FilesInv

LEMMA ReceiveKeepsInv ==
  ASSUME IInv, NEW r \in Requests, NEW p \in People, NEW n \in Names, Receive(r, p, n)
  PROVE  IInv'
  <1> USE DEF IInv, Receive, Goto
  <1>1. TypeOK'
    BY DEF TypeOK, Statements
  <1>2. \A s \in Requests : PcInv(s)'
    BY DEF PcInv, TypeOK, Early
  <1>3. old[r] = None /\ ~moved[r]
    BY DEF PcInv, Early
  <1>4. HomeInv'
    <2>1. \A q \in People, m \in Path : Holds(q, m)' => Holds(q, m)
      BY <1>3, ImagesAssumption DEF Holds, TypeOK
    <2> QED BY <2>1, KeepHome
  <1>5. \A s \in Requests : FreshInv(s)'
    BY <1>3 DEF FreshInv, Target, NewDir, TypeOK
  <1> QED BY <1>1, <1>2, <1>4, <1>5, SameDisk

LEMMA ReadKeepsInv ==
  ASSUME IInv, NEW r \in Requests, Read(r)
  PROVE  IInv'
  <1> USE DEF IInv, Read, Goto
  <1>1. who[r] \in People
    BY DEF PcInv
  <1>2. TypeOK'
    BY <1>1 DEF TypeOK, Statements
  <1>3. \A s \in Requests : PcInv(s)'
    BY DEF PcInv, TypeOK, Early
  <1>4. HomeInv'
    <2>1. \A q \in People, m \in Path : Holds(q, m)' => Holds(q, m)
      BY DEF Holds, TypeOK
    <2> QED BY <2>1, KeepHome
  <1>5. \A s \in Requests : FreshInv(s)'
    BY <1>1 DEF FreshInv, Target, NewDir, TypeOK
  <1> QED BY <1>2, <1>3, <1>4, <1>5, SameDisk

\* The statements that only look, and the one that begins the transaction.
LEMMA LookKeepsInv ==
  ASSUME IInv, NEW r \in Requests,
         Update(r) \/ FindOld(r) \/ FindNew(r)
  PROVE  IInv'
  <1> USE DEF IInv, Update, FindOld, FindNew, Goto
  <1>1. TypeOK'
    BY DEF TypeOK, Statements
  <1>2. \A s \in Requests : PcInv(s)'
    BY DEF PcInv, TypeOK, Early
  <1>3. HomeInv'
    <2>1. \A q \in People, m \in Path : Holds(q, m)' => Holds(q, m)
      BY DEF Holds
    <2> QED BY <2>1, KeepHome
  <1>4. \A s \in Requests : FreshInv(s)'
    BY DEF FreshInv, Target, NewDir, TypeOK
  <1>5. Apart' /\ FilesInv'
    BY SameDisk
  <1> QED BY <1>1, <1>2, <1>3, <1>4, <1>5

\* The old file, if it is the new one of a request at its commit, would be held
\* by the two.
LEMMA UnlinkKeepsInv ==
  ASSUME IInv, NEW r \in Requests, Unlink(r)
  PROVE  IInv'
  <1> USE DEF IInv, Unlink, Goto
  <1>1. TypeOK'
    BY DEF TypeOK, Statements
  <1>2. Apart' /\ FilesInv'
    BY DEF Apart, FilesInv
  <1>3. \A s \in Requests : PcInv(s)'
    BY DEF PcInv, TypeOK, Early
  <1>4. HomeInv'
    <2>1. \A q \in People, m \in Path : Holds(q, m)' => Holds(q, m)
      BY DEF Holds
    <2> QED BY <2>1, KeepHome
  <1>5. ASSUME NEW s \in Requests PROVE FreshInv(s)'
    <2> SUFFICES ASSUME pc[s] = "commit" PROVE FreshInv(s)'
      BY DEF FreshInv, TypeOK
    <2>1. Target(s) \in disk' \cup taken'
      <3> SUFFICES ASSUME Target(s) = OldFile(r) PROVE FALSE
        BY DEF FreshInv, Target, NewDir
      <3>1. old[r] \in Path /\ new[s] \in Path
        BY ImagesArePaths, ImagesAssumption DEF TypeOK, PcInv
      <3>2. ProfilePath(who[s]) \o new[s] = ProfilePath(who[r]) \o old[r]
        BY DEF Target, NewDir, OldFile
      <3> HIDE DEF IInv, Unlink
      <3>3. new[s] = old[r]
        <4>1. ProfilePath(who[s]) \in ProfileDirs /\ ProfilePath(who[r]) \in ProfileDirs
          BY DirsOfPeople
        <4>2. NameOf(ProfilePath(who[s]) \o new[s]) = new[s]
          BY <3>1, <4>1, PlacedParts
        <4>3. NameOf(ProfilePath(who[r]) \o old[r]) = old[r]
          BY <3>1, <4>1, PlacedParts
        <4> QED BY <3>2, <4>2, <4>3
      <3>4. IsFile(new[s])
        BY <3>1, <3>3, DirsOfPeople, Placed DEF OldFile, Unlink
      <3> QED BY <3>3, <3>4 DEF IInv, FreshInv
    <2> QED BY <2>1 DEF FreshInv, Target, NewDir
  <1> QED BY <1>1, <1>2, <1>3, <1>4, <1>5

\* The directories that are made are no files, and have no profile directory above
\* them.
LEMMA MakeDirKeepsInv ==
  ASSUME IInv, NEW r \in Requests, MakeDir(r)
  PROVE  IInv'
  <1> USE DEF IInv, MakeDir, Goto
  <1> DEFINE top == <<Head(NewDir(r))>>
             dir == NewDir(r)
  <1>1. /\ top \in Path /\ dir \in Path /\ ~IsFile(top) /\ ~IsFile(dir)
        /\ Len(top) = 1 /\ Len(dir) = 2
    BY DirsOfPeople, DirParts DEF NewDir
  <1>2. disk' = disk \cup {top, dir}
    OBVIOUS
  <1> HIDE DEF top, dir
  <1>3. TypeOK'
    BY <1>1, <1>2 DEF TypeOK, Statements
  <1>4. Apart'
    <2>1. ~(Len(top) >= 3) /\ ~(Len(dir) >= 3)
      BY <1>1
    <2> QED BY <1>2, <2>1 DEF Apart
  <1>5. FilesInv'
    BY <1>1, <1>2 DEF FilesInv
  <1>6. \A s \in Requests : PcInv(s)'
    BY DEF PcInv, TypeOK, Early
  <1>7. HomeInv'
    <2>1. \A q \in People, m \in Path : Holds(q, m)' => Holds(q, m)
      BY DEF Holds
    <2> QED BY <1>1, <1>2, <2>1, KeepHome
  <1>8. \A s \in Requests : FreshInv(s)'
    BY DEF FreshInv, Target, NewDir, TypeOK
  <1> QED BY <1>3, <1>4, <1>5, <1>6, <1>7, <1>8


\* A path after a move was there before, or is a moved one below the new directory.
LEMMA MovedPaths ==
  ASSUME IInv, NEW r \in Requests, Rename(r)
  PROVE  /\ who[r] \in People /\ new[r] \in Names /\ ~moved[r]
         /\ NewDir(r) \in ProfileDirs /\ new[r] \in Path /\ new[r] \in disk
         /\ Target(r) \in disk' /\ new[r] \in Tree(new[r]) /\ Tree(new[r]) \subseteq disk
         /\ \A q \in disk' :
               \/ q \in disk /\ q \notin Tree(new[r])
               \/ \E t \in Tree(new[r]) : q = NewDir(r) \o t
         /\ \A t \in Tree(new[r]) : t # <<>> /\ t[1] # NewDir(r)[1]
         /\ new[r] # <<>> /\ new[r][1] # NewDir(r)[1]
  <1>1. who[r] \in People /\ new[r] \in Names /\ ~moved[r] /\ new[r] \in Path
    BY ImagesAssumption DEF IInv, PcInv, Rename
  <1>2. NewDir(r) \in ProfileDirs
    BY DirsOfPeople DEF NewDir
  <1>3. CanRename(new[r], NewDir(r) \o new[r])
    BY DEF Rename, Source, Target
  <1>4. new[r] \in disk /\ new[r] \in Tree(new[r]) /\ Tree(new[r]) \subseteq disk
    BY <1>1, <1>3, TreeHasRoot DEF CanRename, Tree
  <1>5. disk' = (disk \ Tree(new[r])) \cup {NewDir(r) \o t : t \in Tree(new[r])}
    BY DEF Rename, Source
  <1>6. /\ \A t \in Tree(new[r]) : t # <<>> /\ t[1] # NewDir(r)[1]
        /\ new[r] # <<>> /\ new[r][1] # NewDir(r)[1]
    BY <1>1, <1>2, <1>3, MovesFromElsewhere DEF IInv, TypeOK
  <1> QED BY <1>1, <1>2, <1>4, <1>5, <1>6 DEF Target

LEMMA MovedPathsArePaths ==
  ASSUME IInv, NEW r \in Requests, Rename(r)
  PROVE  disk' \subseteq Path
  <1>1. disk \subseteq Path
    BY DEF IInv, TypeOK
  <1>2. NewDir(r) \in ProfileDirs /\ Tree(new[r]) \subseteq disk
    BY MovedPaths
  <1>3. \A t \in Tree(new[r]) : NewDir(r) \o t \in Path
    BY <1>1, <1>2, Placed
  <1> QED BY <1>1, <1>3, MovedPaths

\* What lies deeper after a move keeps its file name.
LEMMA MovedFile ==
  ASSUME IInv, NEW r \in Requests, Rename(r), NEW q \in disk', IsFile(q)
  PROVE  \E t \in disk : /\ IsFile(t) /\ Last(t) = Last(q) /\ Len(t) <= Len(q)
                         /\ \/ q = t /\ t \notin Tree(new[r])
                            \/ q = NewDir(r) \o t /\ t \in Tree(new[r])
  <1>1. disk \subseteq Path
    BY DEF IInv, TypeOK
  <1>2. CASE q \in disk /\ q \notin Tree(new[r])
    BY <1>1, <1>2, LenProperties DEF Path
  <1>3. CASE \E t \in Tree(new[r]) : q = NewDir(r) \o t
    <2> PICK t \in Tree(new[r]) : q = NewDir(r) \o t
      BY <1>3
    <2>1. t \in disk /\ t \in Path /\ t # <<>> /\ NewDir(r) \in ProfileDirs
      BY <1>1, MovedPaths
    <2>2. Len(q) = Len(t) + 2 /\ Last(q) = Last(t) /\ IsFile(t)
      BY <2>1, Placed
    <2>3. Len(t) <= Len(q)
      BY <2>1, <2>2, LenProperties DEF Path
    <2> QED BY <2>1, <2>2, <2>3
  <1> QED BY <1>2, <1>3, MovedPaths

\* A directory is moved to a profile directory of the other kind, or from nobody's.
LEMMA RenameKeepsApart ==
  ASSUME IInv, NEW r \in Requests, Rename(r)
  PROVE  Apart'
  <1> SUFFICES ASSUME NEW q \in disk', Len(q) >= 3 PROVE q[1] # q[3]
    BY DEF Apart
  <1>1. CASE q \in disk
    BY <1>1 DEF IInv, Apart
  <1>2. CASE \E t \in Tree(new[r]) : q = NewDir(r) \o t
    <2> PICK t \in Tree(new[r]) : q = NewDir(r) \o t
      BY <1>2
    <2>1. t \in Path /\ t # <<>> /\ t[1] # NewDir(r)[1] /\ NewDir(r) \in ProfileDirs
      BY MovedPaths DEF IInv, TypeOK
    <2>2. 1 \in 1..Len(t) /\ 1 + 2 = 3
      <3>1. Len(t) \in Nat /\ Len(t) # 0
        BY <2>1, LenProperties, EmptySeq DEF Path
      <3> QED BY <3>1
    <2>3. q[1] = NewDir(r)[1] /\ q[3] = t[1]
      BY <2>1, <2>2, Placed
    <2> QED BY <2>1, <2>3
  <1> QED BY <1>1, <1>2, MovedPaths

LEMMA RenameKeepsFiles ==
  ASSUME IInv, NEW r \in Requests, Rename(r)
  PROVE  FilesInv'
  <1>1. ASSUME NEW q \in disk', IsFile(q) PROVE Last(q) \in uploaded'
    BY <1>1, MovedFile DEF IInv, FilesInv, Rename
  <1>2. ASSUME NEW q \in disk', NEW t \in disk', IsFile(q), IsFile(t), Last(q) = Last(t)
        PROVE  q = t
    <2>1. PICK a \in disk : /\ IsFile(a) /\ Last(a) = Last(q)
                            /\ \/ q = a /\ a \notin Tree(new[r])
                               \/ q = NewDir(r) \o a /\ a \in Tree(new[r])
      BY <1>2, MovedFile
    <2>2. PICK b \in disk : /\ IsFile(b) /\ Last(b) = Last(t)
                            /\ \/ t = b /\ b \notin Tree(new[r])
                               \/ t = NewDir(r) \o b /\ b \in Tree(new[r])
      BY <1>2, MovedFile
    <2>3. a = b
      BY <1>2, <2>1, <2>2 DEF IInv, FilesInv
    <2> QED BY <2>1, <2>2, <2>3
  <1> QED BY <1>1, <1>2 DEF FilesInv

\* Nobody holds the file that is moved, for it is where it first was.
LEMMA MovedIsNew ==
  ASSUME IInv, NEW r \in Requests, Rename(r), IsFile(new[r])
  PROVE  /\ Last(new[r]) \in uploaded
         /\ \A p \in People : ~Holds(p, new[r])
         /\ \A p \in People : image[p] # new[r]
         /\ \A s \in Requests : old[s] # new[r] /\ (moved[s] => new[s] # new[r])
  <1>1. new[r] \in Path /\ new[r] \in disk /\ new[r] # None
    BY MovedPaths, ImagesArePaths
  <1>2. Last(new[r]) \in uploaded
    BY <1>1 DEF IInv, FilesInv
  <1>3. ASSUME NEW p \in People, Holds(p, new[r]) PROVE FALSE
    <2>1. Gone(new[r])
      BY <1>1, <1>3 DEF IInv, HomeInv
    <2>2. Len(new[r]) > Len(new[r]) /\ Len(new[r]) \in Nat
      BY <1>1, <2>1, LenProperties DEF Gone, Path
    <2> QED BY <2>2
  <1>4. \A s \in Requests : old[s] = new[r] \/ moved[s] => who[s] \in People
    BY <1>1 DEF IInv, PcInv, Early
  <1> QED BY <1>2, <1>3, <1>4 DEF Holds

LEMMA RenameKeepsHome ==
  ASSUME IInv, NEW r \in Requests, Rename(r)
  PROVE  HomeInv'
  <1>1. \A p \in People, n \in Path :
           Holds(p, n)' => Holds(p, n) \/ (p = who[r] /\ n = new[r])
    BY DEF Holds, Rename, IInv, TypeOK
  <1>2. ASSUME NEW n \in Path, IsFile(n), Gone(n) PROVE Gone(n)'
    <2> SUFFICES ASSUME NEW q \in disk', IsFile(q), Last(q) = Last(n)
                 PROVE  Len(q) > Len(n)
      BY <1>2 DEF Gone, Rename
    <2>1. PICK t \in disk : IsFile(t) /\ Last(t) = Last(q) /\ Len(t) <= Len(q)
      BY MovedFile
    <2>2. Len(t) > Len(n)
      BY <1>2, <2>1 DEF Gone
    <2>3. Len(t) \in Nat /\ Len(n) \in Nat
      BY LenProperties DEF IInv, TypeOK, Path
    <2>4. Len(q) \in Nat
      BY MovedPathsArePaths, LenProperties DEF Path
    <2> QED BY <2>1, <2>2, <2>3, <2>4
  <1>3. ASSUME NEW n \in Path, n = new[r], IsFile(n) PROVE Gone(n)'
    <2> SUFFICES ASSUME NEW q \in disk', IsFile(q), Last(q) = Last(new[r])
                 PROVE  Len(q) > Len(new[r])
      BY <1>3, MovedIsNew DEF Gone, Rename
    <2>1. PICK t \in disk : /\ IsFile(t) /\ Last(t) = Last(q)
                            /\ \/ q = t /\ t \notin Tree(new[r])
                               \/ q = NewDir(r) \o t /\ t \in Tree(new[r])
      BY MovedFile
    <2>2. t = new[r]
      BY <1>3, <2>1, MovedPaths DEF IInv, FilesInv
    <2>3. q = NewDir(r) \o new[r]
      BY <2>1, <2>2, MovedPaths
    <2>4. Len(q) = Len(new[r]) + 2 /\ Len(new[r]) \in Nat
      BY <2>3, MovedPaths, Placed, LenProperties DEF Path
    <2> QED BY <2>4
  <1> SUFFICES ASSUME NEW n \in Path, IsFile(n)
               PROVE  /\ \A p, q \in People : Holds(p, n)' /\ Holds(q, n)' => p = q
                      /\ \A p \in People : Holds(p, n)' => Gone(n)'
    BY DEF HomeInv
  <1>4. CASE n = new[r]
    BY <1>1, <1>3, <1>4, MovedIsNew
  <1>5. CASE n # new[r]
    BY <1>1, <1>2, <1>5 DEF IInv, HomeInv
  <1> QED BY <1>4, <1>5

LEMMA RenameKeepsFresh ==
  ASSUME IInv, NEW r \in Requests, Rename(r), NEW s \in Requests
  PROVE  FreshInv(s)'
  <1>1. Target(s)' = Target(s) /\ new' = new /\ image' = image /\ old' = old
    BY DEF Rename, Target, NewDir
  <1>2. CASE s = r
    <2>1. Target(s) \in disk'
      BY <1>2, MovedPaths
    <2>2. ASSUME IsFile(new[r])
          PROVE  /\ \A p \in People : image[p] # new[r]
                 /\ \A t \in Requests : old[t] # new[r]
                 /\ \A t \in Requests \ {r} : moved'[t] => new[t] # new[r]
      BY <2>2, MovedIsNew DEF Rename, IInv, TypeOK
    <2> QED BY <1>1, <1>2, <2>1, <2>2 DEF FreshInv
  <1>3. CASE s # r
    <2> SUFFICES ASSUME pc[s] = "commit" PROVE FreshInv(s)'
      BY <1>3 DEF FreshInv, Rename, Goto, IInv, TypeOK
    <2>1. Target(s) \in disk' \cup taken'
      BY DEF IInv, FreshInv, Rename, Source
    <2>2. moved[s]
      BY DEF IInv, PcInv
    <2>3. IsFile(new[s]) => new[r] # new[s]
      BY <2>2, MovedIsNew
    <2>4. ASSUME IsFile(new[s]) PROVE \A t \in Requests \ {s} : moved'[t] => new[t] # new[s]
      BY <2>3, <2>4 DEF IInv, FreshInv, Rename, TypeOK
    <2>5. IsFile(new[s]) => /\ \A p \in People : image[p] # new[s]
                            /\ \A t \in Requests : old[t] # new[s]
      BY DEF IInv, FreshInv
    <2> QED BY <1>1, <2>1, <2>4, <2>5 DEF FreshInv
  <1> QED BY <1>2, <1>3

LEMMA RenameKeepsInv ==
  ASSUME IInv, NEW r \in Requests, Rename(r)
  PROVE  IInv'
  <1>1. TypeOK'
    <2>1. disk' \subseteq Path
      BY MovedPathsArePaths
    <2>2. taken' \subseteq Path
      BY MovedPaths DEF IInv, TypeOK, Rename, Source
    <2> QED BY <2>1, <2>2 DEF IInv, TypeOK, Statements, Rename, Goto
  <1>2. \A s \in Requests : PcInv(s)'
    BY DEF IInv, PcInv, TypeOK, Early, Rename, Goto
  <1> QED BY <1>1, <1>2, RenameKeepsApart, RenameKeepsFiles, RenameKeepsHome,
             RenameKeepsFresh DEF IInv

LEMMA CommitKeepsInv ==
  ASSUME IInv, NEW r \in Requests, Commit(r)
  PROVE  IInv'
  <1> USE DEF IInv, Commit, Goto, NewRow
  <1>1. who[r] \in People /\ new[r] \in Names /\ moved[r]
    BY DEF PcInv
  <1>2. TypeOK'
    <2>1. image' \in [People -> Image]
      BY <1>1 DEF TypeOK, Image
    <2>2. leaked' \subseteq Path
      <3> SUFFICES ASSUME image[who[r]] # None PROVE Place(who[r]) \in Path
        BY DEF TypeOK
      <3>1. image[who[r]] \in Path
        BY <1>1, ImagesArePaths DEF TypeOK
      <3> QED BY <3>1, DirsOfPeople, Placed DEF Place
    <2> QED BY <1>1, <2>1, <2>2 DEF TypeOK, Statements
  <1>3. \A s \in Requests : PcInv(s)'
    BY DEF PcInv, TypeOK, Early
  <1>4. HomeInv'
    <2>1. \A q \in People, n \in Path : Holds(q, n)' => Holds(q, n)
      BY <1>1 DEF Holds, TypeOK
    <2> QED BY <2>1, KeepHome
  <1>5. \A s \in Requests : FreshInv(s)'
    BY <1>1 DEF FreshInv, Target, NewDir, TypeOK, PcInv
  <1> QED BY <1>2, <1>3, <1>4, <1>5, SameDisk

LEMMA EndKeepsInv ==
  ASSUME IInv, NEW r \in Requests, Expire(r) \/ Fail(r)
  PROVE  IInv'
  <1> USE DEF IInv, Expire, Fail, Goto, Active
  <1>1. who[r] \in People /\ new[r] \in Names
    BY DEF PcInv
  <1>2. TypeOK'
    <2>1. Target(r) \in Path
      BY <1>1, ImagesAssumption, DirsOfPeople, Placed DEF Target, NewDir
    <2>2. spoiled' \subseteq People /\ leaked' \subseteq Path
      BY <1>1, <2>1 DEF TypeOK
    <2> QED BY <2>2 DEF TypeOK, Statements
  <1>3. \A s \in Requests : PcInv(s)'
    BY <1>1 DEF PcInv, TypeOK, Early
  <1>4. HomeInv'
    <2>1. \A q \in People, n \in Path : Holds(q, n)' => Holds(q, n)
      BY DEF Holds
    <2> QED BY <2>1, KeepHome
  <1>5. \A s \in Requests : FreshInv(s)'
    BY DEF FreshInv, Target, NewDir, TypeOK
  <1>6. Apart' /\ FilesInv'
    BY SameDisk
  <1> QED BY <1>2, <1>3, <1>4, <1>5, <1>6

LEMMA StepKeepsInv == IInv /\ [Next]_vars => IInv'
  <1> SUFFICES ASSUME IInv, [Next]_vars PROVE IInv'
    OBVIOUS
  <1>1. CASE Next
    BY <1>1, UploadKeepsInv, ReceiveKeepsInv, ReadKeepsInv, LookKeepsInv, UnlinkKeepsInv,
       MakeDirKeepsInv, RenameKeepsInv, CommitKeepsInv, EndKeepsInv DEF Next, Step
  <1>2. CASE UNCHANGED vars
    BY <1>2 DEF IInv, TypeOK, Apart, FilesInv, PcInv, HomeInv, Holds, Gone, FreshInv, Target,
                NewDir
  <1> QED BY <1>1, <1>2

LEMMA AlwaysInv == Spec => []IInv
  BY StartInv, StepKeepsInv, PTL DEF Spec

\* The rows, the files and the requests keep their types.
THEOREM TypesAreKept == Spec => []TypeOK
  BY AlwaysInv, PTL DEF IInv


-----------------------------------------------------------------------------
(* Who takes an image away.                                                *)

LEMMA PlacePath ==
  ASSUME IInv, NEW p \in People, image[p] # None
  PROVE  image[p] \in Path /\ Place(p) \in Path /\ Place(p)[1] = ProfilePath(p)[1]
  <1>1. image[p] \in Path
    BY ImagesArePaths DEF IInv, TypeOK
  <1> QED BY <1>1, DirsOfPeople, Placed DEF Place

\* What the row of a person names leaves its place in two ways only.
LEMMA ImageLeaves ==
  ASSUME IInv, [Next]_vars, NEW p \in People, image[p] # None,
         Place(p) \in disk \ disk'
  PROVE  \E r \in Requests :
            \/ Unlink(r) /\ who[r] = p /\ old[r] = image[p] /\ ~removed[r]
            \/ Rename(r) /\ who[r] \notin Peers(p) /\ IsPrefix(new[r], Place(p)) /\ ~moved[r]
  <1>1. PICK r \in Requests : Unlink(r) \/ Rename(r)
    BY DEF Next, Step, Upload, Receive, Read, Update, FindOld, FindNew, MakeDir, Commit,
           Expire, Fail
  <1>2. CASE Unlink(r)
    <2>1. who[r] \in People /\ ~removed[r] /\ old[r] # None
      BY <1>2 DEF IInv, PcInv, Unlink, Early
    <2>2. old[r] \in Path /\ image[p] \in Path
      BY <2>1, ImagesArePaths, PlacePath DEF IInv, TypeOK
    <2>3. OldFile(r) = Place(p) /\ IsFile(OldFile(r))
      BY <1>2 DEF Unlink
    <2>4. old[r] = image[p]
      <3>1. ProfilePath(who[r]) \o old[r] = ProfilePath(p) \o image[p]
        BY <2>3 DEF OldFile, Place
      <3>2. ProfilePath(who[r]) \in ProfileDirs /\ ProfilePath(p) \in ProfileDirs
        BY DirsOfPeople
      <3>3. NameOf(ProfilePath(who[r]) \o old[r]) = old[r]
        BY <2>2, <3>2, PlacedParts
      <3>4. NameOf(ProfilePath(p) \o image[p]) = image[p]
        BY <2>2, <3>2, PlacedParts
      <3> QED BY <3>1, <3>3, <3>4
    <2>5. IsFile(image[p])
      BY <2>2, <2>3, DirsOfPeople, Placed DEF Place
    <2>6. Holds(who[r], image[p]) /\ Holds(p, image[p])
      BY <2>4 DEF Holds
    <2>7. who[r] = p
      BY <2>1, <2>2, <2>5, <2>6 DEF IInv, HomeInv
    <2> QED BY <1>2, <2>1, <2>4, <2>7
  <1>3. CASE Rename(r)
    <2>1. Place(p) \in Tree(new[r])
      BY <1>3 DEF Rename, Source
    <2>2. IsPrefix(new[r], Place(p)) /\ ~moved[r] /\ Place(p)[1] # NewDir(r)[1]
      BY <1>3, <2>1, MovedPaths DEF Tree
    <2>3. ProfilePath(p) # ProfilePath(who[r])
      BY <2>2, PlacePath DEF NewDir
    <2>4. who[r] \notin Peers(p)
      BY <2>3, ImagesAssumption DEF ProfilePath, Peers
    <2> QED BY <1>3, <2>2, <2>4
  <1> QED BY <1>1, <1>2, <1>3

\* What the two ways do to the request.
LEMMA LeavingActs ==
  ASSUME IInv, NEW r \in Requests
  PROVE  /\ Unlink(r) => removed'[r] /\ who'[r] = who[r] /\ Active(r)' /\ old'[r] = old[r]
         /\ Rename(r) => moved'[r]
  BY DEF Unlink, Rename, Goto, Active, IInv, TypeOK

\* Whatever below the storage directory clients name, no person's image is taken
\* away by another person of the same kind.
THEOREM PeersKeepAway == Spec => PeersNeverRemove
  <1>1. ASSUME IInv, [Next]_vars, NEW p \in People, image[p] # None,
               Place(p) \in disk \ disk'
        PROVE  \E r \in Requests :
                  \/ who[r] = p /\ removed'[r] /\ ~removed[r]
                  \/ /\ who[r] \notin Peers(p) /\ moved'[r] /\ ~moved[r]
                     /\ IsPrefix(new[r], Place(p))
    BY <1>1, ImageLeaves, LeavingActs
  <1>2. IInv /\ [Next]_vars
           => [\A p \in People :
                 image[p] # None /\ Place(p) \in disk \ disk' =>
                    \E r \in Requests :
                       \/ who[r] = p /\ removed'[r] /\ ~removed[r]
                       \/ /\ who[r] \notin Peers(p) /\ moved'[r] /\ ~moved[r]
                          /\ IsPrefix(new[r], Place(p))]_vars
    BY <1>1
  <1> QED BY <1>2, AlwaysInv, PTL DEF Spec, PeersNeverRemove

\* Clients name files, as the controllers mean them to.
NamesAreFiles == Names \subseteq {<<f>> : f \in Files}

\* What the row of a person names is removed by that person's own requests only.
OnlyOwnersRemove ==
    [][\A p \in People :
          image[p] # None /\ Place(p) \in disk \ disk' =>
             \E r \in Requests : who[r] = p /\ removed'[r] /\ ~removed[r]]_vars

\* While clients name files, the image of a person is removed by that person's
\* requests only: a file is in no directory that a request could name, and a file
\* in its place is named by nobody else.
THEOREM OwnersRemove == ASSUME NamesAreFiles PROVE Spec => OnlyOwnersRemove
  <1>1. ASSUME IInv, NEW r \in Requests, Rename(r), NEW p \in People, image[p] # None
        PROVE  ~IsPrefix(new[r], Place(p))
    <2>1. PICK f \in Files : new[r] = <<f>>
      BY <1>1, MovedPaths DEF NamesAreFiles
    <2>2. <<f>> \in Path /\ Len(<<f>>) = 1 /\ <<f>>[1] = f
      BY ImagesArePaths
    <2>3. Place(p) \in Path /\ Place(p)[1] \in {"user", "admin"}
      BY <1>1, PlacePath, DirsOfPeople, DirParts
    <2>4. f # Place(p)[1]
      BY <2>3, ImagesAssumption
    <2>5. ASSUME IsPrefix(<<f>>, Place(p)) PROVE FALSE
      <3>1. \A i \in 1..Len(<<f>>) : <<f>>[i] = Place(p)[i]
        BY <2>2, <2>3, <2>5, PrefixParts
      <3>2. 1 \in 1..Len(<<f>>)
        BY <2>2
      <3> QED BY <2>2, <2>4, <3>1, <3>2
    <2> QED BY <2>1, <2>5
  <1>2. ASSUME IInv, [Next]_vars, NEW p \in People, image[p] # None,
               Place(p) \in disk \ disk'
        PROVE  \E r \in Requests : who[r] = p /\ removed'[r] /\ ~removed[r]
    BY <1>1, <1>2, ImageLeaves, LeavingActs
  <1>3. IInv /\ [Next]_vars
           => [\A p \in People :
                 image[p] # None /\ Place(p) \in disk \ disk' =>
                    \E r \in Requests : who[r] = p /\ removed'[r] /\ ~removed[r]]_vars
    BY <1>2
  <1> QED BY <1>3, AlwaysInv, PTL DEF Spec, OnlyOwnersRemove

-----------------------------------------------------------------------------
(* Whether an image is there.                                              *)

LEMMA StartImages == Init => ImagesExist
  BY DEF Init, ImagesExist, Place

LEMMA StepKeepsImages == IInv /\ ImagesExist /\ [Next]_vars => ImagesExist'
  <1> SUFFICES ASSUME IInv, ImagesExist, [Next]_vars,
                      NEW p \in People, image'[p] \notin {<<Picture>>, None},
                      p \notin spoiled'
               PROVE  \/ Place(p)' \in disk' \cup taken'
                      \/ \E r \in Requests : /\ Active(r)' /\ who'[r] = p /\ removed'[r]
                                             /\ old'[r] = image'[p]
    BY DEF ImagesExist
  <1>1. CASE \E r \in Requests : Commit(r) /\ who[r] = p
    <2> PICK r \in Requests : Commit(r) /\ who[r] = p BY <1>1
    <2>1. image'[p] = new[r] /\ Target(r) \in disk' \cup taken'
      BY DEF Commit, NewRow, IInv, FreshInv, TypeOK
    <2> QED BY <2>1 DEF Target, NewDir, Place
  <1>2. CASE \E r \in Requests : Fail(r)
    <2> PICK r \in Requests : Fail(r) BY <1>2
    <2>1. p \notin spoiled /\ image' = image /\ disk' = disk /\ taken' = taken
      BY DEF Fail
    <2>2. CASE Place(p) \in disk \cup taken
      BY <2>1, <2>2 DEF Place
    <2>3. CASE \E s \in Requests : /\ Active(s) /\ who[s] = p /\ removed[s]
                                   /\ old[s] = image[p]
      <3> PICK s \in Requests : Active(s) /\ who[s] = p /\ removed[s] /\ old[s] = image[p]
        BY <2>3
      <3>1. s # r
        BY <2>1 DEF Fail
      <3> QED BY <2>1, <3>1 DEF Fail, Goto, Active, IInv, TypeOK
    <2> QED BY <2>1, <2>2, <2>3 DEF ImagesExist
  <1>3. CASE \A r \in Requests : ~Fail(r) /\ ~(Commit(r) /\ who[r] = p)
    <2>1. image'[p] = image[p] /\ p \notin spoiled /\ taken \subseteq taken'
      BY <1>3 DEF Next, Step, Upload, Receive, Read, Update, FindOld, Unlink, FindNew,
                  MakeDir, Rename, Commit, Expire, IInv, TypeOK
    <2>2. ASSUME NEW s \in Requests, Active(s), removed[s], who[s] = p, old[s] = image[p]
          PROVE  Active(s)' /\ removed'[s] /\ who'[s] = p /\ old'[s] = image'[p]
      <3>1. pc[s] \in {"findNew", "makeDir", "rename", "commit"}
        BY <2>2 DEF IInv, PcInv, Active, TypeOK, Statements, Early
      <3> QED BY <1>3, <2>1, <2>2, <3>1 DEF Next, Step, Upload, Receive, Read, Update,
                  FindOld, Unlink, FindNew, MakeDir, Rename, Commit, Expire, IInv, TypeOK,
                  Goto, Active
    <2>3. CASE Place(p) \in disk \cup taken
      <3>1. Place(p)' = Place(p)
        BY <2>1 DEF Place
      <3>2. CASE Place(p) \in disk' \cup taken'
        BY <3>1, <3>2
      <3>3. CASE Place(p) \notin disk' \cup taken'
        <4>1. Place(p) \in disk \ disk' /\ image[p] # None
          BY <2>1, <2>3, <3>3
        <4>2. PICK r \in Requests :
                 \/ Unlink(r) /\ who[r] = p /\ old[r] = image[p]
                 \/ Rename(r)
          BY <4>1, ImageLeaves
        <4>3. ~Rename(r)
          BY <3>3, <4>1 DEF Rename
        <4> QED BY <2>1, <4>2, <4>3, LeavingActs
      <3> QED BY <3>2, <3>3
    <2>4. CASE \E s \in Requests : /\ Active(s) /\ who[s] = p /\ removed[s]
                                   /\ old[s] = image[p]
      BY <2>2, <2>4
    <2> QED BY <2>1, <2>3, <2>4 DEF ImagesExist
  <1> QED BY <1>1, <1>2, <1>3

\* What a row names exists, but while a request that has removed it is at work,
\* after one has failed, and after a move has taken it with its directory.
THEOREM ImagesAlwaysExist == Spec => []ImagesExist
  BY StartImages, StepKeepsImages, AlwaysInv, PTL DEF Spec


-----------------------------------------------------------------------------
(* Whether a file in the directories of profile images is named. A request *)
(* that goes on past the removal knows that the old file is gone.          *)

Later == {"findNew", "makeDir", "rename", "commit"}
GoneInv(r) ==
    pc[r] \in Later /\ old[r] # None /\ IsFile(old[r]) => OldFile(r) \notin disk

LEMMA StartGone == Init => \A r \in Requests : GoneInv(r)
  BY DEF Init, GoneInv, Later

\* A file that was replaced does not come back to its place.
LEMMA StaysGone ==
  ASSUME IInv, [Next]_vars, NEW p \in People, NEW a \in Path, IsFile(a), Holds(p, a),
         ProfilePath(p) \o a \notin disk
  PROVE  ProfilePath(p) \o a \notin disk'
  <1> DEFINE q == ProfilePath(p) \o a
  <1>1. ProfilePath(p) \in ProfileDirs /\ Gone(a) /\ Len(a) \in Nat
    BY DirsOfPeople, LenProperties DEF IInv, HomeInv, Path
  <1>2. q \in Path /\ IsFile(q) /\ Len(q) = Len(a) + 2
    BY <1>1, Placed
  <1>3. CASE \E f \in Files : Upload(f)
    <2>1. \A f \in Files : Len(<<f>>) = 1
      OBVIOUS
    <2>2. Len(q) # 1
      BY <1>1, <1>2
    <2> QED BY <1>3, <2>1, <2>2 DEF Upload
  <1>4. CASE \E r \in Requests : MakeDir(r)
    <2> PICK r \in Requests : MakeDir(r) BY <1>4
    <2>1. ~IsFile(<<Head(NewDir(r))>>) /\ ~IsFile(NewDir(r))
      BY DirsOfPeople, DirParts DEF NewDir
    <2> QED BY <1>2, <2>1 DEF MakeDir
  <1>5. CASE \E r \in Requests : Rename(r)
    <2> PICK r \in Requests : Rename(r) BY <1>5
    <2> SUFFICES ASSUME NEW t \in Tree(new[r]), q = NewDir(r) \o t PROVE FALSE
      BY MovedPaths
    <2>1. t \in disk /\ t \in Path /\ NewDir(r) \in ProfileDirs
      BY MovedPaths DEF IInv, TypeOK
    <2>2. t = a
      BY <1>1, <2>1, PlacedOnce
    <2>3. Len(a) > Len(a)
      BY <1>1, <2>1, <2>2 DEF Gone
    <2> QED BY <1>1, <2>3
  <1>6. CASE ~(\/ \E f \in Files : Upload(f)
               \/ \E r \in Requests : MakeDir(r) \/ Rename(r))
    <2>1. disk' \subseteq disk
      BY <1>6 DEF Next, Step, Receive, Read, Update, FindOld, Unlink, FindNew, Commit,
                  Expire, Fail
    <2> QED BY <2>1
  <1> QED BY <1>3, <1>4, <1>5, <1>6

LEMMA StepKeepsGone ==
  ASSUME IInv, \A r \in Requests : GoneInv(r), [Next]_vars
  PROVE  \A r \in Requests : GoneInv(r)'
  <1> SUFFICES ASSUME NEW r \in Requests, pc'[r] \in Later, old'[r] # None, IsFile(old'[r])
               PROVE  OldFile(r)' \notin disk'
    BY DEF GoneInv
  <1>1. CASE Update(r) \/ FindOld(r) \/ Unlink(r)
    BY <1>1 DEF Update, FindOld, Unlink, Goto, OldFile, Later, IInv, TypeOK
  <1>2. CASE ~(Update(r) \/ FindOld(r) \/ Unlink(r))
    <2>1. pc[r] \in Later /\ old'[r] = old[r] /\ who'[r] = who[r]
      BY <1>2 DEF Next, Step, Upload, Receive, Read, Update, FindOld, Unlink, FindNew,
                  MakeDir, Rename, Commit, Expire, Fail, Goto, Later, IInv, TypeOK
    <2>2. OldFile(r) \notin disk /\ OldFile(r)' = OldFile(r)
      BY <2>1 DEF GoneInv, OldFile
    <2>3. who[r] \in People /\ old[r] \in Path /\ Holds(who[r], old[r])
      BY <2>1, ImagesArePaths DEF IInv, TypeOK, PcInv, Holds, Later
    <2> QED BY <2>1, <2>2, <2>3, StaysGone DEF OldFile
  <1> QED BY <1>1, <1>2

LEMMA AlwaysGone == Spec => [](IInv /\ \A r \in Requests : GoneInv(r))
  <1>1. Init => IInv /\ \A r \in Requests : GoneInv(r)
    BY StartInv, StartGone
  <1>2. (IInv /\ \A r \in Requests : GoneInv(r)) /\ [Next]_vars
           => (IInv /\ \A r \in Requests : GoneInv(r))'
    BY StepKeepsInv, StepKeepsGone
  <1> QED BY <1>1, <1>2, PTL DEF Spec

\* What keeps a file of these directories from being an orphan.
IsNamed(d, f) ==
    \/ \E p \in People : ProfilePath(p) = d /\ image[p] = <<f>>
    \/ \E r \in Requests : Active(r) /\ moved[r] /\ Target(r) = d \o <<f>>
    \/ d \o <<f>> \in leaked

LEMMA StartNamed == Init => ImagesAreNamed
  <1> SUFFICES ASSUME Init, NEW d \in ProfileDirs, NEW f \in Files, d \o <<f>> \in disk
               PROVE  IsNamed(d, f)
    BY DEF ImagesAreNamed, IsNamed, ProfileDirs
  <1> DEFINE P == {p \in People : InitialImage[p] \notin {<<Picture>>, None}}
             dirs == {<<Head(ProfilePath(p))>> : p \in P} \cup {ProfilePath(p) : p \in P}
  <1>1. IsFile(d \o <<f>>)
    BY PlacedFile
  <1>2. \A q \in dirs : ~IsFile(q)
    BY DirsOfPeople, DirParts
  <1>3. ~IsFile(<<>>)
    BY DEF IsFile
  <1>4. disk = {<<>>} \cup dirs \cup {ProfilePath(p) \o InitialImage[p] : p \in P}
    BY DEF Init
  <1>5. PICK p \in P : d \o <<f>> = ProfilePath(p) \o InitialImage[p]
    <2> HIDE DEF dirs
    <2> QED BY <1>1, <1>2, <1>3, <1>4
  <1>6. InitialImage[p] \in Path /\ <<f>> \in Path
    BY ImagesAssumption, ImagesArePaths
  <1>7. ProfilePath(p) = d /\ InitialImage[p] = <<f>>
    BY <1>5, <1>6, DirsOfPeople, PlacedOnce
  <1> QED BY <1>7 DEF IsNamed, Init

\* A file is put beside the profile images only by a request that named it.
LEMMA RenameKeepsNamed ==
  ASSUME IInv, NEW r \in Requests, Rename(r), NEW d \in ProfileDirs, NEW f \in Files,
         d \o <<f>> \in disk => IsNamed(d, f), d \o <<f>> \in disk'
  PROVE  IsNamed(d, f)'
  <1>1. CASE Target(r) = d \o <<f>>
    <2>1. Active(r)' /\ moved'[r] /\ Target(r)' = d \o <<f>>
      BY <1>1 DEF IInv, TypeOK, Rename, Goto, Active, Target, NewDir
    <2> QED BY <2>1 DEF IsNamed
  <1>2. CASE d \o <<f>> \in disk
    <2>1. IsNamed(d, f)
      BY <1>2
    <2> QED BY <2>1 DEF IsNamed, IInv, TypeOK, Rename, Goto, Active, Target, NewDir
  <1>3. CASE \E t \in Tree(new[r]) : d \o <<f>> = NewDir(r) \o t
    <2> PICK t \in Tree(new[r]) : d \o <<f>> = NewDir(r) \o t
      BY <1>3
    <2>1. t \in Path /\ <<f>> \in Path /\ NewDir(r) \in ProfileDirs /\ new[r] \in Path
          /\ new[r] # <<>> /\ IsPrefix(new[r], t)
      BY MovedPaths, ImagesArePaths DEF IInv, TypeOK, Tree
    <2>2. t = <<f>> /\ d = NewDir(r)
      BY <2>1, PlacedOnce
    <2>3. Len(new[r]) <= Len(<<f>>) /\ \A i \in 1..Len(new[r]) : new[r][i] = <<f>>[i]
      BY <2>1, <2>2, PrefixParts
    <2>4. Len(new[r]) = 1
      <3>1. Len(new[r]) \in Nat /\ Len(new[r]) # 0 /\ Len(<<f>>) = 1
        BY <2>1, LenProperties, EmptySeq DEF Path
      <3>2. \A n \in Nat : n # 0 /\ n <= 1 => n = 1
        OBVIOUS
      <3>3. Len(new[r]) <= 1
        BY <2>3, <3>1
      <3> QED BY <3>1, <3>2, <3>3
    <2>5. new[r] = <<f>>
      <3>1. Len(new[r]) = Len(<<f>>)
        BY <2>4
      <3> QED BY <2>1, <2>3, <3>1, SeqEqual DEF Path
    <2> QED BY <1>1, <2>2, <2>5 DEF Target
  <1> QED BY <1>2, <1>3, MovedPaths

LEMMA CommitKeepsNamed ==
  ASSUME IInv, NEW r \in Requests, GoneInv(r), Commit(r),
         NEW d \in ProfileDirs, NEW f \in Files,
         d \o <<f>> \in disk => IsNamed(d, f), d \o <<f>> \in disk'
  PROVE  IsNamed(d, f)'
  <1> DEFINE p == who[r]
  <1>1. p \in People /\ new[r] \in Names /\ new[r] \in Path /\ <<f>> \in Path
    BY ImagesAssumption, ImagesArePaths DEF IInv, PcInv, Commit
  <1>2. IsNamed(d, f) /\ d \o <<f>> \in disk
    BY DEF Commit
  <1>3. image'[p] = new[r] /\ \A q \in People \ {p} : image'[q] = image[q]
    BY <1>1 DEF Commit, NewRow, IInv, TypeOK
  <1>4. CASE \E q \in People : ProfilePath(q) = d /\ image[q] = <<f>>
    <2> PICK q \in People : ProfilePath(q) = d /\ image[q] = <<f>> BY <1>4
    <2>1. CASE q # p
      BY <1>3, <2>1 DEF IsNamed
    <2>2. CASE q = p /\ old[r] # image[p]
      <3>1. <<f>> # None
        BY ImagesArePaths
      <3>2. Place(p) \in leaked' /\ Place(p) = d \o <<f>>
        BY <2>2, <3>1 DEF Commit, Place
      <3> QED BY <3>2 DEF IsNamed
    <2>3. CASE q = p /\ old[r] = image[p]
      <3>1. old[r] = <<f>> /\ IsFile(<<f>>) /\ <<f>> # None /\ pc[r] = "commit"
        BY <2>3, ImagesArePaths DEF Commit
      <3>2. OldFile(r) = d \o <<f>>
        BY <2>3, <3>1 DEF OldFile
      <3> QED BY <1>2, <3>1, <3>2 DEF GoneInv, Later
    <2> QED BY <2>1, <2>2, <2>3
  <1>5. CASE \E s \in Requests : Active(s) /\ moved[s] /\ Target(s) = d \o <<f>>
    <2> PICK s \in Requests : Active(s) /\ moved[s] /\ Target(s) = d \o <<f>> BY <1>5
    <2>1. CASE s = r
      <3>1. d \o <<f>> = NewDir(r) \o new[r] /\ NewDir(r) \in ProfileDirs
            /\ new[r] \in Path /\ <<f>> \in Path
        BY <1>1, <2>1, DirsOfPeople DEF Target, NewDir
      <3>2. DirOf(NewDir(r) \o new[r]) = NewDir(r) /\ NameOf(NewDir(r) \o new[r]) = new[r]
        BY <3>1, PlacedParts
      <3>3. DirOf(d \o <<f>>) = d /\ NameOf(d \o <<f>>) = <<f>>
        BY <3>1, PlacedParts
      <3>4. new[r] = <<f>> /\ d = NewDir(r)
        BY <3>1, <3>2, <3>3
      <3> QED BY <1>1, <1>3, <3>4 DEF IsNamed, NewDir
    <2>2. CASE s # r
      <3>1. Active(s)' /\ moved'[s] /\ Target(s)' = d \o <<f>>
        BY <2>2 DEF Commit, Goto, Active, Target, NewDir, IInv, TypeOK
      <3> QED BY <3>1 DEF IsNamed
    <2> QED BY <2>1, <2>2
  <1>6. CASE d \o <<f>> \in leaked
    BY <1>6 DEF IsNamed, Commit
  <1> QED BY <1>2, <1>4, <1>5, <1>6 DEF IsNamed

LEMMA FailKeepsNamed ==
  ASSUME IInv, NEW r \in Requests, Fail(r), NEW d \in ProfileDirs, NEW f \in Files,
         d \o <<f>> \in disk => IsNamed(d, f), d \o <<f>> \in disk'
  PROVE  IsNamed(d, f)'
  <1>1. IsNamed(d, f)
    BY DEF Fail
  <1>2. CASE moved[r] /\ Target(r) = d \o <<f>>
    BY <1>2 DEF Fail, IsNamed
  <1>3. CASE ~(moved[r] /\ Target(r) = d \o <<f>>)
    <2>1. \A s \in Requests : Active(s) /\ moved[s] /\ Target(s) = d \o <<f>> =>
             Active(s)' /\ moved'[s] /\ Target(s)' = d \o <<f>>
      BY <1>3 DEF Fail, Goto, Active, Target, NewDir, IInv, TypeOK
    <2>2. image' = image /\ leaked \subseteq leaked'
      BY DEF Fail
    <2> QED BY <1>1, <2>1, <2>2 DEF IsNamed
  <1> QED BY <1>2, <1>3

\* The other steps put no file into these directories, name what was named, and
\* leave what an active request has moved.
LEMMA OthersKeepNamed ==
  ASSUME IInv, [Next]_vars,
         \A r \in Requests : ~Rename(r) /\ ~Commit(r) /\ ~Fail(r),
         NEW d \in ProfileDirs, NEW f \in Files,
         d \o <<f>> \in disk => IsNamed(d, f), d \o <<f>> \in disk'
  PROVE  IsNamed(d, f)'
  <1>1. IsFile(d \o <<f>>) /\ Len(d \o <<f>>) = 3
    BY PlacedFile
  <1>2. d \o <<f>> \in disk
    <2>1. CASE \E g \in Files : Upload(g)
      <3>1. \A g \in Files : <<g>> # d \o <<f>>
        BY <1>1
      <3> QED BY <2>1, <3>1 DEF Upload
    <2>2. CASE \E r \in Requests : MakeDir(r)
      <3> PICK r \in Requests : MakeDir(r) BY <2>2
      <3>1. ~IsFile(<<Head(NewDir(r))>>) /\ ~IsFile(NewDir(r))
        BY DirsOfPeople, DirParts DEF NewDir
      <3> QED BY <1>1, <3>1 DEF MakeDir
    <2>3. CASE ~((\E g \in Files : Upload(g)) \/ \E r \in Requests : MakeDir(r))
      BY <2>3 DEF Next, Step, Receive, Read, Update, FindOld, Unlink, FindNew, Expire
    <2> QED BY <2>1, <2>2, <2>3
  <1>3. image' = image /\ leaked' = leaked
    BY DEF Next, Step, Upload, Receive, Read, Update, FindOld, Unlink, FindNew, MakeDir,
           Expire
  <1>4. \A s \in Requests : Active(s) /\ moved[s] =>
           Active(s)' /\ moved'[s] /\ Target(s)' = Target(s)
    <2> SUFFICES ASSUME NEW s \in Requests, Active(s), moved[s]
                 PROVE  Active(s)' /\ moved'[s] /\ Target(s)' = Target(s)
      OBVIOUS
    <2>1. pc[s] = "commit"
      BY DEF IInv, PcInv, Active, TypeOK, Statements, Early
    <2>2. moved' = moved /\ who'[s] = who[s] /\ new'[s] = new[s] /\ pc'[s] = pc[s]
      BY <2>1 DEF IInv, TypeOK, Next, Step, Upload, Receive, Read, Update, FindOld,
                  Unlink, FindNew, MakeDir, Expire, Goto
    <2> QED BY <2>2 DEF Active, Target, NewDir
  <1> QED BY <1>2, <1>3, <1>4 DEF IsNamed

LEMMA StepKeepsNamed ==
  IInv /\ (\A r \in Requests : GoneInv(r)) /\ ImagesAreNamed /\ [Next]_vars
     => ImagesAreNamed'
  <1> SUFFICES ASSUME IInv, \A r \in Requests : GoneInv(r), ImagesAreNamed, [Next]_vars,
                      NEW d \in ProfileDirs, NEW f \in Files, d \o <<f>> \in disk'
               PROVE  IsNamed(d, f)'
    BY DEF ImagesAreNamed, IsNamed, ProfileDirs
  <1>1. d \o <<f>> \in disk => IsNamed(d, f)
    BY DEF ImagesAreNamed, IsNamed, ProfileDirs
  <1> QED BY <1>1, RenameKeepsNamed, CommitKeepsNamed, FailKeepsNamed, OthersKeepNamed

\* No profile image is an orphan, but for those of requests that failed after
\* they had moved their file, or overlapped: a file that is in its place is named
\* by a row or by the request that brought it.
THEOREM ImagesStayNamed == Spec => []ImagesAreNamed
  BY StartNamed, StepKeepsNamed, AlwaysGone, PTL DEF Spec

=============================================================================
