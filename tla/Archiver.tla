------------------------------- MODULE Archiver -------------------------------
(***************************************************************************)
(* Archiver (Archiver.cc): the ROOT file it writes, how open() finds its   *)
(* name, and what archive() and archiveWithReferences() make of the        *)
(* directories and monitor elements of a Storage.                          *)
(*                                                                         *)
(* A file is external: a tree of directories that hold objects by name, to *)
(* which mkdir() adds nothing where the name is taken.  Other programs may *)
(* create files in the same place at any time.                             *)
(***************************************************************************)
EXTENDS Integers, FiniteSets, SequencesExt

CONSTANTS
  Bases,       \* file names without .root
  RunNumbers,  \* run numbers that open() is given, -1 for none
  Paths,       \* the directories of the storage, closed under the parent
  Names,       \* names of monitor elements
  Suffixed,    \* the key of the reference of an element, by its name
  ObjectValues, \* the contents of monitor objects
  NoObject,    \* no element, none the selector takes, or one without object
  Reference,   \* the content of a reference object
  Referenced,  \* the elements that have one
  TopDirs,     \* the directory names given to archive()
  Elements,    \* the elements that are ever stored: directory and name
  MaxId,       \* bound: ids of file names
  MaxEntries,  \* bound: objects and directories on the disk
  MaxOwn       \* bound: files opened

NoRun == -1
NoId  == -1

ASSUME ArchiverAssumption ==
  /\ RunNumbers \subseteq Nat \union {-1} /\ MaxId \in Nat /\ MaxEntries \in Nat /\ MaxOwn \in Nat
  /\ <<>> \in Paths /\ \A p \in Paths : p = <<>> \/ Front(p) \in Paths
  /\ \A p \in Paths \union TopDirs : p \in Seq(Range(p))
  /\ NoObject \notin ObjectValues
  /\ Elements \subseteq Paths \X Names /\ Referenced \subseteq Elements

File(base, run, id) == [base |-> base, run |-> run, id |-> id]
FileNames == {File(b, r, i) : b \in Bases, r \in RunNumbers, i \in -1 .. MaxId}
               \union {File(b, NoRun, NoId) : b \in Bases}

\* Modes of TFile.
Modes == {"RECREATE", "UPDATE"}

VARIABLES
  disk,      \* for each file that exists, its directories and its objects
  own,       \* the files this archiver has opened
  state,     \* "closed", "opening", "open", or "zombie": a TFile without file
  current,   \* m_fileName
  mode,      \* m_openingMode
  overwrite, \* the argument of the open() in progress
  last,      \* of the last archive() into the open file: whether it held none of
             \* its directories before, and what it does not hold after
  outcome

archive      == <<own, state, current, mode, overwrite>>
archiverVars == <<disk, archive, last, outcome>>

\* The storages that can be archived: their directories, and the object of
\* each element that the selector function takes.
Storages ==
  {s \in [dirs : SUBSET Paths, objects : [Elements -> ObjectValues \union {NoObject}]] :
     /\ <<>> \in s.dirs /\ \A p \in s.dirs : p = <<>> \/ Front(p) \in s.dirs
     /\ \A e \in Elements : s.objects[e] # NoObject => e[1] \in s.dirs}

\* The elements that archive() writes if it gets to their directories.
Takes(s) == {e \in Elements : s.objects[e] # NoObject}

NoneYet == [clear |-> TRUE, missing |-> {}]
Blank   == [dirs |-> {<<>>}, objects |-> <<>>]

ArchiverInit ==
  /\ disk \in UNION {[F -> {Blank}] : F \in SUBSET FileNames} /\ own = {}
  /\ state = "closed" /\ current = File("", NoRun, NoId)
  /\ mode = "RECREATE" /\ overwrite = TRUE
  /\ last = NoneYet
  /\ outcome = "SUCCESS"
-----------------------------------------------------------------------------
\* FreeName() that does not test the first name it makes.
UntestedName(base, run) ==
  IF File(base, NoRun, NoId) \notin DOMAIN disk THEN File(base, NoRun, NoId)
  ELSE File(base, run, 0)

\* The name of the base itself if no such file exists, without the run number
\* also when there is one; else the first id whose file does not exist.
FreeName(base, run) ==
  IF File(base, NoRun, NoId) \notin DOMAIN disk THEN File(base, NoRun, NoId)
  ELSE LET free == {i \in 0 .. MaxId : File(base, run, i) \notin DOMAIN disk}
       IN  File(base, run, CHOOSE i \in free : \A j \in free : i <= j)

HasFreeName(base, run) ==
  \/ File(base, NoRun, NoId) \notin DOMAIN disk
  \/ \E i \in 0 .. MaxId : File(base, run, i) \notin DOMAIN disk

\* open() up to the TFile: the archive that is open is closed first, and
\* stays closed if the name is refused.
OpenRefused ==
  /\ state # "opening"
  /\ state' = "closed"
  /\ mode' = IF state = "closed" THEN mode ELSE ""
  /\ outcome' = "INVALID_PARAMETER"
  /\ last' = NoneYet
  /\ UNCHANGED <<disk, own, current, overwrite>>

Open(base, run, m, over) ==
  /\ state # "opening"
  /\ over \/ HasFreeName(base, run)
  /\ current' = IF over THEN File(base, run, NoId) ELSE FreeName(base, run)
  /\ state' = "opening" /\ mode' = m /\ overwrite' = over
  /\ Cardinality(own \union {current'}) <= MaxOwn
  /\ last' = NoneYet /\ outcome' = "SUCCESS"
  /\ UNCHANGED <<disk, own>>

\* new TFile() gives a file, or a zombie, which open() does not notice.
OpenFile ==
  /\ state = "opening"
  /\ \/ /\ state' = "open"
        /\ disk' = IF mode = "UPDATE" /\ current \in DOMAIN disk THEN disk
                   ELSE [f \in DOMAIN disk \union {current} |->
                           IF f = current THEN Blank ELSE disk[f]]
        /\ own' = own \union {current}
     \/ state' = "zombie" /\ UNCHANGED <<disk, own>>
  /\ outcome' = "SUCCESS" /\ overwrite' = TRUE
  /\ UNCHANGED <<current, mode, last>>

\* close(), also by the destructor.
Close ==
  /\ state # "opening"
  /\ state' = "closed"
  /\ mode' = IF state = "closed" THEN mode ELSE ""
  /\ outcome' = "SUCCESS"
  /\ last' = NoneYet
  /\ UNCHANGED <<disk, own, current, overwrite>>

\* Another program creates a file.  Files it creates at other times are as
\* good as there from the beginning, or from the last open() on.
OtherCreates(f) ==
  /\ state = "opening" /\ f \notin DOMAIN disk
  /\ disk' = [g \in DOMAIN disk \union {f} |-> IF g = f THEN Blank ELSE disk[g]]
  /\ UNCHANGED <<archive, last, outcome>>
-----------------------------------------------------------------------------
\* mkdir() finds the name of path p taken in a file with the content c.
Taken(c, p) ==
  p # <<>> /\ (p \in c.dirs \/ <<Front(p), Last(p)>> \in DOMAIN c.objects)

\* The directories of s that recursiveWrite() gets to from top: it leaves out,
\* without a word, those that mkdir() does not make.
Reached(s, c, top) ==
  {p \in s.dirs : \A q \in s.dirs \ {<<>>} : IsPrefix(q, p) => ~Taken(c, top \o q)}

\* The objects archived from the directories in P, by directory and key; with
\* a suffix, a reference may have the key of another element, and one of the
\* two hides the other.
Written(s, P, refs) ==
  {<<e[1], e[2], s.objects[e]>> : e \in {x \in Takes(s) : x[1] \in P}} \union
  {<<e[1], Suffixed[e[2]], Reference>> :
     e \in {x \in Takes(s) \intersect Referenced : refs /\ x[1] \in P}}

\* WithObjects() that leaves an object alone which the file has already.
WithNewObjects(c, top, P, W) ==
  {[dirs    |-> c.dirs \union {top \o p : p \in P},
    objects |-> [k \in DOMAIN c.objects \union {<<top \o x[1], x[2]>> : x \in W} |->
                   IF k \in DOMAIN c.objects THEN c.objects[k] ELSE w[k][3]]] :
   w \in {f \in [{<<top \o x[1], x[2]>> : x \in W} -> W] :
               \A k \in DOMAIN f : k = <<top \o f[k][1], f[k][2]>>}}

\* The content c with the objects of W below top.
WithObjects(c, top, P, W) ==
  {[dirs    |-> c.dirs \union {top \o p : p \in P},
    objects |-> [k \in DOMAIN c.objects \union {<<top \o x[1], x[2]>> : x \in W} |->
                   IF k \in DOMAIN w THEN w[k][3] ELSE c.objects[k]]] :
   w \in {f \in [{<<top \o x[1], x[2]>> : x \in W} -> W] :
               \A k \in DOMAIN f : k = <<top \o f[k][1], f[k][2]>>}}

\* What a successful archive() makes of the content c.
Archived(s, c, top, refs) ==
  LET P == Reached(s, c, top) IN WithObjects(c, top, P, Written(s, P, refs))

\* What s gives and the content c lacks below top, or has with an older
\* content; the key of another one's reference may hold that.
Missing(s, c, top) ==
  {e \in Takes(s) :
     LET k == <<top \o e[1], e[2]>>
     IN  /\ k \in DOMAIN c.objects => c.objects[k] # s.objects[e]
         /\ \A r \in Referenced : r[1] = e[1] => Suffixed[r[2]] # e[2]}

\* archive() if refs is false, archiveWithReferences() if it is true.
Archive(s, top, refs) ==
  /\ \/ /\ state = "closed" /\ outcome' = "NOT_INITIALIZED"
        /\ UNCHANGED <<disk, last>>
     \/ /\ state = "zombie" /\ outcome' \in {"SUCCESS", "FAILURE"}
        /\ UNCHANGED <<disk, last>>
     \/ /\ state = "open" /\ Taken(disk[current], top) /\ outcome' = "FAILURE"
        /\ UNCHANGED <<disk, last>>
     \/ /\ state = "open" /\ ~Taken(disk[current], top) /\ outcome' = "SUCCESS"
        /\ \E c \in Archived(s, disk[current], top, refs) :
             /\ disk' = [disk EXCEPT ![current] = c]
             /\ last' = [clear   |-> \A p \in s.dirs : ~Taken(disk[current], top \o p),
                         missing |-> Missing(s, c, top)]
  /\ FoldFunction(LAMBDA c, n : Cardinality(DOMAIN c.objects) + Cardinality(c.dirs \ {<<>>}) + n,
                  0, disk') <= MaxEntries
  /\ UNCHANGED archive

ArchiverNext ==
  \/ \E b \in Bases, r \in RunNumbers, m \in Modes, o \in BOOLEAN : Open(b, r, m, o)
  \/ OpenRefused \/ OpenFile \/ Close
  \/ \E f \in FileNames : OtherCreates(f)
  \/ \E s \in Storages, t \in TopDirs, refs \in BOOLEAN : Archive(s, t, refs)

ArchiverSpec == ArchiverInit /\ [][ArchiverNext]_archiverVars
-----------------------------------------------------------------------------
(***************************************************************************)
(* What was archived stays in its file: an object is replaced by a later   *)
(* one of the same name, but none disappears, and no directory does, unless*)
(* the file is opened again with overwrite.  That also holds while other   *)
(* programs create files between the choice of a name and its opening      *)
(* (Archiver.cc:74-84 and :99; mkdir() and WriteObjectAny() add).          *)
(***************************************************************************)
ArchivesArePreserved ==
  [][\A f \in own :
       \/ OpenFile /\ overwrite /\ mode = "RECREATE" /\ f = current
       \/ /\ f \in DOMAIN disk'
          /\ disk[f].dirs \subseteq disk'[f].dirs
          /\ DOMAIN disk[f].objects \subseteq DOMAIN disk'[f].objects]_archiverVars

(***************************************************************************)
(* archive() returns SUCCESS with every selected element in the file, when *)
(* the file is there and holds none of the directories of the storage: it  *)
(* need not be empty, nor new.  Where one exists already, mkdir() gives    *)
(* null, and what is below it is left out (Archiver.cc:194-197).           *)
(***************************************************************************)
FirstArchiveIsComplete == last.clear => last.missing = {}
=============================================================================
