------------------------------- MODULE MkdirP -------------------------------
(***************************************************************************)
(* mkdir_p (src/Syscalls.cpp): the recursion goes up the path until        *)
(* isDirExist finds a directory and makes the missing ones on the way      *)
(* back.  Several processes do so at once in one chain of directories, in  *)
(* which a file may stand where a directory is wanted.                     *)
(*                                                                         *)
(* A path is the sequence of the levels of the chain that its components   *)
(* lead to: a name goes one level down, "." stays and ".." goes one up.    *)
(* Level 0 is the root or the current directory, where dirname() ends: it  *)
(* gives the root for the root.                                            *)
(***************************************************************************)
EXTENDS Integers, Sequences

CONSTANTS
  Maker,       \* processes that call mkdir_p
  Depth,       \* levels below the root
  MaxLen,      \* bound: components of a path
  MaxRoot      \* bound: calls for the root in a call for the root

ASSUME DirAssumption == Depth \in Nat /\ MaxLen \in Nat /\ MaxRoot \in Nat

VARIABLES
  kind,        \* kind[l]: what is at level l
  call         \* call[p]: the state of p's mkdir_p

dirVars == <<kind, call>>

\* The level that the first k components of the path lead to.
Lev(path, k) == IF k <= 0 THEN 0 ELSE path[k]

Path ==
  {s \in UNION {[1 .. n -> 0 .. Depth] : n \in 0 .. MaxLen} :
     \A k \in DOMAIN s : s[k] - Lev(s, k - 1) \in {-1, 0, 1}}

\* The path leads through level l.
On(l, path) == \E i \in DOMAIN path : path[i] = l

\* Component k is a name, not "." or "..".
Named(path, k) == k > 0 /\ Lev(path, k) = Lev(path, k - 1) + 1

\* The outermost call; at is the number of components of the innermost one's
\* path, less than 0 for the root's own parent.  History: raced says that
\* another process has made a directory of the path since the call began, failed
\* that a system call failed for a reason of its own.
Call_p(s) ==
  [st |-> "check", path |-> s, at |-> Len(s), raced |-> FALSE, failed |-> FALSE]

DirInit ==
  /\ kind \in {k \in [0 .. Depth -> {"none", "dir", "file"}] :
                 /\ k[0] = "dir"
                 /\ \A l \in 1 .. Depth : k[l] # "none" =>
                      \A j \in 0 .. l - 1 : k[j] = "dir"}
  /\ call = [p \in Maker |-> [Call_p(<<>>) EXCEPT !.st = "returned"]]

mkdir_p(p) ==
  /\ call[p].st \in {"returned", "threw"}
  /\ \E s \in Path : call' = [call EXCEPT ![p] = Call_p(s)]
  /\ UNCHANGED kind

\* Mutation of Exists: isFileExist in the place of isDirExist.
ExistsAny(path, k) ==
  /\ kind[Lev(path, k)] # "none"
  /\ \A i \in 0 .. k - 1 : kind[Lev(path, i)] = "dir"

\* isDirExist of the first k components: stat and S_ISDIR.
Exists(path, k) == \A i \in 0 .. k : kind[Lev(path, i)] = "dir"

\* It is there: the innermost call returns and the next one, if any, goes on with
\* its mkdir.
CheckFound(p) ==
  /\ call[p].st = "check"
  /\ Exists(call[p].path, call[p].at)
  /\ call' = [call EXCEPT
                ![p].st = IF call[p].at = Len(call[p].path) THEN "returned" ELSE "mkdir",
                ![p].at = @ + 1]
  /\ UNCHANGED kind

\* Not a directory, or stat fails and catch(...) makes it one that is not there:
\* the call for dirname_(path).
CheckMissing(p) ==
  /\ call[p].st = "check"
  /\ call[p].at > -MaxRoot
  /\ call' = [call EXCEPT
                ![p].at = @ - 1,
                ![p].failed = @ \/ Exists(call[p].path, call[p].at)]
  /\ UNCHANGED kind

\* mkdir() of the first k components can make a directory.
CanMake(path, k) == Named(path, k) /\ kind[Lev(path, k)] = "none" /\ Exists(path, k - 1)

\* mkdir(pathName), and the return to the caller that makes the next level.
Mkdir(p) ==
  LET k == call[p].at
      l == Lev(call[p].path, k) IN
  /\ call[p].st = "mkdir"
  /\ CanMake(call[p].path, k)
  /\ kind' = [kind EXCEPT ![l] = "dir"]
  /\ call' = [q \in Maker |->
                IF q # p THEN [call[q] EXCEPT !.raced = @ \/ On(l, call[q].path)]
                ELSE [call[p] EXCEPT
                        !.st = IF k = Len(call[p].path) THEN "returned" ELSE "mkdir",
                        !.at = k + 1]]

\* mkdir() fails, with EEXIST also for a directory, and always for "." and "..":
\* every call of the recursion throws.
MkdirFails(p) ==
  /\ call[p].st = "mkdir"
  /\ call' = [call EXCEPT
                ![p].st = "threw",
                ![p].failed = @ \/ CanMake(call[p].path, call[p].at)]
  /\ UNCHANGED kind

DirNext ==
  \E p \in Maker :
    mkdir_p(p) \/ CheckFound(p) \/ CheckMissing(p) \/ Mkdir(p) \/ MkdirFails(p)

DirSpec == DirInit /\ [][DirNext]_dirVars

-----------------------------------------------------------------------------
(* Properties *)

\* After a normal return of mkdir_p the directory and all above it exist.  An
\* exception means that a system call failed for a reason of its own, that a file
\* is in the way, that the missing part of the path has a "." or "..", or that
\* another process made a directory of the path during the call.
MkdirOutcome ==
  \A p \in Maker :
    LET path == call[p].path
        k    == call[p].at IN
    /\ call[p].st = "returned" => \A i \in 0 .. Len(path) : kind[Lev(path, i)] = "dir"
    /\ call[p].st = "threw" /\ ~call[p].failed =>
         \/ kind[Lev(path, k)] = "file"
         \/ ~Named(path, k)
         \/ call[p].raced

\* "aka mkdir -p" (src/Syscalls.h): mkdir_p throws only when a system call fails
\* for a reason of its own or a file is in the way.
MkdirLikeP ==
  \A p \in Maker :
    LET path == call[p].path IN
    call[p].st = "threw" /\ ~call[p].failed =>
      \E i \in DOMAIN path : kind[path[i]] = "file"
=============================================================================
