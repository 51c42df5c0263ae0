--------------------------- MODULE WorkspaceProofs ---------------------------
(***************************************************************************)
(* What a run of ansible-playbook sees, for any repositories, jobs and     *)
(* interruptions, where no two repositories share a working copy.          *)
(***************************************************************************)
EXTENDS Workspace, TLAPS, WellFoundedInduction

\* Repositories whose URLs have different base names.
OwnDirectories == \A r, q \in Repos : WorkDir[r] = WorkDir[q] => r = q

-----------------------------------------------------------------------------
(* Paths of references.                                                    *)

LEMMA SameSeq ==
    ASSUME NEW S, NEW s \in Seq(S), NEW t \in Seq(S), Len(s) = Len(t),
           \A i \in 1..Len(s) : s[i] = t[i]
    PROVE  s = t
OBVIOUS

LEMMA Path2 ==
    ASSUME NEW k, NEW n
    PROVE  <<k>> \o <<n>> = <<k, n>>
<1> DEFINE S == {k, n}
           s == <<k>> \o <<n>>
           t == <<k, n>>
<1>1. <<k>> \in Seq(S) /\ <<n>> \in Seq(S)
  OBVIOUS
<1>2. s \in Seq(S) /\ Len(s) = 2 /\ s[1] = k /\ s[2] = n
  BY <1>1
<1>3. t \in Seq(S) /\ Len(t) = 2 /\ t[1] = k /\ t[2] = n
  OBVIOUS
<1> HIDE DEF s, t
<1>4. s = t
  BY <1>2, <1>3, SameSeq
<1> QED
  BY <1>4 DEF s, t

LEMMA Path3 ==
    ASSUME NEW k, NEW m, NEW n
    PROVE  <<k>> \o <<m, n>> = <<k, m, n>>
<1> DEFINE S == {k, m, n}
           s == <<k>> \o <<m, n>>
           t == <<k, m, n>>
<1>1. <<k>> \in Seq(S) /\ <<m, n>> \in Seq(S)
  OBVIOUS
<1>2. s \in Seq(S) /\ Len(s) = 3 /\ s[1] = k /\ s[2] = m /\ s[3] = n
  BY <1>1
<1>3. t \in Seq(S) /\ Len(t) = 3 /\ t[1] = k /\ t[2] = m /\ t[3] = n
  OBVIOUS
<1> HIDE DEF s, t
<1>4. s = t
  BY <1>2, <1>3, SameSeq
<1> QED
  BY <1>4 DEF s, t

Tag(n)    == <<"tags", n>>
Remote(n) == <<"remotes", "origin", n>>

LEMMA Paths ==
    ASSUME NEW n, NEW m
    PROVE  /\ Tag(n) # Heads(m) /\ Tag(n) # Remote(m) /\ Heads(n) # Remote(m)
           /\ Tag(n) = Tag(m) => n = m
           /\ Heads(n) = Heads(m) => n = m
           /\ Remote(n) = Remote(m) => n = m
           /\ IsTag(Tag(n)) /\ ~IsTag(Heads(n)) /\ ~IsTag(Remote(n))
           /\ Tracking(Tag(n)) = Tag(n) /\ Tracking(Heads(n)) = Remote(n)
           /\ Remote(n)[3] = n
BY DEF Tag, Heads, Remote, IsTag, Tracking

\* A remote and a copy hold these references only.
RemoteRef(ref) == ref \in {Tag(ref[2]), Heads(ref[2])}
CopyRef(ref)   == ref = Heads(DefaultBranch) \/ ref = Tag(ref[2]) \/ ref = Remote(ref[3])

LEMMA LeastHit ==
    ASSUME NEW H, H \subseteq 1..3
    PROVE  {h \in H : \A k \in H : h <= k} =
              IF 1 \in H THEN {1} ELSE IF 2 \in H THEN {2} ELSE IF 3 \in H THEN {3} ELSE {}
<1> DEFINE L == {h \in H : \A k \in H : h <= k}
<1>1. \A h \in L : h \in H /\ h \in 1..3 /\ \A k \in H : h <= k
  OBVIOUS
<1>2. /\ 1 \in H => 1 \in L
      /\ 1 \notin H /\ 2 \in H => 2 \in L
      /\ 1 \notin H /\ 2 \notin H /\ 3 \in H => 3 \in L
  OBVIOUS
<1> HIDE DEF L
<1>3. /\ 1 \in H => L = {1}
      /\ 1 \notin H /\ 2 \in H => L = {2}
      /\ 1 \notin H /\ 2 \notin H /\ 3 \in H => L = {3}
      /\ 1 \notin H /\ 2 \notin H /\ 3 \notin H => L = {}
  BY <1>1, <1>2
<1> QED
  BY <1>3 DEF L

\* What ResolveRevision makes of a name, and of a name at origin.
LEMMA ResolvedName ==
    ASSUME NEW refs, \A ref \in DOMAIN refs : CopyRef(ref), NEW n
    PROVE  Resolved(refs, <<n>>) =
              IF Tag(n) \in DOMAIN refs THEN {refs[Tag(n)]}
              ELSE IF Heads(n) \in DOMAIN refs THEN {refs[Heads(n)]} ELSE {}
<1> DEFINE R == Rules(<<n>>)
           hits == {i \in 1..3 : R[i] \in DOMAIN refs}
<1>1. R = <<Tag(n), Heads(n), <<"remotes", n>>>>
  BY Path2, Zenon DEF Rules, Tag, Heads
<1>2. R[1] = Tag(n) /\ R[2] = Heads(n) /\ R[3] = <<"remotes", n>>
  BY <1>1
<1> HIDE DEF R
<1>3. <<"remotes", n>> \notin DOMAIN refs
  BY DEF CopyRef, Tag, Remote, Heads
<1>4. /\ 3 \notin hits
      /\ 1 \in hits <=> Tag(n) \in DOMAIN refs
      /\ 2 \in hits <=> Heads(n) \in DOMAIN refs
      /\ hits \subseteq 1..3
  BY <1>2, <1>3
<1>5. Resolved(refs, <<n>>) = {refs[R[i]] : i \in {h \in hits : \A k \in hits : h <= k}}
  BY DEF Resolved, R
<1> HIDE DEF hits
<1>6. {h \in hits : \A k \in hits : h <= k}
         = IF Tag(n) \in DOMAIN refs THEN {1} ELSE IF Heads(n) \in DOMAIN refs THEN {2} ELSE {}
  BY <1>4, LeastHit
<1> QED
  BY <1>2, <1>5, <1>6

LEMMA ResolvedAtOrigin ==
    ASSUME NEW refs, \A ref \in DOMAIN refs : CopyRef(ref), NEW n
    PROVE  Resolved(refs, <<"origin", n>>) =
              IF Remote(n) \in DOMAIN refs THEN {refs[Remote(n)]} ELSE {}
<1> DEFINE R == Rules(<<"origin", n>>)
           hits == {i \in 1..3 : R[i] \in DOMAIN refs}
<1>1. R = <<<<"tags", "origin", n>>, <<"heads", "origin", n>>, Remote(n)>>
  BY Path3, Zenon DEF Rules, Remote
<1>2. R[1] = <<"tags", "origin", n>> /\ R[2] = <<"heads", "origin", n>> /\ R[3] = Remote(n)
  BY <1>1
<1> HIDE DEF R
<1>3. <<"tags", "origin", n>> \notin DOMAIN refs /\ <<"heads", "origin", n>> \notin DOMAIN refs
  BY DEF CopyRef, Tag, Remote, Heads
<1>4. 1 \notin hits /\ 2 \notin hits /\ (3 \in hits <=> Remote(n) \in DOMAIN refs) /\ hits \subseteq 1..3
  BY <1>2, <1>3
<1>5. Resolved(refs, <<"origin", n>>) = {refs[R[i]] : i \in {h \in hits : \A k \in hits : h <= k}}
  BY DEF Resolved, R
<1> HIDE DEF hits
<1>6. {h \in hits : \A k \in hits : h <= k} = IF Remote(n) \in DOMAIN refs THEN {3} ELSE {}
  BY <1>4, LeastHit
<1> QED
  BY <1>2, <1>5, <1>6

-----------------------------------------------------------------------------
(* What the references of a copy have to do with those of its remote.      *)

\* Where a reference of a copy comes from.
Source(ref) == IF IsTag(ref) \/ ref = Heads(DefaultBranch) THEN ref ELSE Heads(ref[3])

RemoteOK(rem) ==
    /\ Heads(DefaultBranch) \in DOMAIN rem
    /\ \A ref \in DOMAIN rem : RemoteRef(ref) /\ rem[ref] \in 1..MaxCommits

\* Every reference of the copy is what the remote has, or had.
Behind(refs, rem) ==
    \A ref \in DOMAIN refs :
        /\ CopyRef(ref)
        /\ Source(ref) \in DOMAIN rem
        /\ refs[ref] \in Nat
        /\ refs[ref] <= rem[Source(ref)]

\* The copy has what the remote has, and has it as it is now.
Complete(refs, rem) == \A ref \in DOMAIN rem : Tracking(ref) \in DOMAIN refs

Fresh(refs, rem) ==
    \A ref \in DOMAIN refs : ref # Heads(DefaultBranch) => refs[ref] = rem[Source(ref)]

\* No reference is lost or goes back.
Grown(refs, next) ==
    /\ DOMAIN refs \subseteq DOMAIN next
    /\ \A ref \in DOMAIN refs : next[ref] >= refs[ref]

Fields == {"stage", "url", "refs", "head", "at", "tree"}

GoodCopy(c, r, rem) ==
    /\ Fields \subseteq DOMAIN c
    /\ c.stage = "repo" => c.url = r
    /\ Behind(c.refs, rem)

\* The version of the job is a tag or a remote branch.
Pinned(job) == job.version \notin {<<>>, <<DefaultBranch>>}

-----------------------------------------------------------------------------
(* The invariant.                                                          *)

WellFormed ==
    /\ DOMAIN remote = Repos /\ \A r \in Repos : RemoteOK(remote[r])
    /\ DOMAIN copy = Dirs
    /\ DOMAIN varsFile = Dirs
    /\ wanted \in Jobs

CopiesGood == \A r \in Repos : GoodCopy(copy[WorkDir[r]], r, remote[r])

\* A repository that has been fetched since the clone of it was complete.
Whole(r) ==
    /\ copy[WorkDir[r]].stage = "repo"
    /\ Complete(copy[WorkDir[r]].refs, remote[r])

Candidates(job) == Resolved(copy[WorkDir[job.repo]].refs, job.version)

InStep ==
    /\ step # "idle" => NamedBy(wanted, remote) \subseteq named
    /\ step \in {"repo", "checkout"} => wanted.repo \in Repos
    /\ step = "checkout" =>
          Whole(wanted.repo) /\ (Pinned(wanted) => Candidates(wanted) \subseteq named)
    /\ step = "vars" /\ wanted.version # <<>> =>
          /\ Whole(wanted.repo) /\ copy[dir].tree \in Candidates(wanted)
          /\ Pinned(wanted) => copy[dir].tree \in named

InRun ==
    /\ step # "running" => run = NoJob
    /\ step = "running" =>
          /\ run.job = wanted
          /\ Pinned(wanted) => run.commit \in named
          /\ run.wrote => run.vars = wanted.vars

Versions == {<<j.repo, j.version>> : j \in Jobs}

\* No version resolves to an older commit than a run of it has seen.
NoneOlder ==
    /\ DOMAIN latest = Versions
    /\ \A j \in Jobs :
          LET seen == latest[<<j.repo, j.version>>] IN
          j.version # <<>> =>
             seen = 0 \/ (Whole(j.repo) /\ \E n \in Candidates(j) : seen <= n /\ seen \in Nat)

WorkspaceInv == WellFormed /\ CopiesGood /\ InStep /\ InRun /\ NoneOlder

-----------------------------------------------------------------------------
(* References.                                                             *)

LEMMA RemoteKinds ==
    ASSUME NEW ref, RemoteRef(ref)
    PROVE  \E n : \/ ref = Tag(n) /\ Tracking(ref) = Tag(n)
                  \/ ref = Heads(n) /\ Tracking(ref) = Remote(n)
<1>1. PICK n : ref = Tag(n) \/ ref = Heads(n)
  BY DEF RemoteRef
<1>2. Tracking(Tag(n)) = Tag(n) /\ Tracking(Heads(n)) = Remote(n)
  BY Paths
<1> QED
  BY <1>1, <1>2

LEMMA KindsAre ==
    ASSUME NEW n
    PROVE  /\ CopyRef(Tag(n)) /\ Source(Tag(n)) = Tag(n)
           /\ CopyRef(Remote(n)) /\ Source(Remote(n)) = Heads(n)
           /\ CopyRef(Heads(DefaultBranch)) /\ Source(Heads(DefaultBranch)) = Heads(DefaultBranch)
<1>1. Tag(n)[2] = n /\ Remote(n)[3] = n
  BY DEF Tag, Remote
<1> QED
  BY <1>1, Paths, Zenon DEF CopyRef, Source

LEMMA CopyKinds ==
    ASSUME NEW ref, CopyRef(ref)
    PROVE  \/ \E n : ref = Tag(n) /\ Source(ref) = Tag(n)
           \/ \E n : ref = Remote(n) /\ Source(ref) = Heads(n)
           \/ ref = Heads(DefaultBranch) /\ Source(ref) = ref
<1>1. (\E n : ref = Tag(n)) \/ (\E n : ref = Remote(n)) \/ ref = Heads(DefaultBranch)
  BY DEF CopyRef
<1> QED
  BY <1>1, KindsAre

LEMMA OverIs ==
    ASSUME NEW f, NEW g
    PROVE  /\ DOMAIN Over(f, g) = DOMAIN f \cup DOMAIN g
           /\ \A ref \in DOMAIN f : Over(f, g)[ref] = f[ref]
           /\ \A ref \in DOMAIN g : ref \notin DOMAIN f => Over(f, g)[ref] = g[ref]
BY DEF Over

\* What a fetch stores.
LEMMA FromRemoteIs ==
    ASSUME NEW rem, RemoteOK(rem)
    PROVE  /\ \A ref \in DOMAIN rem : Tracking(ref) \in DOMAIN FromRemote(rem)
           /\ \A t \in DOMAIN FromRemote(rem) :
                 /\ CopyRef(t) /\ t # Heads(DefaultBranch)
                 /\ Source(t) \in DOMAIN rem /\ Tracking(Source(t)) = t
                 /\ FromRemote(rem)[t] = rem[Source(t)]
<1> DEFINE From == FromRemote(rem)
<1>1. /\ DOMAIN From = {Tracking(ref) : ref \in DOMAIN rem}
      /\ \A t \in DOMAIN From : From[t] = rem[IF IsTag(t) THEN t ELSE Heads(t[3])]
  BY DEF FromRemote
<1> HIDE DEF From
<1>2. ASSUME NEW t \in DOMAIN From
      PROVE  /\ CopyRef(t) /\ t # Heads(DefaultBranch)
             /\ Source(t) \in DOMAIN rem /\ Tracking(Source(t)) = t /\ From[t] = rem[Source(t)]
  <2>1. PICK ref \in DOMAIN rem : t = Tracking(ref)
    BY <1>1
  <2>2. RemoteRef(ref)
    BY DEF RemoteOK
  <2>3. PICK n : \/ ref = Tag(n) /\ Tracking(ref) = Tag(n)
                 \/ ref = Heads(n) /\ Tracking(ref) = Remote(n)
    BY <2>2, RemoteKinds
  <2>4. From[t] = rem[IF IsTag(t) THEN t ELSE Heads(t[3])]
    BY <1>1
  <2>5. CASE t = Tag(n) /\ ref = Tag(n)
    BY <2>4, <2>5, KindsAre, Paths, Zenon
  <2>6. CASE t = Remote(n) /\ ref = Heads(n)
    BY <2>4, <2>6, KindsAre, Paths, Zenon
  <2> QED
    BY <2>1, <2>3, <2>5, <2>6
<1> QED
  BY <1>1, <1>2 DEF From

LEMMA FetchedIs ==
    ASSUME NEW rem, RemoteOK(rem), NEW refs, Behind(refs, rem)
    PROVE  LET next == Fetched(refs, rem) IN
           Behind(next, rem) /\ Complete(next, rem) /\ Fresh(next, rem) /\ Grown(refs, next)
<1> DEFINE From == FromRemote(rem)
           next == Fetched(refs, rem)
<1>1. /\ \A ref \in DOMAIN rem : Tracking(ref) \in DOMAIN From
      /\ \A t \in DOMAIN From : /\ CopyRef(t) /\ t # Heads(DefaultBranch)
                                /\ Source(t) \in DOMAIN rem /\ Tracking(Source(t)) = t
                                /\ From[t] = rem[Source(t)]
  BY FromRemoteIs
<1>2. /\ DOMAIN next = DOMAIN From \cup DOMAIN refs
      /\ \A t \in DOMAIN From : next[t] = From[t]
      /\ \A t \in DOMAIN refs : t \notin DOMAIN From => next[t] = refs[t]
  BY OverIs DEF Fetched
<1> HIDE DEF From, next
<1>3. \A ref \in DOMAIN rem : rem[ref] \in Nat
  BY WorkspaceAssumption DEF RemoteOK
<1>4. ASSUME NEW t \in DOMAIN refs, t # Heads(DefaultBranch)
      PROVE  t \in DOMAIN From
  <2>1. CopyRef(t) /\ Source(t) \in DOMAIN rem
    BY DEF Behind
  <2>2. Tracking(Source(t)) = t
    BY <1>4, <2>1, CopyKinds, Paths, Zenon
  <2> QED
    BY <1>1, <2>1, <2>2
<1>5. Behind(next, rem)
  <2> SUFFICES ASSUME NEW t \in DOMAIN next
               PROVE  /\ CopyRef(t) /\ Source(t) \in DOMAIN rem
                      /\ next[t] \in Nat /\ next[t] <= rem[Source(t)]
    BY DEF Behind
  <2>1. CASE t \in DOMAIN From
    BY <1>1, <1>2, <1>3, <2>1
  <2>2. CASE t \notin DOMAIN From
    BY <1>2, <2>2 DEF Behind
  <2> QED
    BY <2>1, <2>2
<1>6. Complete(next, rem)
  BY <1>1, <1>2 DEF Complete
<1>7. Fresh(next, rem)
  BY <1>1, <1>2, <1>4 DEF Fresh
<1>8. Grown(refs, next)
  <2> SUFFICES ASSUME NEW t \in DOMAIN refs
               PROVE  next[t] >= refs[t]
    BY <1>2 DEF Grown
  <2>1. refs[t] \in Nat /\ Source(t) \in DOMAIN rem /\ refs[t] <= rem[Source(t)]
    BY DEF Behind
  <2>2. CASE t \in DOMAIN From
    BY <1>1, <1>2, <1>3, <2>1, <2>2
  <2>3. CASE t \notin DOMAIN From
    BY <1>2, <2>1, <2>3
  <2> QED
    BY <2>2, <2>3
<1> QED
  BY <1>5, <1>6, <1>7, <1>8 DEF next

\* The local branch moves to the tip of its remote.
LEMMA AtDefaultIs ==
    ASSUME NEW rem, RemoteOK(rem), NEW refs, Behind(refs, rem)
    PROVE  LET next == AtDefault(rem[Heads(DefaultBranch)], refs) IN
           /\ Behind(next, rem) /\ Grown(refs, next)
           /\ Complete(refs, rem) => Complete(next, rem)
           /\ Fresh(refs, rem) => Fresh(next, rem)
<1> DEFINE main == Heads(DefaultBranch)
           tip  == rem[main]
           At   == [ref \in {main} |-> tip]
           next == AtDefault(tip, refs)
<1>1. DOMAIN At = {main} /\ At[main] = tip
  OBVIOUS
<1>2. /\ DOMAIN next = {main} \cup DOMAIN refs
      /\ next[main] = tip
      /\ \A t \in DOMAIN refs : t # main => next[t] = refs[t]
  <2> HIDE DEF At
  <2>1. next = Over(At, refs)
    BY DEF AtDefault, At
  <2>2. /\ DOMAIN Over(At, refs) = DOMAIN At \cup DOMAIN refs
        /\ \A t \in DOMAIN At : Over(At, refs)[t] = At[t]
        /\ \A t \in DOMAIN refs : t \notin DOMAIN At => Over(At, refs)[t] = refs[t]
    BY OverIs
  <2> HIDE DEF next, main, tip
  <2> QED
    BY <1>1, <2>1, <2>2
<1>3. main \in DOMAIN rem /\ tip \in Nat
  BY WorkspaceAssumption DEF RemoteOK
<1>4. CopyRef(main) /\ Source(main) = main
  BY KindsAre
<1> HIDE DEF At, next, main, tip
<1>5. tip = rem[main]
  BY DEF tip
<1>6. Behind(next, rem)
  BY <1>2, <1>3, <1>4, <1>5 DEF Behind
<1>7. Grown(refs, next)
  <2> SUFFICES ASSUME NEW t \in DOMAIN refs
               PROVE  next[t] >= refs[t]
    BY <1>2 DEF Grown
  <2>1. refs[t] \in Nat /\ refs[t] <= rem[Source(t)]
    BY DEF Behind
  <2> QED
    BY <1>2, <1>3, <1>4, <1>5, <2>1
<1>8. Complete(refs, rem) => Complete(next, rem)
  BY <1>2 DEF Complete
<1>9. Fresh(refs, rem) => Fresh(next, rem)
  BY <1>2 DEF Fresh, main
<1> QED
  BY <1>6, <1>7, <1>8, <1>9 DEF next, tip, main

-----------------------------------------------------------------------------
(* Versions.                                                               *)

LEMMA JobVersions ==
    ASSUME NEW job \in Jobs
    PROVE  \/ job.repo \in Repos \cup {NoRepo} /\ job.version = <<>>
           \/ job.repo \in Repos /\ \E n : /\ n = Last(job.version)
                                           /\ job.version \in {<<n>>, <<"origin", n>>}
BY WorkspaceAssumption, Zenon

\* A version names one commit, or none.
LEMMA OneResolved ==
    ASSUME NEW refs, NEW rem, Behind(refs, rem), NEW job \in Jobs, job.version # <<>>,
           NEW n \in Resolved(refs, job.version)
    PROVE  n \in Nat /\ Resolved(refs, job.version) = {n}
<1>1. \A ref \in DOMAIN refs : CopyRef(ref) /\ refs[ref] \in Nat
  BY DEF Behind
<1>2. PICK m : job.version \in {<<m>>, <<"origin", m>>}
  BY JobVersions
<1>3. CASE job.version = <<m>>
  <2>1. n \in IF Tag(m) \in DOMAIN refs THEN {refs[Tag(m)]}
              ELSE IF Heads(m) \in DOMAIN refs THEN {refs[Heads(m)]} ELSE {}
    BY <1>1, <1>3, ResolvedName
  <2> QED
    BY <1>1, <1>3, <2>1, ResolvedName
<1>4. CASE job.version = <<"origin", m>>
  <2>1. n \in IF Remote(m) \in DOMAIN refs THEN {refs[Remote(m)]} ELSE {}
    BY <1>1, <1>4, ResolvedAtOrigin
  <2> QED
    BY <1>1, <1>4, <2>1, ResolvedAtOrigin
<1> QED
  BY <1>2, <1>3, <1>4

\* In a copy that was just fetched a tag or a remote branch is what its name is
\* at the remote.
LEMMA FreshlyNamed ==
    ASSUME NEW job \in Jobs, Pinned(job), NEW rems, NEW refs,
           Behind(refs, rems[job.repo]), Fresh(refs, rems[job.repo])
    PROVE  Resolved(refs, job.version) \subseteq NamedBy(job, rems)
<1> DEFINE rem == rems[job.repo]
<1>1. job.version \notin {<<>>, <<DefaultBranch>>}
  BY DEF Pinned
<1>2. PICK m : /\ job.repo \in Repos /\ m = Last(job.version)
               /\ job.version \in {<<m>>, <<"origin", m>>}
  BY <1>1, JobVersions
<1>3. NamedBy(job, rems) = {rem[ref] : ref \in {Tag(m), Heads(m)} \cap DOMAIN rem}
  BY <1>1, <1>2, WorkspaceAssumption, Zenon DEF NamedBy, Tag
<1>4. \A ref \in DOMAIN refs :
        /\ CopyRef(ref) /\ Source(ref) \in DOMAIN rem
        /\ ref # Heads(DefaultBranch) => refs[ref] = rem[Source(ref)]
  BY DEF Behind, Fresh
<1> HIDE DEF rem
<1>5. CASE job.version = <<m>>
  <2>1. m # DefaultBranch
    BY <1>1, <1>5
  <2>2. Heads(m) \notin DOMAIN refs
    <3>1. Heads(m) # Heads(DefaultBranch)
      BY <2>1, Paths
    <3> QED
      BY <1>4, <3>1, CopyKinds, Paths, Zenon
  <2>3. Tag(m) \in DOMAIN refs => Tag(m) \in DOMAIN rem /\ refs[Tag(m)] = rem[Tag(m)]
    BY <1>4, KindsAre, Paths, Zenon
  <2> QED
    BY <1>3, <1>4, <1>5, <2>2, <2>3, ResolvedName
<1>6. CASE job.version = <<"origin", m>>
  <2>1. Remote(m) \in DOMAIN refs => Heads(m) \in DOMAIN rem /\ refs[Remote(m)] = rem[Heads(m)]
    BY <1>4, KindsAre, Paths, Zenon
  <2> QED
    BY <1>3, <1>4, <1>6, <2>1, ResolvedAtOrigin
<1> QED
  BY <1>2, <1>5, <1>6

\* What a version names does not go back where a complete copy grows.
LEMMA ResolvedGrows ==
    ASSUME NEW job \in Jobs, job.version # <<>>, NEW rem, NEW refs, NEW next,
           Behind(refs, rem), Behind(next, rem), Complete(refs, rem), Grown(refs, next),
           NEW k \in Nat, NEW n \in Resolved(refs, job.version), k <= n
    PROVE  \E m \in Resolved(next, job.version) : k <= m
<1>1. /\ \A ref \in DOMAIN refs : CopyRef(ref) /\ refs[ref] \in Nat
      /\ \A ref \in DOMAIN next : CopyRef(ref) /\ next[ref] \in Nat
  BY DEF Behind
<1>2. DOMAIN refs \subseteq DOMAIN next /\ \A ref \in DOMAIN refs : refs[ref] <= next[ref]
  BY <1>1 DEF Grown
<1>3. PICK m : job.version \in {<<m>>, <<"origin", m>>}
  BY JobVersions
<1>4. Tag(m) \in DOMAIN next => Tag(m) \in DOMAIN refs
  <2>1. Source(Tag(m)) = Tag(m) /\ Tracking(Tag(m)) = Tag(m)
    BY KindsAre, Paths
  <2> QED
    BY <2>1 DEF Behind, Complete
<1>5. CASE job.version = <<m>>
  <2>1. n \in IF Tag(m) \in DOMAIN refs THEN {refs[Tag(m)]}
              ELSE IF Heads(m) \in DOMAIN refs THEN {refs[Heads(m)]} ELSE {}
    BY <1>1, <1>5, ResolvedName
  <2>2. Resolved(next, job.version) =
           IF Tag(m) \in DOMAIN next THEN {next[Tag(m)]}
           ELSE IF Heads(m) \in DOMAIN next THEN {next[Heads(m)]} ELSE {}
    BY <1>1, <1>5, ResolvedName
  <2>3. CASE Tag(m) \in DOMAIN refs
    <3>1. Resolved(next, job.version) = {next[Tag(m)]} /\ n = refs[Tag(m)]
      BY <1>2, <2>1, <2>2, <2>3
    <3> QED
      BY <1>1, <1>2, <2>3, <3>1
  <2>4. CASE Tag(m) \notin DOMAIN refs
    <3>1. Heads(m) \in DOMAIN refs /\ n = refs[Heads(m)]
      BY <2>1, <2>4
    <3>2. Resolved(next, job.version) = {next[Heads(m)]}
      BY <1>2, <1>4, <2>2, <2>4, <3>1
    <3> QED
      BY <1>1, <1>2, <3>1, <3>2
  <2> QED
    BY <2>3, <2>4
<1>6. CASE job.version = <<"origin", m>>
  <2>1. n \in IF Remote(m) \in DOMAIN refs THEN {refs[Remote(m)]} ELSE {}
    BY <1>1, <1>6, ResolvedAtOrigin
  <2>2. Remote(m) \in DOMAIN refs /\ n = refs[Remote(m)]
    BY <2>1
  <2>3. Resolved(next, job.version) = {next[Remote(m)]}
    BY <1>1, <1>2, <1>6, <2>2, ResolvedAtOrigin
  <2> QED
    BY <1>1, <1>2, <2>2, <2>3
<1> QED
  BY <1>3, <1>5, <1>6

-----------------------------------------------------------------------------
(* Working copies.                                                         *)

\* The copy d has the fields that matter here.
Is(d, stage, url, refs) ==
    Fields \subseteq DOMAIN d /\ d.stage = stage /\ d.url = url /\ d.refs = refs

LEMMA Edited ==
    ASSUME NEW c, Fields \subseteq DOMAIN c, NEW x, NEW y
    PROVE  /\ Is([c EXCEPT !.refs = x], c.stage, c.url, x)
           /\ Is([c EXCEPT !.stage = x], x, c.url, c.refs)
           /\ Is([c EXCEPT !.tree = x], c.stage, c.url, c.refs)
           /\ Is([c EXCEPT !.at = x, !.refs = y], c.stage, c.url, y)
           /\ Is([c EXCEPT !.at = x, !.tree = y], c.stage, c.url, c.refs)
           /\ Is([c EXCEPT !.stage = x, !.url = y], x, y, c.refs)
<1>1. /\ "stage" \in DOMAIN c /\ "url" \in DOMAIN c /\ "refs" \in DOMAIN c
      /\ "at" \in DOMAIN c /\ "tree" \in DOMAIN c
  BY DEF Fields
<1>2. Is([c EXCEPT !.refs = x], c.stage, c.url, x)
  BY <1>1, Zenon DEF Is
<1>3. Is([c EXCEPT !.stage = x], x, c.url, c.refs)
  BY <1>1, Zenon DEF Is
<1>4. Is([c EXCEPT !.tree = x], c.stage, c.url, c.refs)
  BY <1>1, Zenon DEF Is
<1>5. Is([c EXCEPT !.at = x, !.refs = y], c.stage, c.url, y)
  BY <1>1, Zenon DEF Is
<1>6. Is([c EXCEPT !.at = x, !.tree = y], c.stage, c.url, c.refs)
  BY <1>1, Zenon DEF Is
<1>7. Is([c EXCEPT !.stage = x, !.url = y], x, y, c.refs)
  BY <1>1, Zenon DEF Is
<1> QED
  BY <1>2, <1>3, <1>4, <1>5, <1>6, <1>7

LEMMA CheckedOutIs ==
    ASSUME NEW c, Fields \subseteq DOMAIN c, NEW n
    PROVE  Is(CheckedOut(c, n), c.stage, c.url, c.refs) /\ CheckedOut(c, n).tree = n
<1>1. /\ "stage" \in DOMAIN c /\ "url" \in DOMAIN c /\ "refs" \in DOMAIN c
      /\ "head" \in DOMAIN c /\ "at" \in DOMAIN c /\ "tree" \in DOMAIN c
  BY DEF Fields
<1> QED
  BY <1>1, Zenon DEF Is, CheckedOut

\* What any step makes of the working copy of a repository.
Moves(c, d, r, rem) ==
    /\ GoodCopy(d, r, rem)
    /\ c.stage = "repo" => d.stage = "repo" /\ Grown(c.refs, d.refs)

LEMMA GrownItself ==
    ASSUME NEW refs, NEW rem, Behind(refs, rem)
    PROVE  Grown(refs, refs)
BY DEF Behind, Grown


LEMMA EmptyBehind ==
    ASSUME NEW rem
    PROVE  Behind(<<>>, rem)
BY DEF Behind

LEMMA ClonedIs ==
    ASSUME NEW url, RemoteOK(remote[url])
    PROVE  LET c == Cloned(url) IN
           /\ Is(c, "repo", url, c.refs)
           /\ Behind(c.refs, remote[url]) /\ Complete(c.refs, remote[url])
           /\ Fresh(c.refs, remote[url])
<1> DEFINE rem == remote[url]
           tip == rem[Heads(DefaultBranch)]
           F   == Fetched(<<>>, rem)
           c   == Cloned(url)
<1>1. Behind(F, rem) /\ Complete(F, rem) /\ Fresh(F, rem)
  BY EmptyBehind, FetchedIs
<1>2. c = Copy("repo", url, AtDefault(tip, F), "branch", tip, tip)
  BY DEF Cloned
<1> HIDE DEF F, tip, c
<1>3. Is(c, "repo", url, c.refs) /\ c.refs = AtDefault(tip, F)
  BY <1>2 DEF Copy, Is, Fields
<1>4. Behind(c.refs, rem) /\ Complete(c.refs, rem) /\ Fresh(c.refs, rem)
  BY <1>1, <1>3, AtDefaultIs DEF tip
<1> QED
  BY <1>3, <1>4 DEF c

-----------------------------------------------------------------------------
(* The steps of an execution.                                              *)

LEMMA InDirs ==
    ASSUME NEW r \in Repos
    PROVE  WorkDir[r] \in Dirs
BY DEF Dirs

\* Where a step leaves the remotes and the copies as they are.
LEMMA SameCopies ==
    ASSUME CopiesGood, NoneOlder, UNCHANGED <<remote, latest>>,
           \A r \in Repos : copy'[WorkDir[r]] = copy[WorkDir[r]]
    PROVE  CopiesGood' /\ NoneOlder'
<1>1. CopiesGood'
  BY DEF CopiesGood
<1>2. ASSUME NEW j \in Jobs, j.version # <<>>
      PROVE  /\ (Whole(j.repo))' <=> Whole(j.repo)
             /\ (Candidates(j))' = Candidates(j)
  BY <1>2, JobVersions DEF Whole, Candidates
<1>3. NoneOlder'
  BY <1>2 DEF NoneOlder
<1> QED
  BY <1>1, <1>3

\* Where it moves the copy of the job's repository.
LEMMA CopyMoves ==
    ASSUME OwnDirectories, WellFormed, CopiesGood, NoneOlder, UNCHANGED <<remote, latest>>,
           wanted.repo \in Repos, NEW d, SetCopy(d),
           Moves(copy[dir], d, wanted.repo, remote[wanted.repo])
    PROVE  /\ DOMAIN copy' = Dirs /\ copy'[WorkDir[wanted.repo]] = d
           /\ CopiesGood' /\ NoneOlder'
           /\ Whole(wanted.repo) => (/\ d.stage = "repo"
                                     /\ Complete(d.refs, remote[wanted.repo]))
<1> DEFINE mine == wanted.repo
           rem  == remote[mine]
           c    == copy[WorkDir[mine]]
<1>1. /\ DOMAIN copy' = Dirs /\ copy'[WorkDir[mine]] = d
      /\ \A r \in Repos : r # mine => copy'[WorkDir[r]] = copy[WorkDir[r]]
  BY InDirs DEF OwnDirectories, WellFormed, SetCopy, dir
<1>2. Moves(c, d, mine, rem)
  BY DEF dir
<1>3. RemoteOK(rem) /\ GoodCopy(c, mine, rem)
  BY DEF WellFormed, CopiesGood
<1> HIDE DEF mine, rem, c
<1>4. CopiesGood'
  BY <1>1, <1>2 DEF CopiesGood, Moves, rem
<1>5. c.stage = "repo" /\ Complete(c.refs, rem) => d.stage = "repo" /\ Complete(d.refs, rem)
  BY <1>2 DEF Moves, Complete, Grown
<1>6. ASSUME NEW j \in Jobs, j.version # <<>>, Whole(j.repo),
             NEW k \in Nat, NEW n \in Candidates(j), k <= n
      PROVE  (Whole(j.repo))' /\ \E m \in (Candidates(j))' : k <= m
  <2>1. j.repo \in Repos
    BY <1>6, JobVersions
  <2>2. CASE j.repo # mine
    BY <1>1, <1>6, <2>1, <2>2 DEF Whole, Candidates
  <2>3. CASE j.repo = mine
    <3>1. c.stage = "repo" /\ Complete(c.refs, rem) /\ n \in Resolved(c.refs, j.version)
      BY <1>6, <2>3 DEF Whole, Candidates, c, rem
    <3>2. Behind(c.refs, rem) /\ Behind(d.refs, rem) /\ Grown(c.refs, d.refs)
      BY <1>2, <1>3, <3>1 DEF Moves, GoodCopy
    <3>3. \E m \in Resolved(d.refs, j.version) : k <= m
      BY <1>6, <3>1, <3>2, ResolvedGrows
    <3>4. (Whole(j.repo))'
      BY <1>1, <1>5, <2>3, <3>1 DEF Whole, rem
    <3>5. (Candidates(j))' = Resolved(d.refs, j.version)
      BY <1>1, <2>3 DEF Candidates
    <3> QED
      BY <3>3, <3>4, <3>5
  <2> QED
    BY <2>2, <2>3
<1>7. NoneOlder'
  BY <1>6 DEF NoneOlder
<1> QED
  BY <1>1, <1>4, <1>5, <1>7 DEF Whole, mine, c, rem

LEMMA ToIdle ==
    ASSUME step' = "idle"
    PROVE  InStep'
BY DEF InStep

\* Outside of a run there is none.
LEMMA NotRunning ==
    ASSUME InRun, step # "running", step' # "running", run' = run
    PROVE  InRun'
BY DEF InRun

LEMMA BeginKeeps ==
    ASSUME WorkspaceInv, Begin
    PROVE  WorkspaceInv'
<1>1. /\ step = "idle" /\ named' = NamedBy(wanted, remote)
      /\ UNCHANGED <<remote, wanted, varsFile, run, latest, copy>>
      /\ \/ step' = (IF wanted.repo = NoRepo THEN "vars" ELSE "repo")
         \/ step' = "idle"
  BY DEF Begin, Fails, Goto, asked
<1>2. WellFormed'
  BY <1>1 DEF WorkspaceInv, WellFormed
<1>3. InStep'
  <2>1. wanted.repo # NoRepo => wanted.repo \in Repos
    BY JobVersions DEF WorkspaceInv, WellFormed
  <2>2. wanted.repo = NoRepo => wanted.version = <<>>
    BY JobVersions, WorkspaceAssumption DEF WorkspaceInv, WellFormed
  <2>3. (NamedBy(wanted, remote))' = NamedBy(wanted, remote)
    BY <1>1 DEF NamedBy
  <2>4. CASE step' = "vars" /\ wanted.repo = NoRepo
    BY <1>1, <2>2, <2>3, <2>4 DEF InStep
  <2>5. CASE step' = "repo" /\ wanted.repo # NoRepo
    BY <1>1, <2>1, <2>3, <2>5 DEF InStep
  <2>6. CASE step' = "idle"
    BY <2>6, ToIdle
  <2> QED
    BY <1>1, <2>4, <2>5, <2>6
<1>4. InRun'
  <2>1. step # "running" /\ step' # "running"
    BY <1>1
  <2> QED
    BY <1>1, <2>1, NotRunning DEF WorkspaceInv
<1> QED
  BY <1>1, <1>2, <1>3, <1>4, SameCopies DEF WorkspaceInv

\* The copy moves and the next step is the checkout, or there is none.
LEMMA ToCheckout ==
    ASSUME OwnDirectories, WorkspaceInv, UNCHANGED <<asked, varsFile, history>>,
           step = "repo", step' = "checkout", NEW d, SetCopy(d),
           Moves(copy[dir], d, wanted.repo, remote[wanted.repo]),
           d.stage = "repo", Complete(d.refs, remote[wanted.repo]),
           Fresh(d.refs, remote[wanted.repo])
    PROVE  WorkspaceInv'
<1> USE DEF asked, history
<1>1. WellFormed /\ CopiesGood /\ NoneOlder /\ InRun
  BY DEF WorkspaceInv
<1>2. wanted.repo \in Repos /\ NamedBy(wanted, remote) \subseteq named
  BY DEF WorkspaceInv, InStep
<1>3. /\ DOMAIN copy' = Dirs /\ copy'[WorkDir[wanted.repo]] = d
      /\ CopiesGood' /\ NoneOlder'
  BY <1>1, <1>2, CopyMoves
<1>4. WellFormed'
  BY <1>1, <1>3 DEF WellFormed
<1>5. InRun'
  BY <1>1, NotRunning
<1>6. InStep'
  <2>1. Pinned(wanted) => Resolved(d.refs, wanted.version) \subseteq named
    BY <1>1, <1>2, FreshlyNamed DEF Moves, GoodCopy, WellFormed
  <2>2. (Whole(wanted.repo))'
    BY <1>3 DEF Whole
  <2>3. (Pinned(wanted) => Candidates(wanted) \subseteq named)'
    BY <1>3, <2>1 DEF Pinned, Candidates
  <2>4. (NamedBy(wanted, remote) \subseteq named)'
    BY <1>2 DEF NamedBy
  <2> QED
    BY <1>2, <2>2, <2>3, <2>4 DEF InStep
<1> QED
  BY <1>3, <1>4, <1>5, <1>6 DEF WorkspaceInv

\* A step that fails and leaves the copy as it is.
LEMMA ToIdleSame ==
    ASSUME WorkspaceInv, UNCHANGED <<asked, copy, varsFile, history>>,
           step # "running", step' = "idle"
    PROVE  WorkspaceInv'
<1> USE DEF asked, history
<1>1. WellFormed'
  BY DEF WorkspaceInv, WellFormed
<1>2. InRun'
  BY NotRunning DEF WorkspaceInv
<1> QED
  BY <1>1, <1>2, ToIdle, SameCopies DEF WorkspaceInv

LEMMA CloneKeeps ==
    ASSUME OwnDirectories, WorkspaceInv, Clone
    PROVE  WorkspaceInv'
<1> DEFINE rem == remote[wanted.repo]
           d   == Cloned(wanted.repo)
<1>1. /\ step = "repo" /\ copy[dir].stage = "absent" /\ UNCHANGED <<asked, varsFile, history>>
      /\ \/ SetCopy(d) /\ step' = "checkout"
         \/ step' = "idle" /\ UNCHANGED copy
  BY DEF Clone, Fails, Goto
<1>2. wanted.repo \in Repos /\ RemoteOK(rem)
  BY <1>1 DEF WorkspaceInv, InStep, WellFormed
<1>3. CASE SetCopy(d) /\ step' = "checkout"
  <2>1. /\ Is(d, "repo", wanted.repo, d.refs)
        /\ Behind(d.refs, rem) /\ Complete(d.refs, rem) /\ Fresh(d.refs, rem)
    BY <1>2, ClonedIs
  <2>2. Moves(copy[dir], d, wanted.repo, rem)
    BY <1>1, <2>1 DEF Moves, GoodCopy, Is
  <2>3. d.stage = "repo"
    BY <2>1 DEF Is
  <2> QED
    BY <1>1, <1>3, <2>1, <2>2, <2>3, ToCheckout
<1>4. CASE step' = "idle" /\ UNCHANGED copy
  BY <1>1, <1>4, ToIdleSame
<1> QED
  BY <1>1, <1>3, <1>4

LEMMA OpenAndFetchKeeps ==
    ASSUME OwnDirectories, WorkspaceInv, OpenAndFetch
    PROVE  WorkspaceInv'
<1> DEFINE c    == copy[dir]
           refs == Fetched(c.refs, remote[c.url])
           d    == [c EXCEPT !.refs = refs]
           rem  == remote[wanted.repo]
<1>1. /\ step = "repo" /\ UNCHANGED <<asked, varsFile, history>>
      /\ \/ c.stage = "repo" /\ SetCopy(d) /\ step' = "checkout"
         \/ step' = "idle" /\ UNCHANGED copy
  BY DEF OpenAndFetch, Fails, Goto, AfterFetch
<1>2. wanted.repo \in Repos /\ RemoteOK(rem) /\ GoodCopy(c, wanted.repo, rem)
  BY <1>1 DEF WorkspaceInv, InStep, WellFormed, CopiesGood, dir
<1>3. CASE c.stage = "repo" /\ SetCopy(d) /\ step' = "checkout"
  <2>1. c.url = wanted.repo /\ Behind(c.refs, rem) /\ Fields \subseteq DOMAIN c
    BY <1>2, <1>3 DEF GoodCopy
  <2>2. Behind(refs, rem) /\ Complete(refs, rem) /\ Fresh(refs, rem) /\ Grown(c.refs, refs)
    BY <1>2, <2>1, FetchedIs
  <2> HIDE DEF refs
  <2>3. Is(d, "repo", wanted.repo, refs)
    BY <1>3, <2>1, Edited
  <2> HIDE DEF d, c
  <2>4. Moves(c, d, wanted.repo, rem) /\ d.stage = "repo" /\ d.refs = refs
    BY <2>2, <2>3 DEF Moves, GoodCopy, Is
  <2> QED
    BY <1>1, <1>3, <2>2, <2>4, ToCheckout DEF c
<1>4. CASE step' = "idle" /\ UNCHANGED copy
  BY <1>1, <1>4, ToIdleSame
<1> QED
  BY <1>1, <1>3, <1>4

LEMMA CheckoutVersionKeeps ==
    ASSUME OwnDirectories, WorkspaceInv, CheckoutVersion
    PROVE  WorkspaceInv'
<1> DEFINE mine == wanted.repo
           c    == copy[WorkDir[mine]]
           rem  == remote[mine]
<1>1. /\ step = "checkout" /\ wanted.version # <<>> /\ UNCHANGED <<asked, varsFile, history>>
      /\ \/ \E n \in Resolved(c.refs, wanted.version) :
               SetCopy(CheckedOut(c, n)) /\ step' = "vars"
         \/ step' = "idle" /\ UNCHANGED copy
  BY DEF CheckoutVersion, Goto, dir
<1>2. /\ mine \in Repos /\ RemoteOK(rem) /\ GoodCopy(c, mine, rem)
      /\ Whole(mine)
      /\ Pinned(wanted) => Resolved(c.refs, wanted.version) \subseteq named
      /\ NamedBy(wanted, remote) \subseteq named
  BY <1>1 DEF WorkspaceInv, InStep, WellFormed, CopiesGood, Candidates
<1>3. ASSUME NEW n \in Resolved(c.refs, wanted.version),
             SetCopy(CheckedOut(c, n)), step' = "vars"
      PROVE  WorkspaceInv'
  <2> DEFINE d == CheckedOut(c, n)
  <2>1. Is(d, c.stage, c.url, c.refs) /\ d.tree = n
    BY <1>2, CheckedOutIs DEF GoodCopy
  <2>2. c.stage = "repo" /\ Complete(c.refs, rem)
    BY <1>2 DEF Whole
  <2>3. SetCopy(d)
    BY <1>3
  <2> HIDE DEF d
  <2>4. Moves(c, d, mine, rem)
    BY <1>2, <2>1, <2>2, GrownItself DEF Moves, GoodCopy, Is
  <2>5. /\ DOMAIN copy' = Dirs /\ copy'[WorkDir[mine]] = d
        /\ CopiesGood' /\ NoneOlder' /\ d.stage = "repo" /\ Complete(d.refs, rem)
    BY <1>1, <1>2, <2>3, <2>4, CopyMoves DEF WorkspaceInv, asked, history, dir
  <2>6. WellFormed'
    BY <1>1, <2>5 DEF WorkspaceInv, WellFormed, asked
  <2>7. InRun'
    BY <1>1, <1>3, NotRunning DEF WorkspaceInv, history
  <2>8. InStep'
    <3> USE DEF asked, history
    <3>1. (Whole(wanted.repo))'
      BY <1>1, <2>5 DEF Whole
    <3>2. (copy[dir].tree \in Candidates(wanted))'
      BY <1>1, <2>1, <2>5 DEF Candidates, dir, Is
    <3>3. (Pinned(wanted) => copy[dir].tree \in named)'
      BY <1>1, <1>2, <2>1, <2>5 DEF Pinned, dir
    <3>4. (NamedBy(wanted, remote) \subseteq named)'
      BY <1>1, <1>2 DEF NamedBy
    <3> QED
      BY <1>3, <3>1, <3>2, <3>3, <3>4 DEF InStep
  <2> QED
    BY <2>5, <2>6, <2>7, <2>8 DEF WorkspaceInv
<1>4. CASE step' = "idle" /\ UNCHANGED copy
  BY <1>1, <1>4, ToIdleSame
<1> QED
  BY <1>1, <1>3, <1>4

LEMMA PullLatestKeeps ==
    ASSUME OwnDirectories, WorkspaceInv, PullLatest
    PROVE  WorkspaceInv'
<1> DEFINE mine == wanted.repo
           c    == copy[WorkDir[mine]]
           rem  == remote[mine]
           tip  == rem[Heads(DefaultBranch)]
           refs == Fetched(c.refs, rem)
           news == IF c.head = "branch" THEN AtDefault(tip, refs) ELSE refs
           at   == [c EXCEPT !.at = tip, !.refs = news]
<1>1. /\ step = "checkout" /\ wanted.version = <<>> /\ UNCHANGED <<asked, varsFile, history>>
      /\ Whole(mine) /\ mine \in Repos
  BY DEF PullLatest, WorkspaceInv, InStep
<1>2. /\ RemoteOK(rem) /\ GoodCopy(c, mine, rem) /\ c.stage = "repo" /\ c.url = mine
      /\ NamedBy(wanted, remote) \subseteq named
  BY <1>1 DEF WorkspaceInv, InStep, WellFormed, CopiesGood, GoodCopy, Whole
<1>3. /\ step' \in {"idle", "vars"}
      /\ \/ UNCHANGED copy
         \/ SetCopy([c EXCEPT !.refs = refs])
         \/ SetCopy([at EXCEPT !.tree = tip])
         \/ SetCopy(at)
  BY <1>2 DEF PullLatest, Fails, Goto, dir
<1>4. Behind(refs, rem) /\ Grown(c.refs, refs)
  BY <1>2, FetchedIs DEF GoodCopy
<1>5. Behind(news, rem) /\ Grown(refs, news)
  BY <1>2, <1>4, AtDefaultIs, GrownItself
<1> HIDE DEF news, refs, tip
<1>6. Grown(c.refs, news)
  BY <1>2, <1>4, <1>5 DEF Grown, Behind, GoodCopy
<1>7. \E d : /\ SetCopy(d) \/ (UNCHANGED copy /\ d = c)
             /\ Moves(c, d, mine, rem)
  <2>1. CASE UNCHANGED copy
    BY <1>2, <2>1, GrownItself DEF Moves, GoodCopy
  <2>2. CASE SetCopy([c EXCEPT !.refs = refs])
    <3> DEFINE d == [c EXCEPT !.refs = refs]
    <3>1. Is(d, c.stage, c.url, refs)
      BY <1>2, Edited DEF GoodCopy
    <3>2. SetCopy(d)
      BY <2>2
    <3> HIDE DEF d
    <3> QED
      BY <1>2, <1>4, <3>1, <3>2 DEF Moves, GoodCopy, Is
  <2>3. Is(at, c.stage, c.url, news)
    BY <1>2, Edited DEF GoodCopy
  <2>4. CASE SetCopy(at)
    <3> HIDE DEF at
    <3> QED
      BY <1>2, <1>5, <1>6, <2>3, <2>4 DEF Moves, GoodCopy, Is
  <2>5. CASE SetCopy([at EXCEPT !.tree = tip])
    <3> HIDE DEF at
    <3> DEFINE d == [at EXCEPT !.tree = tip]
    <3>1. Is(d, c.stage, c.url, news)
      BY <2>3, Edited DEF Is
    <3>2. SetCopy(d)
      BY <2>5
    <3> HIDE DEF d
    <3> QED
      BY <1>2, <1>5, <1>6, <3>1, <3>2 DEF Moves, GoodCopy, Is
  <2> QED
    BY <1>3, <2>1, <2>2, <2>4, <2>5
<1>8. DOMAIN copy' = Dirs /\ CopiesGood' /\ NoneOlder'
  <2>1. CASE UNCHANGED copy
    BY <1>1, <2>1, SameCopies DEF WorkspaceInv, WellFormed, asked, history
  <2>2. CASE \E d : SetCopy(d) /\ Moves(c, d, mine, rem)
    BY <1>1, <2>2, CopyMoves DEF WorkspaceInv, asked, history, dir
  <2> QED
    BY <1>7, <2>1, <2>2
<1>9. WellFormed'
  BY <1>1, <1>8 DEF WorkspaceInv, WellFormed, asked
<1>10. InRun'
  BY <1>1, <1>3, NotRunning DEF WorkspaceInv, history
<1>11. InStep'
  <2>1. (NamedBy(wanted, remote) \subseteq named)'
    BY <1>1, <1>2 DEF NamedBy, asked, history
  <2> QED
    BY <1>1, <1>3, <2>1 DEF InStep, asked
<1> QED
  BY <1>8, <1>9, <1>10, <1>11 DEF WorkspaceInv

LEMMA StartAnsibleKeeps ==
    ASSUME WorkspaceInv, StartAnsible
    PROVE  WorkspaceInv'
<1> DEFINE tree == copy[dir].tree
           v    == <<wanted.repo, wanted.version>>
<1>1. /\ step = "vars" /\ step' = "running" /\ UNCHANGED <<asked, copy, named>>
      /\ latest' = [latest EXCEPT ![v] = run'.commit]
  BY DEF StartAnsible, Goto
<1>2. PICK wrote \in BOOLEAN :
         /\ varsFile' \in IF wanted.vars = NoVars THEN {varsFile}
                          ELSE IF wrote THEN {[varsFile EXCEPT ![dir] = wanted.vars]}
                          ELSE {varsFile, [varsFile EXCEPT ![dir] = Torn]}
         /\ run' = [job |-> wanted, commit |-> tree, wrote |-> wrote,
                    vars |-> IF wanted.vars = NoVars THEN NoVars ELSE varsFile'[dir]]
  BY DEF StartAnsible
<1>3. /\ WellFormed /\ CopiesGood /\ NoneOlder
      /\ wanted \in Jobs /\ NamedBy(wanted, remote) \subseteq named
      /\ wanted.version # <<>> => /\ wanted.repo \in Repos /\ Whole(wanted.repo)
                                  /\ tree \in Candidates(wanted)
                                  /\ Pinned(wanted) => tree \in named
  <2>1. wanted \in Jobs
    BY DEF WorkspaceInv, WellFormed
  <2> QED
    BY <1>1, <2>1, JobVersions DEF WorkspaceInv, InStep
<1>4. dir \in Dirs
  BY <1>3, JobVersions DEF dir, Dirs
<1>5. run'.job = wanted /\ run'.commit = tree /\ run'.wrote = wrote
  BY <1>2
<1> HIDE DEF tree
<1>6. WellFormed'
  BY <1>1, <1>2, <1>3 DEF WellFormed, asked
<1>7. CopiesGood'
  BY <1>1, <1>3 DEF CopiesGood, asked
<1>8. InStep'
  <2>1. (NamedBy(wanted, remote) \subseteq named)'
    BY <1>1, <1>3 DEF NamedBy, asked
  <2> QED
    BY <1>1, <2>1 DEF InStep
<1>9. InRun'
  <2>1. wrote => run'.vars = wanted.vars
    <3>1. run'.vars = IF wanted.vars = NoVars THEN NoVars ELSE varsFile'[dir]
      BY <1>2
    <3>2. wrote /\ wanted.vars # NoVars => varsFile'[dir] = wanted.vars
      BY <1>2, <1>3, <1>4 DEF WellFormed
    <3> QED
      BY <3>1, <3>2
  <2>2. Pinned(wanted) => tree \in named
    BY <1>3 DEF Pinned
  <2>3. wanted' = wanted /\ named' = named /\ (Pinned(wanted))' = Pinned(wanted)
    BY <1>1 DEF asked, Pinned
  <2> QED
    BY <1>1, <1>5, <2>1, <2>2, <2>3 DEF InRun
<1>10. NoneOlder'
  <2>1. DOMAIN latest' = Versions
    BY <1>1, <1>3 DEF NoneOlder
  <2>2. ASSUME NEW j \in Jobs
        PROVE  /\ (Whole(j.repo))' <=> Whole(j.repo)
               /\ (Candidates(j))' = Candidates(j)
               /\ <<j.repo, j.version>> \in DOMAIN latest
    BY <1>1, <1>3 DEF Whole, Candidates, asked, NoneOlder, Versions
  <2>3. ASSUME NEW j \in Jobs, j.version # <<>>, <<j.repo, j.version>> = v
        PROVE  /\ Whole(j.repo) /\ latest'[v] \in Candidates(j) /\ latest'[v] \in Nat
    <3>1. j.repo = wanted.repo /\ j.version = wanted.version
      BY <2>3
    <3>2. latest'[v] = tree
      BY <1>1, <1>5, <2>2, <2>3
    <3>3. Whole(j.repo) /\ tree \in Candidates(j)
      BY <1>3, <2>3, <3>1 DEF Candidates
    <3>4. tree \in Nat
      <4>1. j.repo \in Repos
        BY <1>3, <2>3, <3>1
      <4>2. Behind(copy[WorkDir[j.repo]].refs, remote[j.repo])
        BY <1>3, <4>1 DEF CopiesGood, GoodCopy
      <4> QED
        BY <2>3, <3>3, <4>2, OneResolved DEF Candidates
    <3> QED
      BY <3>2, <3>3, <3>4
  <2>4. ASSUME NEW j \in Jobs, <<j.repo, j.version>> # v
        PROVE  latest'[<<j.repo, j.version>>] = latest[<<j.repo, j.version>>]
    BY <1>1, <2>2, <2>4
  <2>5. ASSUME NEW j \in Jobs, j.version # <<>>
        PROVE  LET seen == latest'[<<j.repo, j.version>>] IN
               \/ seen = 0
               \/ Whole(j.repo) /\ \E n \in Candidates(j) : seen <= n /\ seen \in Nat
    <3>1. CASE <<j.repo, j.version>> = v
      BY <2>3, <2>5, <3>1
    <3>2. CASE <<j.repo, j.version>> # v
      BY <1>3, <2>4, <2>5, <3>2 DEF NoneOlder
    <3> QED
      BY <3>1, <3>2
  <2> QED
    BY <2>1, <2>2, <2>5 DEF NoneOlder
<1> QED
  BY <1>6, <1>7, <1>8, <1>9, <1>10 DEF WorkspaceInv

LEMMA FinishAnsibleKeeps ==
    ASSUME WorkspaceInv, FinishAnsible
    PROVE  WorkspaceInv'
<1>1. /\ step' = "idle" /\ run' = NoJob
      /\ UNCHANGED <<remote, copy, varsFile, wanted, latest>>
  BY DEF FinishAnsible, Goto, Forget
<1>2. WellFormed'
  BY <1>1 DEF WorkspaceInv, WellFormed
<1>3. InRun'
  BY <1>1 DEF InRun
<1> QED
  BY <1>1, <1>2, <1>3, ToIdle, SameCopies DEF WorkspaceInv

LEMMA AssignKeeps ==
    ASSUME WorkspaceInv, Assign
    PROVE  WorkspaceInv'
<1>1. /\ step = "idle" /\ wanted' \in Jobs
      /\ UNCHANGED <<remote, copy, varsFile, step, named, run, latest>>
  BY DEF Assign, history
<1>2. WellFormed'
  BY <1>1 DEF WorkspaceInv, WellFormed
<1>3. InRun'
  BY <1>1, NotRunning DEF WorkspaceInv
<1>4. step' = "idle"
  BY <1>1
<1> QED
  BY <1>1, <1>2, <1>3, <1>4, ToIdle, SameCopies DEF WorkspaceInv

\* Whatever a kill leaves of the copy is one that a later fetch completes.
LEMMA KillKeeps ==
    ASSUME OwnDirectories, WorkspaceInv, Kill
    PROVE  WorkspaceInv'
<1> DEFINE mine == wanted.repo
           c    == copy[WorkDir[mine]]
           rem  == remote[mine]
<1>1. /\ step' = "idle" /\ run' = NoJob /\ UNCHANGED <<remote, wanted, latest>>
      /\ varsFile' = varsFile \/ varsFile' = [varsFile EXCEPT ![dir] = Torn]
  BY DEF Kill, Goto, Forget
<1>2. PICK d \in TornCopies : SetCopy(d)
  BY DEF Kill
<1>3. DOMAIN varsFile' = Dirs /\ WellFormed /\ CopiesGood /\ NoneOlder
  BY <1>1 DEF WorkspaceInv, WellFormed
<1>4. ASSUME step \notin {"repo", "checkout"}
      PROVE  CopiesGood' /\ NoneOlder'
  <2>1. d = c
    BY <1>2, <1>4, Zenon DEF TornCopies, dir
  <2>2. \A r \in Repos : copy'[WorkDir[r]] = copy[WorkDir[r]]
    BY <1>2, <1>3, <2>1, InDirs DEF SetCopy, dir, WellFormed
  <2> QED
    BY <1>1, <1>3, <2>2, SameCopies
<1>5. ASSUME step \in {"repo", "checkout"}
      PROVE  DOMAIN copy' = Dirs /\ CopiesGood' /\ NoneOlder'
  <2>1. /\ mine \in Repos /\ RemoteOK(rem) /\ GoodCopy(c, mine, rem)
        /\ step = "checkout" => c.stage = "repo"
    BY <1>3, <1>5 DEF WorkspaceInv, InStep, WellFormed, CopiesGood, Whole
  <2>2. /\ Fields \subseteq DOMAIN c /\ Behind(c.refs, rem) /\ Grown(c.refs, c.refs)
        /\ c.stage = "repo" => c.url = mine
    BY <2>1, GrownItself DEF GoodCopy
  <2>3. Moves(c, c, mine, rem)
    BY <2>1, <2>2 DEF Moves
  <2>4. ASSUME step = "repo", c.stage = "absent"
        PROVE  Moves(c, d, mine, rem)
    <3> DEFINE Made == [c EXCEPT !.stage = "repo", !.url = mine]
               F    == Fetched(<<>>, rem)
    <3>1. d \in {c, [c EXCEPT !.stage = "dir"], Made, [Made EXCEPT !.refs = F],
                 [Cloned(mine) EXCEPT !.tree = Torn]}
      BY <1>2, <2>4, Zenon DEF TornCopies, dir
    <3>2. Behind(F, rem)
      BY <2>1, EmptyBehind, FetchedIs
    <3> HIDE DEF F
    <3>3. CASE d = [c EXCEPT !.stage = "dir"]
      <4>1. Is(d, "dir", c.url, c.refs)
        BY <2>2, <3>3, Edited
      <4> QED
        BY <2>2, <2>4, <4>1 DEF Moves, GoodCopy, Is
    <3>4. Is(Made, "repo", mine, c.refs)
      BY <2>2, Edited
    <3>5. CASE d = Made
      BY <2>2, <2>4, <3>4, <3>5 DEF Moves, GoodCopy, Is
    <3>6. CASE d = [Made EXCEPT !.refs = F]
      <4> HIDE DEF Made
      <4>1. Is(d, "repo", mine, F)
        BY <3>4, <3>6, Edited DEF Is
      <4> QED
        BY <2>4, <3>2, <4>1 DEF Moves, GoodCopy, Is
    <3>7. CASE d = [Cloned(mine) EXCEPT !.tree = Torn]
      <4> DEFINE k == Cloned(mine)
      <4>1. Is(k, "repo", mine, k.refs) /\ Behind(k.refs, rem)
        BY <2>1, ClonedIs
      <4> HIDE DEF k
      <4>2. Is(d, "repo", mine, k.refs)
        BY <3>7, <4>1, Edited DEF Is, k
      <4> QED
        BY <2>4, <4>1, <4>2 DEF Moves, GoodCopy, Is
    <3> QED
      BY <2>3, <3>1, <3>3, <3>5, <3>6, <3>7
  <2>5. ASSUME step = "repo", c.stage = "repo"
        PROVE  Moves(c, d, mine, rem)
    <3> DEFINE refs == Fetched(c.refs, rem)
    <3>1. d = c \/ d = [c EXCEPT !.refs = refs]
      BY <1>2, <2>2, <2>5, Zenon DEF TornCopies, dir
    <3>2. Behind(refs, rem) /\ Grown(c.refs, refs)
      BY <2>1, <2>2, FetchedIs
    <3> HIDE DEF refs
    <3>3. CASE d = [c EXCEPT !.refs = refs]
      <4>1. Is(d, "repo", mine, refs)
        BY <2>2, <2>5, <3>3, Edited
      <4> QED
        BY <3>2, <4>1 DEF Moves, GoodCopy, Is
    <3> QED
      BY <2>3, <3>1, <3>3
  <2>6. ASSUME step = "checkout"
        PROVE  Moves(c, d, mine, rem)
    <3>1. \/ d = c
          \/ d = [c EXCEPT !.at = remote[c.url][Heads(DefaultBranch)], !.tree = Torn]
          \/ \E n : d = [CheckedOut(c, n) EXCEPT !.tree = Torn]
      <4>1. d \in {c} \cup
              (IF wanted.version = <<>>
               THEN {[c EXCEPT !.at = remote[c.url][Heads(DefaultBranch)], !.tree = Torn]}
               ELSE {[CheckedOut(c, n) EXCEPT !.tree = Torn] :
                       n \in Resolved(c.refs, wanted.version)})
        BY <1>2, <2>6, Zenon DEF TornCopies, dir
      <4> QED
        BY <4>1
    <3>2. CASE d = [c EXCEPT !.at = remote[c.url][Heads(DefaultBranch)], !.tree = Torn]
      <4>1. Is(d, "repo", mine, c.refs)
        <5>1. Is(d, c.stage, c.url, c.refs)
          BY <2>2, <3>2, Edited, Zenon
        <5> QED
          BY <2>1, <2>2, <2>6, <5>1
      <4> QED
        BY <2>2, <4>1 DEF Moves, GoodCopy, Is
    <3>3. ASSUME NEW n, d = [CheckedOut(c, n) EXCEPT !.tree = Torn]
          PROVE  Moves(c, d, mine, rem)
      <4> DEFINE k == CheckedOut(c, n)
      <4>1. Is(k, "repo", mine, c.refs)
        BY <2>1, <2>2, <2>6, CheckedOutIs
      <4> HIDE DEF k
      <4>2. Is(d, "repo", mine, c.refs)
        BY <3>3, <4>1, Edited DEF Is, k
      <4> QED
        BY <2>2, <4>2 DEF Moves, GoodCopy, Is
    <3> QED
      BY <2>3, <3>1, <3>2, <3>3
  <2>7. ASSUME step = "repo", c.stage \notin {"absent", "repo"}
        PROVE  Moves(c, d, mine, rem)
    <3>1. d = c
      BY <1>2, <2>7, Zenon DEF TornCopies, dir
    <3> QED
      BY <2>3, <3>1
  <2>8. Moves(c, d, mine, rem)
    BY <1>5, <2>4, <2>5, <2>6, <2>7
  <2>9. DOMAIN copy' = Dirs /\ CopiesGood' /\ NoneOlder'
    BY <1>1, <1>2, <1>3, <2>1, <2>8, CopyMoves DEF dir
  <2> QED
    BY <2>9
<1>6. DOMAIN copy' = Dirs /\ CopiesGood' /\ NoneOlder'
  <2>1. step \notin {"repo", "checkout"} => DOMAIN copy' = Dirs
    BY <1>2, <1>3 DEF SetCopy, WellFormed
  <2> QED
    BY <1>4, <1>5, <2>1
<1>7. WellFormed'
  BY <1>1, <1>3, <1>6 DEF WellFormed
<1>8. InRun'
  BY <1>1 DEF InRun
<1> QED
  BY <1>1, <1>6, <1>7, <1>8, ToIdle DEF WorkspaceInv

-----------------------------------------------------------------------------
(* A push: the history of a remote only grows.                             *)

LEMMA Greatest ==
    ASSUME NEW S \in SUBSET (1..MaxCommits), S # {}
    PROVE  Max(S) \in S /\ \A x \in S : Max(S) >= x
<1> DEFINE T  == {MaxCommits - x : x \in S}
           Lt == OpToRel(<, Nat)
<1>1. MaxCommits \in Nat
  BY WorkspaceAssumption
<1>2. T \subseteq Nat /\ T # {}
  <2>1. \A x \in S : x \in Int /\ x <= MaxCommits
    BY <1>1
  <2>2. \A x \in S : MaxCommits - x \in Nat
    BY <1>1, <2>1
  <2> QED
    BY <2>2
<1>3. \A x, y \in Nat : x < y <=> <<x, y>> \in Lt
  BY DEF OpToRel
<1>4. IsWellFoundedOn(Lt, Nat)
  BY NatLessThanWellFounded
<1> HIDE DEF T, Lt
<1>5. PICK t \in T : \A u \in T : ~(<<u, t>> \in Lt)
  BY <1>2, <1>4, WFMin
<1>6. ASSUME NEW u \in T
      PROVE  t <= u
  <2>1. t \in Nat /\ u \in Nat /\ ~(u < t)
    BY <1>2, <1>3, <1>5
  <2> QED
    BY <2>1
<1>7. PICK x \in S : t = MaxCommits - x
  BY DEF T
<1>8. \A y \in S : x >= y
  <2> SUFFICES ASSUME NEW y \in S
               PROVE  x >= y
    OBVIOUS
  <2>1. MaxCommits - x <= MaxCommits - y
    BY <1>6, <1>7 DEF T
  <2> QED
    BY <1>1, <2>1
<1>9. \E m \in S : \A y \in S : m >= y
  BY <1>8
<1> QED
  BY <1>9, Zenon DEF Max

LEMMA PushIs ==
    ASSUME WellFormed, NEW r \in Repos, Push(r)
    PROVE  /\ DOMAIN remote' = Repos
           /\ \A q \in Repos :
                 /\ RemoteOK(remote'[q])
                 /\ DOMAIN remote'[q] = DOMAIN remote[q]
                 /\ \A ref \in DOMAIN remote[q] : remote[q][ref] <= remote'[q][ref]
<1> DEFINE commits == {remote[r][ref] : ref \in DOMAIN remote[r]}
           newest  == Max(commits)
<1>1. PICK ref \in DOMAIN remote[r], n \in 1..MaxCommits :
         /\ n = (IF IsTag(ref) THEN newest ELSE newest + 1)
         /\ remote' = [remote EXCEPT ![r][ref] = n]
  BY DEF Push
<1>2. /\ DOMAIN remote = Repos
      /\ \A q \in Repos : RemoteOK(remote[q])
  BY DEF WellFormed
<1>3. commits \in SUBSET (1..MaxCommits) /\ commits # {}
  BY <1>1, <1>2 DEF RemoteOK
<1>4. newest \in 1..MaxCommits /\ \A s \in DOMAIN remote[r] : newest >= remote[r][s]
  BY <1>3, Greatest
<1> HIDE DEF newest, commits
<1>5. remote[r][ref] <= n
  BY <1>1, <1>2, <1>4, WorkspaceAssumption DEF RemoteOK
<1>6. /\ DOMAIN remote' = Repos
      /\ \A q \in Repos : q # r => remote'[q] = remote[q]
      /\ remote'[r] = [remote[r] EXCEPT ![ref] = n]
  BY <1>1, <1>2
<1>7. /\ DOMAIN remote'[r] = DOMAIN remote[r]
      /\ \A s \in DOMAIN remote[r] : remote'[r][s] = IF s = ref THEN n ELSE remote[r][s]
  BY <1>1, <1>6
<1>8. /\ RemoteOK(remote'[r])
      /\ \A s \in DOMAIN remote[r] : remote[r][s] <= remote'[r][s]
  BY <1>1, <1>2, <1>5, <1>7 DEF RemoteOK
<1> SUFFICES ASSUME NEW q \in Repos
             PROVE  /\ RemoteOK(remote'[q])
                    /\ DOMAIN remote'[q] = DOMAIN remote[q]
                    /\ \A s \in DOMAIN remote[q] : remote[q][s] <= remote'[q][s]
  BY <1>6
<1>9. CASE q = r
  BY <1>7, <1>8, <1>9
<1>10. CASE q # r
  BY <1>2, <1>6, <1>10, WorkspaceAssumption DEF RemoteOK
<1> QED
  BY <1>9, <1>10

LEMMA PushKeeps ==
    ASSUME WorkspaceInv, NEW r \in Repos, Push(r)
    PROVE  WorkspaceInv'
<1>1. /\ DOMAIN remote' = Repos
      /\ \A q \in Repos :
            /\ RemoteOK(remote'[q]) /\ DOMAIN remote'[q] = DOMAIN remote[q]
            /\ \A ref \in DOMAIN remote[q] : remote[q][ref] <= remote'[q][ref]
  BY PushIs DEF WorkspaceInv
<1>2. /\ named' = IF step = "idle" THEN named ELSE named \cup NamedBy(wanted, remote')
      /\ UNCHANGED <<copy, varsFile, wanted, step, run, latest>>
  BY DEF Push
<1>3. WellFormed'
  BY <1>1, <1>2 DEF WorkspaceInv, WellFormed
<1>4. CopiesGood'
  <2> SUFFICES ASSUME NEW q \in Repos
               PROVE  Behind(copy[WorkDir[q]].refs, remote'[q])
    BY <1>2 DEF WorkspaceInv, CopiesGood, GoodCopy
  <2>1. Behind(copy[WorkDir[q]].refs, remote[q]) /\ RemoteOK(remote[q])
    BY DEF WorkspaceInv, WellFormed, CopiesGood, GoodCopy
  <2> QED
    BY <1>1, <2>1, WorkspaceAssumption DEF Behind, RemoteOK
<1>5. ASSUME NEW q \in Repos
      PROVE  (Whole(q))' <=> Whole(q)
  BY <1>1, <1>2 DEF Whole, Complete
<1>6. ASSUME NEW j
      PROVE  (Candidates(j))' = Candidates(j)
  BY <1>2 DEF Candidates
<1>7. InStep'
  <2>1. (NamedBy(wanted, remote))' = NamedBy(wanted, remote')
    BY <1>2 DEF NamedBy
  <2>2. step # "idle" => (NamedBy(wanted, remote) \subseteq named)'
    BY <1>2, <2>1
  <2>3. named \subseteq named' /\ dir' = dir /\ (Candidates(wanted))' = Candidates(wanted)
    BY <1>2 DEF dir, Candidates
  <2>4. wanted.version # <<>> => wanted.repo \in Repos
    BY JobVersions DEF WorkspaceInv, WellFormed
  <2>5. InStep
    BY DEF WorkspaceInv
  <2> QED
    BY <1>2, <1>5, <2>2, <2>3, <2>4, <2>5 DEF InStep, Pinned
<1>8. InRun'
  <2>1. named \subseteq named'
    BY <1>2
  <2> QED
    BY <1>2, <2>1 DEF WorkspaceInv, InRun, Pinned
<1>9. NoneOlder'
  BY <1>2, <1>5, <1>6, JobVersions DEF WorkspaceInv, NoneOlder
<1> QED
  BY <1>3, <1>4, <1>7, <1>8, <1>9 DEF WorkspaceInv

-----------------------------------------------------------------------------
(* The theorems.                                                           *)

LEMMA InitKeeps ==
    ASSUME Init
    PROVE  WorkspaceInv
<1> USE DEF Init
<1>1. WellFormed
  <2>1. \A r \in Repos : remote[r] \in Remotes
    OBVIOUS
  <2>2. ASSUME NEW rem \in Remotes
        PROVE  RemoteOK(rem)
    BY WorkspaceAssumption, Zenon DEF RemoteOK, RemoteRef, Tag
  <2> QED
    BY <2>1, <2>2 DEF WellFormed
<1>2. CopiesGood
  <2>1. /\ Fields \subseteq DOMAIN NoCopy /\ NoCopy.stage = "absent" /\ NoCopy.refs = <<>>
    BY DEF NoCopy, Copy, Fields
  <2>2. \A r \in Repos : copy[WorkDir[r]] = NoCopy
    BY InDirs
  <2> HIDE DEF Init
  <2> QED
    BY <2>1, <2>2, EmptyBehind DEF CopiesGood, GoodCopy
<1>3. InStep /\ InRun
  BY DEF InStep, InRun
<1>4. NoneOlder
  BY DEF NoneOlder, Versions
<1> QED
  BY <1>1, <1>2, <1>3, <1>4 DEF WorkspaceInv

LEMMA NextKeeps ==
    ASSUME OwnDirectories, WorkspaceInv, [Next]_vars
    PROVE  WorkspaceInv'
<1>1. CASE UNCHANGED vars
  <2>1. WellFormed' /\ InStep' /\ InRun'
    BY <1>1 DEF vars, WorkspaceInv, WellFormed, InStep, InRun, Whole, Candidates, Pinned, dir
  <2> QED
    BY <1>1, <2>1, SameCopies DEF vars, WorkspaceInv
<1>2. CASE Execute
  BY <1>2, BeginKeeps, CloneKeeps, OpenAndFetchKeeps, CheckoutVersionKeeps, PullLatestKeeps,
     StartAnsibleKeeps, FinishAnsibleKeeps DEF Execute
<1>3. CASE Assign \/ Kill
  BY <1>3, AssignKeeps, KillKeeps
<1>4. CASE \E r \in Repos : Push(r)
  BY <1>4, PushKeeps
<1> QED
  BY <1>1, <1>2, <1>3, <1>4 DEF Next

\* Where no two repositories share a working copy, the invariant holds in every
\* state ExecutePlaybook, the remotes and a kill can lead to.
LEMMA WorkspaceInvariant ==
    ASSUME OwnDirectories
    PROVE  Spec => []WorkspaceInv
<1>1. Init => WorkspaceInv
  BY InitKeeps
<1>2. WorkspaceInv /\ [Next]_vars => WorkspaceInv'
  BY NextKeeps
<1> QED
  BY <1>1, <1>2, PTL DEF Spec

\* A run on a tag or a remote branch sees a commit that name had at its repository
\* since the execution began, and its own extra vars, for any number of jobs,
\* repositories and interrupted executions.
THEOREM RunCorrect ==
    ASSUME OwnDirectories
    PROVE  Spec => []RunsItsJob
<1>1. WorkspaceInv => RunsItsJob
  BY DEF WorkspaceInv, InRun, Pinned, RunsItsJob
<1> QED
  BY <1>1, WorkspaceInvariant, PTL

\* Only the start of ansible-playbook enters a commit, and it is the one the
\* version resolves to.
LEMMA StepNotOlder ==
    ASSUME WorkspaceInv, [Next]_vars, NEW j \in Jobs, j.version # <<>>
    PROVE  latest'[<<j.repo, j.version>>] >= latest[<<j.repo, j.version>>]
<1> DEFINE v    == <<j.repo, j.version>>
           tree == copy[dir].tree
<1>1. v \in DOMAIN latest /\ \/ latest[v] = 0
                             \/ \E n \in Candidates(j) : latest[v] <= n /\ latest[v] \in Nat
  BY DEF WorkspaceInv, NoneOlder, Versions
<1>2. CASE latest' = latest
  BY <1>1, <1>2
<1>3. CASE StartAnsible
  <2>1. /\ step = "vars" /\ run'.commit = tree
        /\ latest' = [latest EXCEPT ![<<wanted.repo, wanted.version>>] = run'.commit]
    BY <1>3 DEF StartAnsible
  <2>2. CASE v = <<wanted.repo, wanted.version>>
    <3>1. j.repo = wanted.repo /\ j.version = wanted.version
      BY <2>2
    <3>2. tree \in Candidates(j)
      BY <2>1, <3>1 DEF WorkspaceInv, InStep, Candidates
    <3>3. j.repo \in Repos
      BY JobVersions
    <3>4. tree \in Nat /\ Candidates(j) = {tree}
      <4> HIDE DEF tree
      <4>1. Behind(copy[WorkDir[j.repo]].refs, remote[j.repo])
        BY <3>3 DEF WorkspaceInv, CopiesGood, GoodCopy
      <4> QED
        BY <3>2, <4>1, OneResolved DEF Candidates
    <3>5. latest'[v] = tree
      BY <1>1, <2>1, <2>2
    <3>6. latest'[v] >= latest[v]
      <4> HIDE DEF tree, v
      <4> QED
        BY <1>1, <3>4, <3>5
    <3> QED
      BY <3>6
  <2>3. CASE v # <<wanted.repo, wanted.version>>
    <3>1. latest'[v] = latest[v]
      BY <1>1, <2>1, <2>3
    <3> QED
      BY <1>1, <3>1
  <2> QED
    BY <2>2, <2>3
<1>4. latest' = latest \/ StartAnsible
  BY DEF Next, Execute, Begin, Clone, OpenAndFetch, CheckoutVersion, PullLatest, FinishAnsible,
         Assign, Kill, Push, Forget, history, vars
<1> QED
  BY <1>2, <1>3, <1>4

\* A run of a version never sees an older commit than the last run of it did,
\* across restarts, interrupted clones and checkouts, and jobs in between.
THEOREM NeverOlderCorrect ==
    ASSUME OwnDirectories
    PROVE  Spec => NeverOlder
<1>1. ASSUME WorkspaceInv, [Next]_vars, NEW v \in DOMAIN latest, v[2] # <<>>
      PROVE  latest'[v] >= latest[v]
  <2>1. PICK j \in Jobs : v = <<j.repo, j.version>>
    BY <1>1 DEF WorkspaceInv, NoneOlder, Versions
  <2>2. j.version # <<>>
    BY <1>1, <2>1
  <2> QED
    BY <1>1, <2>1, <2>2, StepNotOlder
<1>2. WorkspaceInv /\ [Next]_vars =>
        [\A v \in DOMAIN latest :
            v[2] # <<>> /\ Torn \notin {latest[v], latest'[v]} => latest'[v] >= latest[v]]_vars
  BY <1>1
<1> QED
  BY <1>2, WorkspaceInvariant, PTL DEF Spec, NeverOlder

==============================================================================
