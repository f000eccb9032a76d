------------------------------- MODULE Semver -------------------------------
(***************************************************************************)
(* versionSatisfies (semver.ts), on parsed versions: a version is its      *)
(* three numbers and the sequence of its prerelease parts, each a number   *)
(* or a name, of which Names are the last.                                 *)
(***************************************************************************)
EXTENDS Integers, Sequences

CONSTANT Names      \* prerelease parts that are no numbers, as numbers above all others

Operators == {"=", ">=", "<=", ">", "<", "^", "~"}

Release(major, minor, patch) ==
    [major |-> major, minor |-> minor, patch |-> patch, prerelease |-> <<>>]
Triple(v) == <<v.major, v.minor, v.patch>>

\* The parts of two prereleases: the first that are not the same decide.
ComparePrerelease(p, q) ==
    LET compare[i \in Nat] ==
            IF i > Len(p) /\ i > Len(q) THEN 0
            ELSE IF i > Len(p) THEN -1
            ELSE IF i > Len(q) THEN 1
            ELSE IF p[i] = q[i] THEN compare[i + 1]
            ELSE IF p[i] \notin Names /\ q[i] \in Names THEN -1
            ELSE IF p[i] \in Names /\ q[i] \notin Names THEN 1
            ELSE IF p[i] < q[i] THEN -1 ELSE 1
    IN  compare[1]

CompareVersions(v, w) ==
    IF v.major # w.major THEN v.major - w.major
    ELSE IF v.minor # w.minor THEN v.minor - w.minor
    ELSE IF v.patch # w.patch THEN v.patch - w.patch
    ELSE IF v.prerelease = <<>> THEN (IF w.prerelease = <<>> THEN 0 ELSE 1)
    ELSE IF w.prerelease = <<>> THEN -1
    ELSE ComparePrerelease(v.prerelease, w.prerelease)

CaretUpperBound(v) ==
    IF v.major > 0 THEN Release(v.major + 1, 0, 0)
    ELSE IF v.minor > 0 THEN Release(0, v.minor + 1, 0)
    ELSE Release(0, 0, v.patch + 1)

SatisfiesComparator(v, op, w) ==
    LET comparison == CompareVersions(v, w) IN
    \/ op = ">=" /\ comparison >= 0
    \/ op = "<=" /\ comparison <= 0
    \/ op = ">" /\ comparison > 0
    \/ op = "<" /\ comparison < 0
    \/ op = "^" /\ comparison >= 0 /\ CompareVersions(v, CaretUpperBound(w)) < 0
    \/ op = "~" /\ comparison >= 0 /\ CompareVersions(v, Release(w.major, w.minor + 1, 0)) < 0
    \/ op = "=" /\ comparison = 0

\* Mutant: a prerelease is a version like any other.
AdmitsAny(v, range) == TRUE

\* A prerelease is only for those who name its release with a prerelease of their own.
AdmitsPrerelease(v, range) ==
    v.prerelease = <<>>
    \/ \E i \in DOMAIN range :
          range[i].version.prerelease # <<>> /\ Triple(range[i].version) = Triple(v)

VersionSatisfies(v, range) ==
    /\ AdmitsPrerelease(v, range)
    /\ \A i \in DOMAIN range : SatisfiesComparator(v, range[i].op, range[i].version)

-----------------------------------------------------------------------------
\* compareVersions orders the versions V: it is antisymmetric and transitive, and only
\* equal versions compare as equal.
OrdersVersions(v, w, V) ==
    LET Sign(n) == IF n < 0 THEN -1 ELSE IF n > 0 THEN 1 ELSE 0 IN
    /\ Sign(CompareVersions(v, w)) = -Sign(CompareVersions(w, v))
    /\ CompareVersions(v, w) = 0 <=> v = w
    /\ \A u \in V : CompareVersions(u, v) <= 0 /\ CompareVersions(v, w) <= 0
                       => CompareVersions(u, w) <= 0

\* A range with a caret or a tilde keeps to the compatible versions: a version it takes
\* has the same first number that is not zero, or the same major and minor number.
KeepsCompatible(v, op, w) ==
    VersionSatisfies(v, <<[op |-> op, version |-> w]>>) =>
        /\ op = "^" => /\ v.major = w.major
                       /\ w.major = 0 => v.minor = w.minor
                       /\ w.major = 0 /\ w.minor = 0 => v.patch = w.patch
        /\ op = "~" => v.major = w.major /\ v.minor = w.minor
=============================================================================
