------------------------------ MODULE GitRevision ------------------------------
(***************************************************************************)
(* Which commit a load works on: gitClone and resolveRevision of           *)
(* internal/source/git.go.  The remote belongs to others, who move, add    *)
(* and delete branches and tags at any time.  A clone is a copy of it that *)
(* looks different: of the branches only the default one is local, the     *)
(* others are remote-tracking references under origin/.                    *)
(***************************************************************************)
EXTENDS Naturals, FiniteSets

CONSTANTS Names,         \* names of branches and tags
          Main,          \* the default branch of the remote
          Commits,       \* its commits, each the parent of the next
          MaxPushes,     \* bound: changes of the remote
          NoCommit,      \* a name that stands for nothing
          NoRef          \* no reference given: the empty string

ASSUME RevisionConstants ==
    /\ Main \in Names /\ Commits \subseteq Nat /\ MaxPushes \in Nat
    /\ NoCommit \notin Commits /\ NoRef \notin Names \cup Commits
    /\ Names \cap Commits = {}    \* git ignores a name that looks like a commit

(* spec.source.git.ref: empty, a name, or a commit. *)
Refs == {NoRef} \cup Names \cup Commits

VARIABLES
    repo,        \* remote, reference asked for and clone, or NoCommit: none of interest
    commit,      \* the commit that is checked out
    named        \* history: what the reference stood for at the remote since the load began

revisionVars == <<repo, commit, named>>

Pointers == [Names -> Commits \cup {NoCommit}]
Remotes == {r \in [branches : Pointers, tags : Pointers] : r.branches[Main] # NoCommit}

(* The commits a full clone of references brings along. *)
History(tips) == {c \in Commits : \E tip \in tips \ {NoCommit} : c <= tip}
RemoteTips(r) == {r.branches[n] : n \in Names} \cup {r.tags[n] : n \in Names}

-----------------------------------------------------------------------------
(* PlainCloneContext: all tags, all branches as origin/..., and the        *)
(* default branch, checked out.                                            *)
Cloned(r) == [tags |-> r.tags, heads |-> [n \in {Main} |-> r.branches[n]], origin |-> r.branches]

Objects(c) == History({c.tags[n] : n \in Names} \cup {c.origin[n] : n \in Names})

(* go-git's ResolveRevision of a plain name: a commit, then a tag, then a  *)
(* local branch.                                                           *)
ResolveLocal(c, name) ==
    CASE name \in Commits -> IF name \in Objects(c) THEN name ELSE NoCommit
      [] name \in Names /\ c.tags[name] # NoCommit -> c.tags[name]
      [] name \in DOMAIN c.heads /\ c.tags[name] = NoCommit -> c.heads[name]
      [] OTHER -> NoCommit

ResolveOrigin(c, name) == IF name \in Names THEN c.origin[name] ELSE NoCommit

(* Bug: no second attempt, so that only the default branch has a name. *)
ResolveRevision_LocalOnly(c, name) == ResolveLocal(c, name)

ResolveRevision(c, name) ==
    IF ResolveLocal(c, name) # NoCommit THEN ResolveLocal(c, name) ELSE ResolveOrigin(c, name)

-----------------------------------------------------------------------------
(* What a reference stands for at the remote, by the words of its field:   *)
(* "the branch, tag, or commit to check out".  A tag and a branch of one   *)
(* name are told apart as git does, in favour of the tag.                  *)
StandsFor(r, name) ==
    CASE name = NoRef -> r.branches[Main]
      [] name \in Commits -> IF name \in History(RemoteTips(r)) THEN name ELSE NoCommit
      [] name \in Names -> IF r.tags[name] # NoCommit THEN r.tags[name] ELSE r.branches[name]

OpenRepo ==
    /\ \E r \in Remotes, ref \in Refs :
          /\ repo' = [remote |-> r, ref |-> ref, clone |-> NoCommit, pushes |-> 0]
          /\ named' = {StandsFor(r, ref)}
    /\ UNCHANGED commit

(* Somebody pushes, by force perhaps, or deletes. *)
Push ==
    /\ repo.pushes < MaxPushes
    /\ \E r \in Remotes \ {repo.remote} :
          /\ repo' = [repo EXCEPT !.remote = r, !.pushes = @ + 1]
          /\ named' = named \cup {StandsFor(r, repo.ref)}
    /\ UNCHANGED commit

CloneRemote ==
    /\ repo.clone = NoCommit
    /\ repo' = [repo EXCEPT !.clone = Cloned(repo.remote)]
    /\ UNCHANGED <<commit, named>>

CloneFails ==
    /\ repo.clone = NoCommit
    /\ repo' = NoCommit /\ named' = {}
    /\ UNCHANGED commit

Resolved ==
    IF repo.ref = NoRef THEN repo.clone.heads[Main] ELSE ResolveRevision(repo.clone, repo.ref)

(* Bug: an error of resolveRevision is dropped. *)
CheckOut_Unresolved ==
    /\ repo.clone # NoCommit
    /\ commit' = Resolved /\ repo' = NoCommit
    /\ UNCHANGED named

(* resolveRevision and Checkout; without a reference the default branch is *)
(* checked out already.                                                    *)
CheckOut ==
    /\ repo.clone # NoCommit /\ Resolved # NoCommit
    /\ commit' = Resolved /\ repo' = NoCommit
    /\ UNCHANGED named

RefuseRevision ==
    /\ repo.clone # NoCommit /\ Resolved = NoCommit
    /\ repo' = NoCommit
    /\ UNCHANGED <<commit, named>>

(* The worktree cannot be opened, or the commit not written to it. *)
CheckOutFails ==
    /\ repo.clone # NoCommit /\ repo.ref # NoRef /\ Resolved # NoCommit
    /\ repo' = NoCommit /\ named' = {}
    /\ UNCHANGED commit

=============================================================================
