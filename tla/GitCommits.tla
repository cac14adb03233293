----------------------------- MODULE GitCommits -----------------------------
(***************************************************************************)
(* Commits in crates/schomburg-connector-git: the event that is made of    *)
(* one, and what the presenter reads out of the raw object when it shows   *)
(* the event, which Git itself has not checked.                            *)
(*                                                                         *)
(* A raw commit is a list of headers and, after an empty line, a message   *)
(* (a list of lines).  The value of a header is a list of words; " <" and  *)
(* "> ", which divide an identity, are words of their own.  No value has a *)
(* "> " behind its time zone.                                              *)
(***************************************************************************)
EXTENDS Integers, Sequences

\* CONNECTOR_ID and EVENT_KIND.
GitConnector == "schomburg.git"
CommitKind == "git.commit"

Open == " <"
Close == "> "

\* The words that are an i64 SystemTime can hold.
IsSeconds(word) == word \in {"0", "5", "-5"}

RequiredMetadata ==
  {"git.repository_display_name", "git.repository_reference", "git.commit_hash"}

-----------------------------------------------------------------------------

\* event_for_commit, unless the object database cannot give the commit.
EventForCommit(repository, commit) ==
  IF ~commit.readable THEN {}
  ELSE {[id |-> <<repository.reference, commit.hash>>,
         connector |-> GitConnector, kind |-> CommitKind, raw |-> commit.raw,
         metadata |-> [key \in RequiredMetadata |->
           CASE key = "git.commit_hash" -> commit.hash
             [] key = "git.repository_reference" -> repository.reference
             [] OTHER -> repository.name]]}

Positions(value, word) == {i \in DOMAIN value : value[i] = word}
FirstOf(S) == CHOOSE i \in S : \A j \in S : i <= j
LastOf(S) == CHOOSE i \in S : \A j \in S : j <= i
From(value, i) == SubSeq(value, i, Len(value))

\* Mutant: the name ends at the first " <".
ParseIdentityFirst(value) ==
  LET opens == Positions(value, Open)
      suffix == From(value, FirstOf(opens) + 1)
      closes == Positions(suffix, Close)
      stamp == From(suffix, FirstOf(closes) + 1)
  IN  IF opens = {} \/ closes = {} THEN {}
      ELSE IF Len(stamp) # 2 \/ ~IsSeconds(stamp[1]) THEN {}
      ELSE {[name |-> SubSeq(value, 1, FirstOf(opens) - 1),
             email |-> SubSeq(suffix, 1, FirstOf(closes) - 1),
             seconds |-> stamp[1], timezone |-> stamp[2]]}

\* parse_identity: the last " <", the first "> " after it, two words.
ParseIdentity(value) ==
  LET opens == Positions(value, Open)
      suffix == From(value, LastOf(opens) + 1)
      closes == Positions(suffix, Close)
      stamp == From(suffix, FirstOf(closes) + 1)
  IN  IF opens = {} \/ closes = {} THEN {}
      ELSE IF Len(stamp) # 2 \/ ~IsSeconds(stamp[1]) THEN {}
      ELSE {[name |-> SubSeq(value, 1, LastOf(opens) - 1),
             email |-> SubSeq(suffix, 1, FirstOf(closes) - 1),
             seconds |-> stamp[1], timezone |-> stamp[2]]}

\* parse_git_commit.  Of several authors or committers the last counts, but
\* none may be malformed.  The values of a header keep the places they have.
ParseCommit(event) ==
  LET raw == event.raw
      Places(key) == {i \in DOMAIN raw.headers : raw.headers[i].key = key}
      Values(key) == [i \in Places(key) |-> raw.headers[i].value]
      Identities(key) == [i \in Places(key) |-> ParseIdentity(Values(key)[i])]
      Person(key) == CHOOSE p \in Identities(key)[LastOf(Places(key))] : TRUE
      acceptable ==
        /\ event.connector = GitConnector /\ event.kind = CommitKind
        /\ RequiredMetadata \subseteq DOMAIN event.metadata
        /\ raw.utf8 /\ raw.separated
        /\ \A key \in {"author", "committer"} :
             /\ Places(key) # {}
             /\ \A i \in Places(key) : Identities(key)[i] # {}
  IN  IF ~acceptable THEN {}
      ELSE {[repository |-> event.metadata["git.repository_display_name"],
             reference |-> event.metadata["git.repository_reference"],
             hash |-> event.metadata["git.commit_hash"],
             parents |-> Values("parent"),
             author |-> Person("author"), committer |-> Person("committer"),
             subject |-> IF raw.message = <<>> THEN "" ELSE raw.message[1],
             message |-> raw.message]}

\* present_compact and present_detailed.
PresentCompact(event) ==
  {[source |-> "Git", title |-> c.subject, subtitle |-> c.repository,
    identifiers |-> [Commit |-> c.hash]] : c \in ParseCommit(event)}
PresentDetailed(event) ==
  {[title |-> c.subject, fields |-> c, raw |-> event.raw] : c \in ParseCommit(event)}
=============================================================================
