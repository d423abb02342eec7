--------------------------- MODULE ReleaseNotice ---------------------------
(***************************************************************************)
(* What the release scan promises to subscribers, however often a release  *)
(* is announced and its event retried, and whatever they do meanwhile:     *)
(*   - a release is mailed to users who were ACTIVE at some time between   *)
(*     its announcement and the end of its event, and to nobody else;      *)
(*   - the first tag seen of a repository is mailed to nobody;             *)
(*   - an event is handled only when everybody who was ACTIVE at the       *)
(*     announcement and stayed so has a mail for it.                       *)
(* It does not promise that events are handled in order, nor that each is. *)
(***************************************************************************)
CONSTANTS Repo, User, Tag,  \* as in ReleaseScan
          None,             \* null
          Id                \* the announcements

VARIABLES
  subscribed,  \* Repo -> the users whose subscription is ACTIVE
  notice,      \* Id -> an announcement
  mails,       \* who was mailed which release: repository, user and tag
  entitled     \* the mails that would be to somebody who was ACTIVE while it was open

vars == <<subscribed, notice, mails, entitled>>

(* first: the repository was seen for the first time; owed: who was ACTIVE *)
(* then and stayed so.                                                     *)
NoticeRecord ==
  [fate: {"none", "open", "handled", "dropped"},
   repo: Repo \cup {None}, tag: Tag \cup {None}, first: BOOLEAN,
   owed: SUBSET User]

TypeOK ==
  /\ subscribed \in [Repo -> SUBSET User]
  /\ notice \in [Id -> NoticeRecord]
  /\ mails \subseteq Repo \X User \X Tag
  /\ entitled \subseteq Repo \X User \X Tag

NoNotice == [fate |-> "none", repo |-> None, tag |-> None, first |-> TRUE, owed |-> {}]

Init ==
  /\ subscribed = [n \in Repo |-> {}]
  /\ notice = [i \in Id |-> NoNotice]
  /\ mails = {}
  /\ entitled = {}

MailFor(i, u) == <<notice[i].repo, u, notice[i].tag>>

Confirm(n, u) ==
  /\ subscribed' = [subscribed EXCEPT ![n] = @ \cup {u}]
  /\ entitled' = entitled \cup
       {MailFor(i, u) : i \in {j \in Id : /\ notice[j].repo = n /\ notice[j].fate = "open"
                                         /\ ~notice[j].first}}
  /\ UNCHANGED <<notice, mails>>

Cancel(n, u) ==
  /\ subscribed' = [subscribed EXCEPT ![n] = @ \ {u}]
  /\ notice' = [i \in Id |->
       IF notice[i].repo = n /\ notice[i].fate # "handled"
       THEN [notice[i] EXCEPT !.owed = @ \ {u}] ELSE notice[i]]
  /\ UNCHANGED <<mails, entitled>>

Announce(i, n, t, first) ==
  /\ notice[i].fate = "none"
  /\ notice' = [notice EXCEPT ![i] =
       [fate |-> "open", repo |-> n, tag |-> t, first |-> first, owed |-> subscribed[n]]]
  /\ entitled' = IF first THEN entitled ELSE entitled \cup {<<n, u, t>> : u \in subscribed[n]}
  /\ UNCHANGED <<subscribed, mails>>

(* Again, perhaps: a mail for this release that exists is not sent twice.  *)
Mail(i) ==
  /\ notice[i].fate = "open"
  /\ ~notice[i].first
  /\ \E users \in SUBSET User :
       /\ \A u \in users : MailFor(i, u) \in entitled
       /\ mails' = mails \cup {MailFor(i, u) : u \in users}
  /\ UNCHANGED <<subscribed, notice, entitled>>

Handle(i) ==
  /\ notice[i].fate = "open"
  /\ notice[i].first \/ \A u \in notice[i].owed : MailFor(i, u) \in mails
  /\ notice' = [notice EXCEPT ![i].fate = "handled"]
  /\ UNCHANGED <<subscribed, mails, entitled>>

(* Its event is given up.                                                  *)
Drop(i) ==
  /\ notice[i].fate = "open"
  /\ notice' = [notice EXCEPT ![i].fate = "dropped"]
  /\ UNCHANGED <<subscribed, mails, entitled>>

Next ==
  \/ \E n \in Repo, u \in User : Confirm(n, u) \/ Cancel(n, u)
  \/ \E i \in Id : \/ Mail(i) \/ Handle(i) \/ Drop(i)
                   \/ \E n \in Repo, t \in Tag, first \in BOOLEAN : Announce(i, n, t, first)

Spec == Init /\ [][Next]_vars

(* Nobody is mailed a release who was not ACTIVE while it was announced.   *)
MailsOnlyEntitled == mails \subseteq entitled
=============================================================================
