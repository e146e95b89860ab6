---------------------------- MODULE AttachService ----------------------------
(***************************************************************************)
(* What the controller promises about attaching and detaching, without     *)
(* loops, attachment IDs or polling: every node is a server of its own     *)
(* that works on one call at a time; a volume has at most one link; and    *)
(* the answer of a call is decided at one moment, while the call still     *)
(* owns its node, at which it is true of the links.                        *)
(*                                                                         *)
(* The two things the promise cannot cover are steps of their own: a       *)
(* request that the caller gave up but the backend still carries out       *)
(* (Abandon..., Late...), and a failed read that is taken for the absence  *)
(* of a link (Misread).                                                    *)
(***************************************************************************)
CONSTANTS Nodes, Volumes, Calls, NoCall

VARIABLES
  req,         (* what each call asks for: operation, volume, node         *)
  owner,       (* the call each node works on                              *)
  answer,      (* what each call has decided to answer                     *)
  links,       (* << <<volume, node>>, status >> of every attachment       *)
  abandoned,   (* <<volume, node>> of attach requests given up             *)
  doomed,      (* volumes whose link has a detach request given up         *)
  blind        (* calls that took a failed read for absence                *)

vars == <<req, owner, answer, links, abandoned, doomed, blind>>

Pair(c) == <<req[c].vol, req[c].node>>

Owns(c) == owner[req[c].node] = c

(* A call that owns its node and has not decided yet.                      *)
Working(c, op) == Owns(c) /\ answer[c] = "none" /\ req[c].op = op

Linked(p) == \E s \in {"attaching", "attached", "detaching"} : <<p, s>> \in links

Free(v) == \A n \in Nodes : ~Linked(<<v, n>>)

Decide(c, r) == answer' = [answer EXCEPT ![c] = r]

(* The links after the one of p went from status s to status t.            *)
Moved(p, s, t) == (links \ {<<p, s>>}) \cup {<<p, t>>}

Init ==
  /\ req \in [Calls -> [op : {"publish", "unpublish"}, vol : Volumes, node : Nodes]]
  /\ owner = [n \in Nodes |-> NoCall]
  /\ answer = [c \in Calls |-> "none"]
  /\ links = {}
  /\ abandoned = {}
  /\ doomed = {}
  /\ blind = {}

Start(c) ==
  /\ answer[c] = "none"
  /\ owner[req[c].node] = NoCall
  /\ owner' = [owner EXCEPT ![req[c].node] = c]
  /\ UNCHANGED <<req, answer, links, abandoned, doomed, blind>>

(* An error may be decided at any time, with or without the node.          *)
Fail(c) ==
  /\ answer[c] = "none"
  /\ Decide(c, "error")
  /\ UNCHANGED <<req, owner, links, abandoned, doomed, blind>>

Attach(c) ==
  /\ Working(c, "publish")
  /\ Free(req[c].vol)
  /\ links' = links \cup {<<Pair(c), "attaching">>}
  /\ UNCHANGED <<req, owner, answer, abandoned, doomed, blind>>

Detach(c) ==
  /\ Working(c, "unpublish")
  /\ \E s \in {"attaching", "attached"} :
       /\ <<Pair(c), s>> \in links
       /\ links' = Moved(Pair(c), s, "detaching")
  /\ UNCHANGED <<req, owner, answer, abandoned, doomed, blind>>

(* OK to a publish: attached now.  OK to an unpublish: no link now.        *)
Succeed(c) ==
  /\ \/ Working(c, "publish") /\ <<Pair(c), "attached">> \in links
     \/ Working(c, "unpublish") /\ ~Linked(Pair(c))
  /\ Decide(c, "ok")
  /\ UNCHANGED <<req, owner, links, abandoned, doomed, blind>>

Misread(c) ==
  /\ Working(c, "unpublish")
  /\ blind' = blind \cup {c}
  /\ Decide(c, "ok") \/ UNCHANGED answer
  /\ UNCHANGED <<req, owner, links, abandoned, doomed>>

AbandonAttach(c) ==
  /\ Working(c, "publish")
  /\ abandoned' = abandoned \cup {Pair(c)}
  /\ Decide(c, "error") \/ UNCHANGED answer
  /\ UNCHANGED <<req, owner, links, doomed, blind>>

AbandonDetach(c) ==
  /\ Working(c, "unpublish")
  /\ Linked(Pair(c))
  /\ doomed' = doomed \cup {req[c].vol}
  /\ Decide(c, "error") \/ UNCHANGED answer
  /\ UNCHANGED <<req, owner, links, abandoned, blind>>

Release(c) ==
  /\ Owns(c)
  /\ answer[c] # "none"
  /\ owner' = [owner EXCEPT ![req[c].node] = NoCall]
  /\ UNCHANGED <<req, answer, links, abandoned, doomed, blind>>

Settle(p) ==
  /\ \/ /\ <<p, "attaching">> \in links
        /\ links' = Moved(p, "attaching", "attached")
        /\ UNCHANGED doomed
     \/ /\ <<p, "detaching">> \in links
        /\ links' = links \ {<<p, "detaching">>}
        /\ doomed' = doomed \ {p[1]}
  /\ UNCHANGED <<req, owner, answer, abandoned, blind>>

LateAttach(p) ==
  /\ p \in abandoned
  /\ abandoned' = abandoned \ {p}
  /\ \/ Free(p[1]) /\ links' = links \cup {<<p, "attaching">>}
     \/ UNCHANGED links
  /\ UNCHANGED <<req, owner, answer, doomed, blind>>

(* It reaches the link it was sent for or none: a later link of the same   *)
(* volume is not doomed.                                                   *)
LateDetach(p) ==
  /\ p[1] \in doomed
  /\ \E s \in {"attaching", "attached"} :
       /\ <<p, s>> \in links
       /\ links' = Moved(p, s, "detaching")
  /\ UNCHANGED <<req, owner, answer, abandoned, doomed, blind>>

(* The process ends: what was decided or sent stays, every node is free.   *)
Crash ==
  /\ owner' = [n \in Nodes |-> NoCall]
  /\ UNCHANGED <<req, answer, links, abandoned, doomed, blind>>

Next ==
  \/ \E c \in Calls :
       \/ Start(c) \/ Fail(c) \/ Attach(c) \/ Detach(c) \/ Succeed(c) \/ Misread(c)
       \/ AbandonAttach(c) \/ AbandonDetach(c) \/ Release(c)
  \/ \E p \in Volumes \X Nodes : Settle(p) \/ LateAttach(p) \/ LateDetach(p)
  \/ Crash

Spec == Init /\ [][Next]_vars

=============================================================================
