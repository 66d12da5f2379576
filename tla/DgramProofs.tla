---------------------------- MODULE DgramProofs -----------------------------
(***************************************************************************)
(* For any number of peers, addresses and datagrams: the owner of an open  *)
(* peer keeps its address, and the registration of the parent socket ends  *)
(* up as the last call of pause and resume says.                           *)
(*                                                                         *)
(* An entry of the map is overwritten only when it is empty and erased     *)
(* only when its peer is not open, so OpenPeerIsClaimed needs little more  *)
(* than that what is claimed has an address.  PauseSettles speaks of the   *)
(* end; the invariant says of every moment that the last post about the    *)
(* registration on its way, or the registration if there is none, agrees   *)
(* with the flags.                                                         *)
(***************************************************************************)
EXTENDS Dgram, TLAPS

Lives == {"new", "claiming", "refused", "claimed", "open", "closing", "closed"}
Ops == {"add", "pause", "resume", "claim", "addPeer"}
Interest == {"add", "pause", "resume"}

PeerTypes ==
    peer \in [Peers -> [addr : Addrs \cup {None}, life : Lives, cb : BOOLEAN,
                        fd : Fds \cup {None}]]

Types ==
    /\ PeerTypes
    /\ claimed \in [Addrs -> Peers \cup {None}]
    /\ posts \in Seq([op : Ops, peer : Peers \cup {None}])
    /\ {armed, paused, registered} \subseteq BOOLEAN

\* Only a peer with an address is claimed.
ClaimsHaveAddress ==
    \A i \in 1..Len(posts) :
        posts[i].op = "claim" => posts[i].peer \in Peers /\ peer[posts[i].peer].addr \in Addrs

\* Post i is the last one about the registration of the parent socket.
LastInterest(i) ==
    /\ posts[i].op \in Interest
    /\ \A j \in 1..Len(posts) : j > i => posts[j].op \notin Interest

\* It will leave the registration as the flags say.
PostsAgree ==
    /\ \A i \in 1..Len(posts) :
          LastInterest(i) => (posts[i].op # "pause") = (armed /\ ~paused)
    /\ ~armed => ~paused

\* The inductive invariant.
IInv == Types /\ ClaimsHaveAddress /\ OpenPeerIsClaimed /\ PostsAgree /\ PauseSettles

-----------------------------------------------------------------------------
\* Nothing is claimed or posted at first.
LEMMA InitEstablishes == Init => IInv
  <1>. SUFFICES ASSUME Init PROVE IInv
    OBVIOUS
  <1>1. PeerTypes
    <2>1. limits.addr \in [Peers -> Addrs \cup {None}]
      BY DgramAssumption DEF Init
    <2>. QED  BY <2>1 DEF Init, PeerTypes, Lives
  <1>2. Types
    <2>1. <<>> \in Seq([op : Ops, peer : Peers \cup {None}])
      OBVIOUS
    <2>. QED  BY <1>1, <2>1, ZenonT(60) DEF Init, Types
  <1>3. \A p \in Peers : peer[p].life = "new"
    BY DEF Init
  <1>4. Len(posts) = 0 /\ ~armed /\ ~paused /\ ~registered
    BY DEF Init
  <1>5. ClaimsHaveAddress /\ PostsAgree
    BY <1>4 DEF ClaimsHaveAddress, PostsAgree
  <1>6. OpenPeerIsClaimed
    BY <1>3 DEF OpenPeerIsClaimed
  <1>7. PauseSettles
    BY <1>4, <1>2, ZenonT(60) DEF PauseSettles, Init
  <1>. QED  BY <1>2, <1>5, <1>6, <1>7, SMTT(60) DEF IInv

\* A post about the registration agrees with the flags as they are left.
LEMMA InterestPosted ==
    ASSUME Types, PostsAgree, NEW op \in Interest, posts' = Append(posts, Call(op, None)),
           armed' = TRUE, paused' \in BOOLEAN, (op # "pause") = ~paused'
    PROVE  /\ posts' \in Seq([op : Ops, peer : Peers \cup {None}])
           /\ PostsAgree' /\ PauseSettles'
  <1>1. Call(op, None) \in [op : Ops, peer : Peers \cup {None}] /\ Call(op, None).op = op
    BY DEF Call, Ops, Interest
  <1>2. /\ posts' \in Seq([op : Ops, peer : Peers \cup {None}])
        /\ Len(posts) \in Nat /\ Len(posts') = Len(posts) + 1
        /\ posts'[Len(posts) + 1].op = op
    BY <1>1 DEF Types
  <1>3. ASSUME NEW i \in 1..Len(posts'), LastInterest(i)'
        PROVE  i = Len(posts) + 1
    BY <1>2, <1>3 DEF LastInterest
  <1>4. PostsAgree'
    BY <1>2, <1>3 DEF PostsAgree
  <1>5. PauseSettles'
    <2>1. Len(posts) + 1 \in 1..Len(posts')
      BY <1>2
    <2>. QED  BY <1>2, <2>1 DEF PauseSettles, Interest
  <1>. QED  BY <1>2, <1>4, <1>5, SMTT(60)

\* Another post changes nothing about the registration.
LEMMA OtherPosted ==
    ASSUME Types, PostsAgree, PauseSettles, NEW op \in Ops \ Interest, NEW p \in Peers,
           posts' = Append(posts, Call(op, p)), UNCHANGED <<armed, paused, registered>>
    PROVE  /\ posts' \in Seq([op : Ops, peer : Peers \cup {None}])
           /\ PostsAgree' /\ PauseSettles'
  <1>1. /\ Call(op, p) \in [op : Ops, peer : Peers \cup {None}]
        /\ Call(op, p).op = op
    BY DEF Call
  <1>2. /\ posts' \in Seq([op : Ops, peer : Peers \cup {None}])
        /\ Len(posts) \in Nat /\ Len(posts') = Len(posts) + 1
        /\ posts'[Len(posts) + 1].op = op
        /\ \A i \in 1..Len(posts) : posts'[i] = posts[i]
    BY <1>1 DEF Types
  <1>3. ASSUME NEW i \in 1..Len(posts'), LastInterest(i)'
        PROVE  i \in 1..Len(posts) /\ LastInterest(i) /\ posts'[i] = posts[i]
    <2>1. i # Len(posts) + 1
      BY <1>2, <1>3 DEF LastInterest
    <2>2. i \in 1..Len(posts)
      BY <1>2, <2>1
    <2>3. \A j \in 1..Len(posts) : j \in 1..Len(posts')
      BY <1>2
    <2>. QED  BY <1>2, <1>3, <2>2, <2>3, SMTT(60) DEF LastInterest
  <1>4. PostsAgree'
    BY <1>3 DEF PostsAgree
  <1>5. PauseSettles'
    <2>1. \A j \in 1..Len(posts) : j \in 1..Len(posts')
      BY <1>2
    <2>. QED  BY <1>2, <2>1 DEF PauseSettles
  <1>. QED  BY <1>2, <1>4, <1>5, SMTT(60)

\* What executing the first post leaves.
LEMMA PostTaken ==
    ASSUME Types, NEW op, NEW p, Executes(op, p)
    PROVE  /\ posts' \in Seq([op : Ops, peer : Peers \cup {None}])
           /\ Len(posts) \in Nat \ {0} /\ Len(posts') = Len(posts) - 1
           /\ posts[1] = Call(op, p) /\ posts[1].op = op /\ posts[1].peer = p
           /\ \A i \in 1..Len(posts') : posts'[i] = posts[i + 1]
  BY DEF Types, Executes, Call

\* The last post about the registration stays the last.
LEMMA LastStays ==
    ASSUME Types, NEW op, NEW p, Executes(op, p), NEW i \in 1..Len(posts'), LastInterest(i)'
    PROVE  i + 1 \in 1..Len(posts) /\ LastInterest(i + 1) /\ posts'[i] = posts[i + 1]
  <1>1. i + 1 \in 1..Len(posts) /\ posts'[i] = posts[i + 1]
    BY PostTaken
  <1>2. ASSUME NEW j \in 1..Len(posts), j > i + 1
        PROVE  posts[j].op \notin Interest
    <2>1. j - 1 \in 1..Len(posts') /\ j - 1 > i /\ posts'[j - 1] = posts[j]
      BY <1>2, PostTaken
    <2>. QED  BY <2>1 DEF LastInterest
  <1>. QED  BY <1>1, <1>2 DEF LastInterest

\* on_data, pause and resume, by the thread that controls the handle.
LEMMA HandlePreserves ==
    ASSUME IInv, (\E m \in {"single", "batch"} : OnData(m)) \/ Pause \/ Resume
    PROVE  IInv'
  <1>. USE DEF IInv
  <1>1. UNCHANGED <<peer, claimed, registered>>
    BY DEF OnData, Pause, Resume, peerVars
  <1>2. CASE UNCHANGED <<posts, armed, paused>>
    BY <1>1, <1>2, SMTT(60) DEF Types, PeerTypes, ClaimsHaveAddress, OpenPeerIsClaimed, PostsAgree,
                      LastInterest, PauseSettles
  <1>3. ASSUME NEW op \in Interest, posts' = Append(posts, Call(op, None)), armed' = TRUE,
               paused' \in BOOLEAN, (op # "pause") = ~paused'
        PROVE  IInv'
    <2>1. /\ posts' \in Seq([op : Ops, peer : Peers \cup {None}])
          /\ PostsAgree' /\ PauseSettles'
      BY <1>3, InterestPosted, ZenonT(60)
    <2>2. Types' /\ OpenPeerIsClaimed'
      BY <1>1, <1>3, <2>1, SMTT(60) DEF Types, PeerTypes, OpenPeerIsClaimed
    <2>3. ClaimsHaveAddress'
      <3>1. op # "claim" /\ Call(op, None).op = op
        BY DEF Interest, Call
      <3>. QED  BY <1>1, <1>3, <3>1 DEF ClaimsHaveAddress, Types
    <2>. QED  BY <2>1, <2>2, <2>3, SMTT(60)
  <1>4. CASE \E m \in {"single", "batch"} : OnData(m)
    <2>1. CASE armed
      BY <1>2, <1>4, <2>1, SMTT(60) DEF OnData
    <2>2. CASE ~armed
      <3>1. "add" \in Interest /\ ("add" # "pause") = ~paused /\ paused \in BOOLEAN
        BY <2>2 DEF Interest, PostsAgree, Types
      <3>. QED  BY <1>3, <1>4, <2>2, <3>1, SMTT(60) DEF OnData, Post
    <2>. QED  BY <2>1, <2>2, SMTT(60)
  <1>5. CASE Pause
    <2>1. "pause" \in Interest /\ paused' = TRUE /\ armed' = TRUE
      BY <1>5 DEF Pause, Interest, Types
    <2>. QED  BY <1>3, <1>5, <2>1, SMTT(60) DEF Pause, Post
  <1>6. CASE Resume
    <2>1. "resume" \in Interest /\ paused' = FALSE /\ armed' = TRUE
      BY <1>6, SMTT(60) DEF Resume, Interest, Types
    <2>. QED  BY <1>3, <1>6, <2>1, ZenonT(60) DEF Resume, Post
  <1>. QED  BY <1>4, <1>5, <1>6, SMTT(60)

\* Claiming and relinquishing, by the owners of peers.
LEMMA OwnersPreserves ==
    ASSUME IInv, NEW p \in Peers, Owners(p)
    PROVE  IInv'
  <1>. USE DEF IInv
  <1>1. UNCHANGED <<armed, paused, registered, claimed>>
    BY DEF Owners, Claim, ClaimReturns, PeerOnData, Relinquish, RelinquishCloses, handleVars
  <1>2. /\ PeerTypes'
        /\ \A q \in Peers : peer'[q].addr = peer[q].addr
        /\ \A q \in Peers : peer'[q].life \in {"claimed", "open"} =>
                                peer[q].life \in {"claimed", "open"}
    <2>1. ASSUME NEW l \in Lives, peer' = [peer EXCEPT ![p].life = l],
                 l = "open" => peer[p].life = "claimed", l # "claimed"
          PROVE  /\ PeerTypes'
                 /\ \A q \in Peers : peer'[q].addr = peer[q].addr
                 /\ \A q \in Peers : peer'[q].life \in {"claimed", "open"} =>
                                         peer[q].life \in {"claimed", "open"}
      BY <2>1 DEF Types, PeerTypes
    <2>2. CASE PeerOnData(p)
      BY <2>2, ZenonT(60) DEF PeerOnData, Types, PeerTypes
    <2>3. CASE Claim(p) \/ ClaimReturns(p) \/ Relinquish(p) \/ RelinquishCloses(p)
      BY <2>1, <2>3, SMTT(60) DEF Claim, ClaimReturns, Relinquish, RelinquishCloses, Lives
    <2>. QED  BY <2>2, <2>3 DEF Owners
  <1>3. OpenPeerIsClaimed'
    BY <1>1, <1>2, SMTT(60) DEF OpenPeerIsClaimed
  <1>4. CASE posts' = posts
    <2>1. ClaimsHaveAddress'
      BY <1>2, <1>4, SMTT(60) DEF ClaimsHaveAddress
    <2>. QED  BY <1>1, <1>2, <1>3, <1>4, <2>1, SMTT(60)
              DEF Types, PostsAgree, LastInterest, PauseSettles
  <1>5. ASSUME NEW op \in {"claim", "addPeer"}, posts' = Append(posts, Call(op, p)),
               op = "claim" => peer[p].addr # None
        PROVE  IInv'
    <2>1. op \in Ops \ Interest
      BY DEF Ops, Interest
    <2>2. /\ posts' \in Seq([op : Ops, peer : Peers \cup {None}])
          /\ PostsAgree' /\ PauseSettles'
      BY <1>1, <1>5, <2>1, OtherPosted, ZenonT(60)
    <2>3. op = "claim" => peer[p].addr \in Addrs
      BY <1>5 DEF Types, PeerTypes
    <2>4. ClaimsHaveAddress'
      <3>1. Call(op, p).op = op /\ Call(op, p).peer = p
        BY DEF Call
      <3>2. /\ Len(posts) \in Nat /\ Len(posts') = Len(posts) + 1
            /\ posts'[Len(posts) + 1] = Call(op, p)
            /\ \A i \in 1..Len(posts) : posts'[i] = posts[i]
        BY <1>5, <2>2, SMTT(60) DEF Types
      <3>. QED  BY <1>2, <2>3, <3>1, <3>2, SMTT(60) DEF ClaimsHaveAddress
    <2>. QED  BY <1>1, <1>2, <1>3, <2>2, <2>4, SMTT(60) DEF Types
  <1>. QED  BY <1>4, <1>5, SMTT(60)
            DEF Owners, Claim, ClaimReturns, PeerOnData, Relinquish, RelinquishCloses, Post

\* The claims still posted have an address, whichever post was executed.
LEMMA ClaimsStay ==
    ASSUME IInv, NEW op, NEW p, Executes(op, p),
           \A q \in Peers : peer'[q].addr = peer[q].addr
    PROVE  ClaimsHaveAddress'
  <1>. SUFFICES ASSUME NEW i \in 1..Len(posts'), posts'[i].op = "claim"
                PROVE  posts'[i].peer \in Peers /\ peer'[posts'[i].peer].addr \in Addrs
    BY DEF ClaimsHaveAddress
  <1>1. i + 1 \in 1..Len(posts) /\ posts'[i] = posts[i + 1]
    BY PostTaken DEF IInv
  <1>. QED  BY <1>1 DEF IInv, ClaimsHaveAddress

\* add and remove of the parent socket: the last one leaves it as the flags say.
LEMMA InterestPreserves ==
    ASSUME IInv, NEW op \in Interest, ExecuteInterest(op)
    PROVE  IInv'
  <1>. USE DEF IInv
  <1>1. /\ Executes(op, None) /\ registered' = (op # "pause")
        /\ UNCHANGED <<armed, paused, peer, claimed>>
    BY SMTT(60) DEF ExecuteInterest, Executes, handleVars, peerVars
  <1>2. Types' /\ OpenPeerIsClaimed'
    BY <1>1, PostTaken, SMTT(60) DEF Types, PeerTypes, OpenPeerIsClaimed
  <1>3. ClaimsHaveAddress'
    BY <1>1, ClaimsStay, SMTT(60)
  <1>4. PostsAgree'
    BY <1>1, LastStays, SMTT(60) DEF PostsAgree
  <1>5. PauseSettles'
    <2>. SUFFICES ASSUME \A i \in 1..Len(posts') : posts'[i].op \notin Interest
                  PROVE  registered' = (armed' /\ ~paused')
      BY DEF PauseSettles, Interest
    <2>1. posts[1].op = op /\ 1 \in 1..Len(posts)
      BY <1>1, PostTaken
    <2>2. ASSUME NEW j \in 1..Len(posts), j > 1
          PROVE  posts[j].op \notin Interest
      <3>1. j - 1 \in 1..Len(posts') /\ posts'[j - 1] = posts[j]
        BY <1>1, <2>2, PostTaken, SMTT(60)
      <3>. QED  BY <3>1
    <2>3. LastInterest(1)
      BY <2>1, <2>2, SMTT(60) DEF LastInterest
    <2>4. (op # "pause") = (armed /\ ~paused)
      BY <2>1, <2>3, SMTT(60) DEF PostsAgree
    <2>. QED  BY <1>1, <2>4, SMTT(60)
  <1>. QED  BY <1>2, <1>3, <1>4, <1>5, SMTT(60)

\* execute_claim takes an entry only when it is empty; addPeer takes none.
LEMMA PeerPostPreserves ==
    ASSUME IInv, NEW p \in Peers, ExecuteClaim(p) \/ ExecuteAddPeer(p)
    PROVE  IInv'
  <1>. USE DEF IInv
  <1>1. PICK op \in {"claim", "addPeer"} :
            /\ Executes(op, p) /\ UNCHANGED <<armed, paused, registered>>
            /\ op = "claim" => ExecuteClaim(p)
            /\ op # "claim" => UNCHANGED <<peer, claimed>>
    BY DEF ExecuteClaim, ExecuteAddPeer, Executes, handleVars
  <1>2. posts' \in Seq([op : Ops, peer : Peers \cup {None}]) /\ op \notin Interest
    BY <1>1, PostTaken, ZenonT(60) DEF Interest
  <1>3. PostsAgree'
    BY <1>1, LastStays, SMTT(60) DEF PostsAgree
  <1>4. PauseSettles'
    <2>. SUFFICES ASSUME \A i \in 1..Len(posts') : posts'[i].op \notin Interest
                  PROVE  registered' = (armed' /\ ~paused')
      BY DEF PauseSettles, Interest
    <2>1. ASSUME NEW j \in 1..Len(posts)
          PROVE  posts[j].op \notin Interest
      <3>1. CASE j = 1
        BY <1>1, <1>2, <3>1, PostTaken, SMTT(60)
      <3>2. CASE j # 1
        <4>1. j - 1 \in 1..Len(posts') /\ posts'[j - 1] = posts[j]
          BY <1>1, <3>2, PostTaken, SMTT(60)
        <4>. QED  BY <4>1, SMTT(60)
      <3>. QED  BY <3>1, <3>2, SMTT(60)
    <2>. QED  BY <1>1, <2>1, SMTT(60) DEF PauseSettles, Interest
  <1>5. /\ PeerTypes' /\ claimed' \in [Addrs -> Peers \cup {None}]
        /\ \A q \in Peers : peer'[q].addr = peer[q].addr
        /\ OpenPeerIsClaimed'
    <2>1. CASE UNCHANGED <<peer, claimed>>
      BY <2>1, SMTT(60) DEF Types, PeerTypes, OpenPeerIsClaimed
    <2>2. CASE op = "claim"
      <3>1. peer[p].addr \in Addrs
        <4>1. posts[1].op = "claim" /\ posts[1].peer = p /\ 1 \in 1..Len(posts)
          BY <1>1, <2>2, PostTaken, SMTT(60)
        <4>. QED  BY <4>1, SMTT(60) DEF ClaimsHaveAddress
      <3>2. CASE peer' = [peer EXCEPT ![p].life = "refused"] /\ claimed' = claimed
        BY <3>2, SMTT(60) DEF Types, PeerTypes, Lives, OpenPeerIsClaimed
      <3>3. CASE /\ Claimable(peer[p].addr)
                 /\ claimed' = [claimed EXCEPT ![peer[p].addr] = p]
                 /\ \/ peer' = [peer EXCEPT ![p].life = "claimed"]
                    \/ \E fd \in Fds : peer' = [peer EXCEPT ![p].life = "claimed", ![p].fd = fd]
        <4>1. /\ PeerTypes' /\ claimed' \in [Addrs -> Peers \cup {None}]
              /\ \A q \in Peers : peer'[q].addr = peer[q].addr
              /\ \A q \in Peers \ {p} : peer'[q].life = peer[q].life
          <5>1. claimed' \in [Addrs -> Peers \cup {None}]
            BY <3>3, ZenonT(60) DEF Types
          <5>2. CASE peer' = [peer EXCEPT ![p].life = "claimed"]
            BY <5>1, <5>2 DEF Types, PeerTypes, Lives
          <5>3. CASE \E fd \in Fds : peer' = [peer EXCEPT ![p].life = "claimed", ![p].fd = fd]
            <6>1. PICK fd \in Fds : peer' = [peer EXCEPT ![p].life = "claimed", ![p].fd = fd]
              BY <5>3, ZenonT(60)
            <6>2. peer' = [peer EXCEPT ![p] = [peer[p] EXCEPT !.life = "claimed", !.fd = fd]]
              BY <6>1, ZenonT(60) DEF Types, PeerTypes
            <6>3. [peer[p] EXCEPT !.life = "claimed", !.fd = fd]
                    \in [addr : Addrs \cup {None}, life : Lives, cb : BOOLEAN,
                         fd : Fds \cup {None}]
              BY ZenonT(60) DEF Types, PeerTypes, Lives
            <6>. QED  BY <5>1, <6>2, <6>3 DEF Types, PeerTypes
          <5>. QED  BY <3>3, <5>2, <5>3, SMTT(60)
        <4>2. ASSUME NEW q \in Peers, peer'[q].life \in {"claimed", "open"}
              PROVE  claimed'[peer'[q].addr] = q
          <5>1. CASE q = p
            BY <3>1, <3>3, <4>1, <5>1, SMTT(60) DEF Types
          <5>2. CASE q # p
            <6>1. claimed[peer[q].addr] = q
              BY <4>1, <4>2, <5>2, SMTT(60) DEF OpenPeerIsClaimed
            <6>2. peer[q].addr # peer[p].addr
              BY <3>3, <6>1, DgramAssumption, SMTT(60) DEF Claimable
            <6>. QED  BY <3>3, <4>1, <6>1, <6>2, SMTT(60) DEF Types
          <5>. QED  BY <5>1, <5>2
        <4>. QED  BY <4>1, <4>2, SMTT(60) DEF OpenPeerIsClaimed
      <3>. QED  BY <1>1, <2>2, <3>2, <3>3, SMTT(60) DEF ExecuteClaim
    <2>. QED  BY <1>1, <2>1, <2>2, SMTT(60)
  <1>6. ClaimsHaveAddress'
    BY <1>1, <1>5, ClaimsStay, SMTT(60)
  <1>. QED  BY <1>1, <1>2, <1>3, <1>4, <1>5, <1>6, SMTT(60) DEF Types

\* The receive loop erases only the entry of a peer that is not open.
LEMMA KeepPreserves ==
    ASSUME IInv, Keep
    PROVE  IInv'
  <1>. USE DEF IInv
  <1>1. /\ UNCHANGED <<posts, armed, paused, registered, peer>>
        /\ claimed' = [claimed EXCEPT ![Entry.from] = None]
        /\ claimed[Entry.from] = None \/ ~IsOpen(claimed[Entry.from])
    BY DEF Keep, Unread, handleVars, LazyCleanup, Owner
  <1>2. claimed' \in [Addrs -> Peers \cup {None}]
    BY <1>1, ZenonT(60) DEF Types
  <1>3. OpenPeerIsClaimed'
    <2>. SUFFICES ASSUME NEW q \in Peers, peer[q].life \in {"claimed", "open"}
                  PROVE  claimed'[peer[q].addr] = q
      BY <1>1 DEF OpenPeerIsClaimed
    <2>1. claimed[peer[q].addr] = q
      BY DEF OpenPeerIsClaimed
    <2>2. peer[q].addr # Entry.from
      BY <1>1, <2>1, DgramAssumption, SMTT(60) DEF IsOpen
    <2>. QED  BY <1>1, <2>1, <2>2 DEF Types
  <1>. QED  BY <1>1, <1>2, <1>3, SMTT(60)
            DEF Types, PeerTypes, ClaimsHaveAddress, PostsAgree, LastInterest, PauseSettles

\* The other steps leave the peers, the map, the posts and the flags alone.
LEMMA RestPreserves ==
    ASSUME IInv, UNCHANGED <<posts, armed, paused, registered, peer, claimed>>
    PROVE  IInv'
  BY DEF IInv, Types, PeerTypes, ClaimsHaveAddress, OpenPeerIsClaimed, PostsAgree, LastInterest,
         PauseSettles

-----------------------------------------------------------------------------
(* Theorems *)

\* Every reachable state of the handle satisfies the inductive invariant.
THEOREM Invariance == Spec => []IInv
  <1>1. IInv /\ [Next]_vars => IInv'
    <2>. SUFFICES ASSUME IInv, [Next]_vars PROVE IInv'
      OBVIOUS
    <2>1. CASE \/ \E a \in Addrs : Arrive(a)
               \/ Readable \/ RecvFails \/ RecvBatch \/ Forward \/ DeliverData \/ FirstPassEnds
               \/ SecondPass \/ SecondPassEnds \/ \E fd \in Fds : PeerReadable(fd)
               \/ PeerRecv \/ PeerDrained \/ UNCHANGED vars
      <3>1. UNCHANGED <<posts, armed, paused, registered, peer, claimed>>
        BY <2>1, ZenonT(60) DEF Arrive, Readable, RecvFails, RecvBatch, Forward, DeliverData,
             FirstPassEnds, SecondPass, SecondPassEnds, PeerReadable, PeerRecv, PeerDrained, vars, Unread,
             handleVars, peerVars
      <3>. QED  BY <3>1, RestPreserves, SMTT(60)
    <2>2. CASE \E op \in {"add", "pause", "resume"} : ExecuteInterest(op)
      BY <2>2, InterestPreserves, SMTT(60) DEF Interest
    <2>. QED  BY <2>1, <2>2, HandlePreserves, OwnersPreserves, PeerPostPreserves, KeepPreserves, SMTT(60)
              DEF Next, LoopStep
  <1>. QED  BY <1>1, InitEstablishes, PTL DEF Spec

\* A peer that claim() returned is the owner of its address until it is
\* relinquished, however many peers are claimed and whatever arrives.
THEOREM OwnersKeepAddress == Spec => []OpenPeerIsClaimed
  <1>1. IInv => OpenPeerIsClaimed
    BY SMTT(60) DEF IInv
  <1>. QED  BY <1>1, Invariance, PTL

\* With no post about it on its way, the parent socket is read exactly when
\* on_data was called and the last of pause and resume was not a pause.
THEOREM RegistrationSettles == Spec => []PauseSettles
  <1>1. IInv => PauseSettles
    BY DEF IInv
  <1>. QED  BY <1>1, Invariance, PTL
=============================================================================
