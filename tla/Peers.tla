-------------------------------- MODULE Peers --------------------------------
(***************************************************************************)
(* The active peers of one daemon: ActivePeerStore, driven by the          *)
(* notifications libp2p gives NetManager for every connection that opens   *)
(* and closes.  Two daemons may have more than one connection, and the     *)
(* notification that one has closed comes some time after it did.          *)
(***************************************************************************)
CONSTANTS
  PeerIDs,   (* The daemons of the network.                                 *)
  Self,      (* The one whose store this is.                                *)
  Conns,     (* Connections this daemon has over time.                      *)
  Remote     (* Remote[n]: the peer at the other end of connection n.       *)

ASSUME PeersAssumption ==
  /\ Self \in PeerIDs
  /\ Remote \in [Conns -> PeerIDs \ {Self}]

VARIABLES
  peers,     (* The keys of ActivePeerStore.peers.                          *)
  conn       (* conn[n]: whether connection n is new, open, closed, or      *)
             (* forgotten: closed and notified.                             *)

peerVars == <<peers, conn>>

PeersTypeOK ==
  /\ peers \subseteq PeerIDs
  /\ conn \in [Conns -> {"new", "open", "closed", "forgotten"}]

(* Mutant: a daemon does not count itself.                                 *)
PeersInitWithoutSelf ==
  /\ peers = {}
  /\ conn = [n \in Conns |-> "new"]

(* NewNetManager adds the daemon itself.                                   *)
PeersInit ==
  /\ peers = {Self}
  /\ conn = [n \in Conns |-> "new"]

(* A connection opens, dialled by HandlePeerFound on the side whose peer ID *)
(* is the greater, and Connected is called for it.                         *)
Connected(n) ==
  /\ conn[n] = "new"
  /\ conn' = [conn EXCEPT ![n] = "open"]
  /\ peers' = peers \cup {Remote[n]}

CloseConn(n) ==
  /\ conn[n] = "open"
  /\ conn' = [conn EXCEPT ![n] = "closed"]
  /\ UNCHANGED peers

(* Mutant: the peer stays in the store.                                    *)
DisconnectedIgnored(n) ==
  /\ conn[n] = "closed"
  /\ conn' = [conn EXCEPT ![n] = "forgotten"]
  /\ UNCHANGED peers

(* Disconnected removes the peer, whether or not another connection to it   *)
(* is open.                                                                *)
Disconnected(n) ==
  /\ conn[n] = "closed"
  /\ conn' = [conn EXCEPT ![n] = "forgotten"]
  /\ peers' = peers \ {Remote[n]}

PeersNext == \E n \in Conns : Connected(n) \/ CloseConn(n) \/ Disconnected(n)

-----------------------------------------------------------------------------
(* The store never lists a peer all of whose connections have closed, once  *)
(* the notifications have come; and it always lists the daemon itself.     *)
NoGhosts ==
  /\ Self \in peers
  /\ \A p \in peers \ {Self} : \E n \in Conns : Remote[n] = p /\ conn[n] \in {"open", "closed"}
=============================================================================
