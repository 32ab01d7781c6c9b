------------------------- MODULE MCSessionLifecycle -------------------------
(* Instances of SessionLifecycle for TLC: the handshake, the batches a      *)
(* client sends in the negotiation, in turn, out of turn and repeated, and  *)
(* datagrams that carry several frames, fragments and released payloads.    *)
EXTENDS SessionLifecycle

CONSTANTS p1, p2, t1, t2

Plain(id) == [id |-> id, frames |-> <<>>]
FrameSet(fs) == [id |-> "FrameSet", frames |-> fs]
Frame(body) == [split |-> FALSE, emits |-> <<body>>]
Fragment(emits) == [split |-> TRUE, emits |-> emits]

Body(kind, enc, pkts) == [kind |-> kind, enc |-> enc, pkts |-> pkts]
Control(kind) == Body(kind, "raw", <<>>)
Raw(pkts) == Body("Batch", "raw", pkts)
Pkt(kind, p) == [kind |-> kind, protocol |-> p]
Login(p) == Raw(<<Pkt("Login", p)>>)
Settings(p) == Raw(<<Pkt("NetworkSettings", p)>>)

Handshake == {Plain(id) : id \in Offline}
Controls == {FrameSet(<<Frame(Control(k))>>) :
                k \in {"ConnectionRequest", "NewIncoming", "ConnectedPing"}}

(* 65958 is 65536 + 422.                                                    *)
Everything == Handshake \cup Controls \cup
    { FrameSet(<<Frame(Settings(475))>>),
      FrameSet(<<Frame(Settings(65958))>>),
      FrameSet(<<Frame(Control("Disconnect")), Frame(Settings(Unread))>>),
      FrameSet(<<Frame(Login(422)), Frame(Login(475))>>),
      FrameSet(<<Frame(Raw(<<Pkt("Login", 65958), Pkt("Login", 475)>>))>>),
      FrameSet(<<Fragment(<<>>),
                 Fragment(<<Body("Batch", "deflate", <<Pkt("Other", 475), Pkt("Login", 422)>>),
                            Control("NewIncoming")>>)>>),
      FrameSet(<<Frame(Body("Headless", "deflate",
                            <<Pkt("Unparsable", 475), Pkt("OddSkinLogin", 422)>>))>>) }

Contended ==
    { Plain("UnconnectedPing"), Plain("ConnectionRequest"),
      FrameSet(<<Fragment(<<Control("Disconnect")>>)>>),
      FrameSet(<<Frame(Login(422))>>), FrameSet(<<Frame(Login(475))>>) }

(* The receive loop, for two peers and everything they may send, and for    *)
(* one that sends more; and two tasks at once for the datagrams of one.     *)
SomeCallers ==
    { [tasks |-> {t1}, peers |-> {p1, p2}, datagrams |-> Everything, arrivals |-> 4],
      [tasks |-> {t1}, peers |-> {p1}, datagrams |-> Everything, arrivals |-> 5],
      [tasks |-> {t1, t2}, peers |-> {p1}, datagrams |-> Contended, arrivals |-> 3] }
=============================================================================
