----------------------------- MODULE MCReceive -----------------------------
EXTENDS Receive
Ping == <<2, 1>>
Login == <<4, 2, 7, 8>>
Unknown == <<3, 6, 7>>
NoPacket == <<1, 1>>
AllPackets == {Ping, Login, Unknown, NoPacket}
HandledTypes == {1, 2}
=============================================================================
