------------------------------ MODULE MCRc522 ------------------------------
(* Instances of Rc522 for TLC.                                             *)
EXTENDS Rc522

Bits(b) == {k \in 0..7 : (b \div 2^k) % 2 = 1}
Uid(a, b, c, d) == <<Bits(a), Bits(b), Bits(c), Bits(d)>>
WithBcc(uid) == Append(uid, Xor(Xor(uid[1], uid[2]), Xor(uid[3], uid[4])))

\* known_cards (02RFID/src/main.c:108-112).
Purple == Uid(77, 78, 192, 1)
Green == Uid(78, 229, 192, 1)
Yellow == Uid(178, 124, 199, 1)
KnownCards == {Purple, Green, Yellow}

\* Two of them, that have two bytes in common.
TwoTags == {"purple", "green"}
TwoIds == [t \in TwoTags |-> IF t = "purple" THEN WithBcc(Purple) ELSE WithBcc(Green)]

\* Noise that looks like an answer to REQA, and like a known card.
BadJunk == {Atqa, WithBcc(Purple)}
===========================================================================
