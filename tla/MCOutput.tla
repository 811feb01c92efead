------------------------------ MODULE MCOutput ------------------------------
(***************************************************************************)
(* Small words: 4 and 6 bits, decimal digits of radix 3, nibbles of 2 bits, *)
(* a screen of 3 lines of 4 columns, log messages of 5 characters and a     *)
(* pool of 15 bytes at an odd address.                                      *)
(***************************************************************************)
EXTENDS Output

MCTexts == {<<>>, <<"a", "b", "c", "d">>, <<"a", TAB, LF, "e", CR, "f", TAB>>,
            [n \in 1 .. VGA_ROWS * VGA_COLS + 1 |-> IF n % 2 = 0 THEN "o" ELSE "x"]}
MCValues32 == {0, 9, Word32 - 1}
MCValues64 == {0, Word64 - 1}
MCSigned32 == {-(Word32 \div 2), -1, 7}
MCSigned64 == {-(Word64 \div 2), 3}
MCFormats ==
    {<<Item("literal", "m"), Item("%d", -(Word32 \div 2)), Item("%s", <<"y", "z">>)>>,
     <<Item("%lld", -(Word64 \div 2)), Item("%x", 0), Item("%u", 5)>>,
     <<Item("%p", Word64 - 1)>>,
     <<Item("%s", <<"f", "u", "l", "l", "y">>), Item("%s", <<>>)>>,
     <<Item("%%", 0), Item("%c", "q"), Item("%other", "k"), Item("%", 0)>>,
     <<Item("%ll", "o")>>}
MCRequests == {<<0, 0>>, <<5, 4>>, <<4, 3>>, <<2, 16>>, <<SizeWord - 1, 1>>, <<1, SizeWord \div 2>>}
=============================================================================
