---------------------------- MODULE MCPureFunctions ----------------------------
\* Instance: every flag, width and precision around the lengths of the
\* arguments, buffers from one character up; entries next to each other and
\* across a sector's end; volumes around the limits between the FAT types;
\* the ends of months, and of 2037, after which 32 bits overflow; a heap of a
\* few blocks.
EXTENDS PureFunctions
Clk == INSTANCE Clock

Directives == [flags : SUBSET {"-", "0", "+", " "}, min : {0, 4}, max : {-1, 0, 3}, conv : {"d", "u", "x", "s"}]
Arg(conv) == IF conv = "s" THEN {<<>>, <<"a", "b">>, <<"a", "b", "c", "d", "e">>} ELSE {-300, -5, 0, 7, 1234}
MCPrintings ==
  UNION {[fn : {"vsnprintf"}, before : {<<>>, <<"%", "=">>}, d : {d}, star : BOOLEAN, arg : Arg(d.conv), maxlen : {1, 4, 7, 16}] : d \in Directives}

\* The entries of clusters 341 and 682 of FAT12 straddle sectors.
FatBytes == 0 .. 1047
MCEntries ==
  [fn : {"SetFAT"}, fs : {FAT12, FAT16, FAT32}, b : {[i \in FatBytes |-> 255], [i \in FatBytes |-> (i * 37 + 11) % 256]},
   c : {2, 3, 4, 31}, v : {0, 5, 4084, 65528, 268435448}]
    \cup [fn : {"SetFAT"}, fs : {FAT12}, b : {[i \in FatBytes |-> (i * 37 + 11) % 256]},
          c : {340, 341, 342, 681, 682, 683}, v : {0, 5, 4084, 4095}]

Abc == <<"a", "b", "c">>
MCNames == {Abc, <<"A", "b", "C">>, Abc \o <<".">> \o Abc, Abc \o <<".", "c">>, <<"a", ".", "b">>, <<"a", "b", ".", "b">>,
            Abc \o Abc \o <<"a", "b">>, Abc \o Abc \o <<"a", "b", ".", "b">>, Abc \o Abc \o Abc, Abc \o Abc \o Abc \o <<".", "b">>,
            Abc \o <<"/">> \o Abc, <<"a">>}

Boot(start, spc, numsecs, small, perfat, rootentries) ==
  [fn |-> "start_user_task", mbr |-> [ptable |-> [i \in 1 .. 4 |-> [start |-> start * i]]],
   lbr |-> [secperclus |-> spc, reserved |-> 1, sectors_s |-> IF small THEN numsecs ELSE 0, sectors_l |-> IF small THEN 0 ELSE numsecs,
            secperfat |-> IF rootentries = 0 THEN 0 ELSE perfat, fatsize |-> perfat, rootentries |-> rootentries, root |-> 2]]
MCDisks ==
  {Boot(start, spc, 1 + 2 * 20 + 33 + spc * clusters + extra, FALSE, 20, entries) :
     start \in {0, 63, 2048}, spc \in {1, 4, 64}, clusters \in {20, 4000, 4084, 4085, 4100, 65524, 65525, 65600, 70000},
     extra \in {0, 3}, entries \in {0, 224, 500, 512}}
    \cup {Boot(0, 1, 2880, TRUE, 9, 224)}

\* A second or two before the end of each month, of leap years and of others.
MCTimes ==
  [fn : {"mktime"}, clock : {[sec |-> s, min |-> 59, hour |-> 23, mday |-> Clk!MonthLength(Clk!FullYear([year |-> y]), mon), mon |-> mon, year |-> y] :
     s \in {58, 59}, mon \in 1 .. 12, y \in {70, 71, 72, 99, 0, 1, 4, 37}}]

MCLines == [fn : {"line"}, x1 : {0, 3}, y1 : {0, 2}, x2 : -7 .. 7, y2 : -7 .. 7]
================================================================================
