------------------------------ MODULE MCTerminal ------------------------------
(* Two small terminals for TLC: lines, texts and directories.              *)
EXTENDS Terminal

File(n, i)   == [name |-> n, inode |-> i, file_type |-> "file", last |-> FALSE]
Dir(n, i)    == [name |-> n, inode |-> i, file_type |-> "dir", last |-> FALSE]
LastOf(e)    == [e EXCEPT !.last = TRUE]

MCChar == {" ", "/", ">", "?", "0", "1", "2", "a", "b", "c", "d", "g", "l", "o", "r", "s", "t",
           "w", "x", "\n", "BS", "NUL"}

MCLines == {<<"l", "s", "\n">>, <<"c", "d", " ", "a", "\n">>,
            <<"r", "o", "o", "t", "\n">>, <<"x", "BS", "BS", "x", "\n">>}

MCTexts == {<<"w", "\n">>}

\* a name of four letters fills its entry
MCDirectories ==
    {<< <<LastOf(Dir(<<"a">>, 11))>> >>,
     << <<File(<<"b", "o", "o", "t">>, 12), LastOf(File(<<"a">>, 13))>>, <<LastOf(Dir(<<"g">>, 14))>> >>}
=============================================================================
