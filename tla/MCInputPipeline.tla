--------------------------- MODULE MCInputPipeline ---------------------------
(* Subframes of two pages.  JSON files of a few lines, later and more      *)
(* crowded than the buffer can mend; test vectors around leap days, the    *)
(* end of a year and of a week.                                            *)
EXTENDS InputPipeline

Satellite(prn, items) == [prn |-> prn, items |-> items]
MCLineContents == {
    << Satellite(1, <<"page", "page">>) >>,
    << Satellite(2, <<"page", "null">>), Satellite(256, <<"page">>),
       Satellite(1, <<"page", "cut">>), Satellite(2, <<"page", "page">>) >>,
    << Satellite(1, <<"null", "page">>), Satellite(2, <<"malformed", "page">>) >> }

MCFileNames == {
    [date |-> Date(1999, 8, 21), second |-> 1],
    [date |-> Date(2000, 2, 29), second |-> 1],
    [date |-> Date(2023, 12, 31), second |-> 3],
    [date |-> Date(2024, 3, 2), second |-> 86399],     \* a Saturday
    [date |-> Date(2100, 3, 1), second |-> 1] }

Row(prn, claimed, pages) == [prn |-> prn, claimed |-> claimed, pages |-> pages]
MCRows == {
    Row(0, 1, <<TRUE>>),
    Row(256, 4, <<TRUE, TRUE, TRUE, TRUE>>),
    Row(1, 3, <<TRUE, TRUE, TRUE, TRUE>>),
    Row(1, 4, <<TRUE, TRUE, TRUE, TRUE>>),
    Row(2, 4, <<TRUE, FALSE, TRUE, TRUE>>),
    Row(2, 3, <<TRUE, TRUE, TRUE>>) }
MCFiles == UNION {[1 .. n -> MCRows] : n \in 0 .. 2}
=============================================================================
