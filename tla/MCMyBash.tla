------------------------------ MODULE MCMyBash -------------------------------
EXTENDS MyBash

MCSessions ==
  { <<"a", "|", "b", "|", "a", "nl">>,
    <<"a", "&", "nl", "a", "|", "b", "nl">>,
    <<"a", "|", "b", "&", "nl", "a", "|", "b", "nl">>,
    <<"a", ">", "f", "|", "a", "<", "f", "nl", "cd", "a", "nl", "a", "nl", "exit", "nl", "a", "nl">>,
    <<"a", "|", "nl", "nl", "a", "&", "b", "nl", "help">>,
    <<"|", "a", "nl", "<", "nl">> }
=============================================================================
