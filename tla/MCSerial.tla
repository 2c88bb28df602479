------------------------------- MODULE MCSerial -------------------------------
EXTENDS SerialDriver
MCGenLimit == [i \in Slots |-> 1]
MCLetters == [c \in Clients |->
  IF c = 0 THEN [type : {"GET_CHAR"}, size : {4}]
                  \cup [type : {"SEND_MESSAGE"}, size : {6, 518}]
  ELSE [type : {"GET_CHAR", "GET_CHAR_NONBLOCKING", "QUIT"}, size : {4}]
         \cup [type : {"OTHER"}, size : {0, 1}]]
=============================================================================
