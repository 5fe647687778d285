--------------------------- MODULE MCPushStatements ---------------------------
(* A desktop process with a push and an import on its event loop, a save   *)
(* in a thread with its dispatch, and an MCP server that saves and whose   *)
(* dispatch fails.                                                         *)
EXTENDS PushStatements, TLC

CONSTANTS desktop, mcp, push, import, save, job, agent, loop, pool, other, x, y

MCProcess == [c \in Conns |-> IF c = agent THEN mcp ELSE desktop]
MCThread == [c \in Conns |-> CASE c \in {push, import} -> loop
                               [] c \in {save, job} -> pool
                               [] OTHER -> other]
MCDispatcher == [c \in Conns |-> IF c = save THEN job ELSE Nobody]
MCBatch == [c \in {push} |-> <<x, y>>]
===============================================================================
