--------------------------- MODULE MCParallelAIOs ---------------------------
(***************************************************************************)
(* Instances of ParallelAIOs for TLC: the transfers of Client::run and of  *)
(* Server::ClientConn::handle (RemoteCMD.cpp).                             *)
(***************************************************************************)
EXTENDS ParallelAIOs

\* console input -> socket, socket -> console output.
ClientSrc == <<"console", "socket">>
ClientDst == <<"socket", "console">>

\* pipe_out.read -> socket, socket -> pipe_in.write.
ServerSrc == <<"pipe", "socket">>
ServerDst == <<"socket", "pipe">>

=============================================================================
