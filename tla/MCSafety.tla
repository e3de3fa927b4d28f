------------------------------- MODULE MCSafety -------------------------------
(* The components that are checked for safety alone, one at                  *)
(* a time: `part' is the component whose steps a behaviour takes, the others *)
(* stay in their initial state.  The components share no state, so a product *)
(* of them would only multiply the states of each by those of the others.    *)
EXTENDS TaskQueues, Rasterizer, RootIsolate, PointerDataPacketConverter,
        DesktopEventLoop

VARIABLE part

Parts == {"queues", "raster", "isolate", "pointers", "desktop"}

KernelListsOfTwo == {<<>>, <<"k1">>, <<"k1", "k2">>}

SumInit ==
    /\ part \in Parts
    /\ Init /\ RasterInit /\ ConverterInit /\ EventLoopInit
    /\ IsolateInit /\ (part # "isolate" => ~aot)

SumNext ==
    \/ /\ part = "queues" /\ Next
       /\ UNCHANGED <<part, rasterVars, isolateVars, converterVars,
                      eventLoopVars>>
    \/ /\ part = "raster" /\ RasterNext
       /\ UNCHANGED <<part, vars, isolateVars, converterVars, eventLoopVars>>
    \/ /\ part = "isolate" /\ IsolateNext
       /\ UNCHANGED <<part, vars, rasterVars, converterVars, eventLoopVars>>
    \/ /\ part = "pointers" /\ ConverterNext
       /\ UNCHANGED <<part, vars, rasterVars, isolateVars, eventLoopVars>>
    \/ /\ part = "desktop" /\ EventLoopNext
       /\ UNCHANGED <<part, vars, rasterVars, isolateVars, converterVars>>

sumVars == <<part, vars, rasterVars, isolateVars, converterVars, eventLoopVars>>

SumSpec == SumInit /\ [][SumNext]_sumVars
===============================================================================
