------------------------------- MODULE MCDemo -------------------------------
(***************************************************************************)
(* The application and its demo on a small instance: the configurations a  *)
(* server may be started with, and the builds of onnxruntime.              *)
(***************************************************************************)
EXTENDS Demo

Model(name, backend, fault) == [name |-> name, backend |-> backend, fault |-> fault]
Fp32  == Model("fp32", "onnxruntime-cpu", "none")
Int8  == Model("int8", "onnxruntime-cpu", "none")
Cuda  == Model("cuda", "onnxruntime-cuda", "none")
Trt   == Model("trt", "onnxruntime-tensorrt", "none")
CoreMl == Model("coreml", "onnxruntime-coreml", "none")

\* The shipped pair and the GPU one; a name twice; a second model that cannot
\* be read or has a backend there is not; none at all.
Lists == {<<Fp32, Int8>>, <<Cuda, Trt>>, <<CoreMl>>, <<Fp32, Cuda, Fp32>>,
          <<Fp32, Model("fp32", "onnxruntime-coreml", "none")>>,
          <<Fp32, Model("bad", "onnxruntime-cpu", "files")>>,
          <<Fp32, Model("bad", "onnxruntime-rocm", "none")>>, <<>>}

BadRun == <<Fp32, Model("bad", "onnxruntime-cpu", "run")>>

MakeConfig(form, specs, s) ==
    [form |-> form, specs |-> specs, batching |-> s.batching,
     controller |-> s.controller, warmup |-> s.warmup]

\* As shipped but for the controller; without a warm-up; without batchers.
Shipped  == [batching |-> TRUE, controller |-> TRUE, warmup |-> TRUE]
Switches == {Shipped,
             [batching |-> TRUE, controller |-> FALSE, warmup |-> FALSE],
             [batching |-> FALSE, controller |-> TRUE, warmup |-> FALSE]}

ServerYamls ==
    {MakeConfig("models", l, Shipped) : l \in Lists}
    \cup {MakeConfig("models", l, s) : l \in {<<Fp32, Int8>>, <<CoreMl>>, BadRun},
                                       s \in Switches}
    \cup {MakeConfig("model", <<Model(n, "onnxruntime-cpu", "none")>>, s) :
             n \in {"", "only"}, s \in Switches}
    \cup {MakeConfig("neither", <<>>, Shipped)}

\* A build without a GPU, and one with CUDA, which may not load.
OrtBuilds == {{"CPU"}, {"CPU", "CUDA"}}
=============================================================================
