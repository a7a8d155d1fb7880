--------------------------- MODULE MCWaterSystem ---------------------------
(* Queues of one to three students, an empty queue, and a volume of two    *)
(* digits                                                                  *)
EXTENDS WaterSystem

MCInputs == {<<2, << <<2, Space, 1, Space, 1>>, <<3, Space, 1>> >> >>,
             <<3, << <<1>>, <<>>, <<1, 2, Space, 1>> >> >>}
MCNames == {"input.txt", "output.txt", "student.txt", "watertap.txt", "result.txt"}
MCSemNames == {"main", "student", "watertap", "main_watertap", "other"}
MCPrograms == {"water", "files", "semaphores"}
MCEarlier == <<"student", "watertap", "main_watertap">>
MCInitialValues == {-1, 1}
=============================================================================
